----------------------------- MODULE LogProofs -----------------------------
(***************************************************************************)
(* The inductive invariant of module Log and the lemmas that every action  *)
(* preserves it, for any processes, blocks, contents and sizes; and that   *)
(* every step of the log is a step of the atomic disk or a stutter. The    *)
(* theorems are in module LogTheorems.                                     *)
(***************************************************************************)
EXTENDS Log, TLAPS, Counting

Distinct(s) == \A i, j \in 1..Len(s) : s[i] = s[j] => i = j

InCommit == {"write_log", "install", "committed"}

\* A block occurs once in a header, and the log's blocks fit the log area.
HeaderInv ==
  /\ Distinct(lh) /\ Len(lh) <= NLOG - 1
  /\ Distinct(dhead) /\ Len(dhead) <= NLOG - 1

\* outstanding counts the calls in progress; one process commits at a time, and
\* only when there is none; nothing runs before recovery is over.
CallInv ==
  /\ outstanding = Cardinality(InCall)
  /\ committing => InCall = {}
  /\ \A p \in Proc : pc[p] \in InCommit => committing
  /\ \A p, q \in Proc : pc[p] \in InCommit /\ pc[q] \in InCommit => p = q
  /\ boot # "up" => ~committing /\ \A p \in Proc : pc[p] = "idle"

\* What is on disk at each stage of recovery and of a commit.
StageInv ==
  /\ boot = "read" => lh = << >>
  /\ boot = "install" => /\ lh = dhead /\ tail <= Len(lh)
                         /\ \A i \in 1..tail : home[lh[i]] = dlog[i]
  /\ boot # "up" => cache = home
  /\ boot = "up" /\ (\A p \in Proc : pc[p] # "install") => dhead = << >>
  /\ \A p \in Proc :
       /\ pc[p] = "write_log" => /\ tail <= Len(lh)
                                 /\ \A i \in 1..tail : dlog[i] = cache[lh[i]]
       /\ pc[p] = "install" => /\ dhead = lh /\ tail <= Len(lh)
                               /\ \A i \in 1..Len(lh) : dlog[i] = cache[lh[i]]
                               /\ \A i \in 1..tail : home[lh[i]] = dlog[i]
       /\ pc[p] = "committed" => lh = << >>
  /\ (\A p \in Proc : pc[p] # "panic") =>
       \A b \in Block \ Logged(lh) : cache[b] = home[b]

\* A buffer whose only copy is in memory is referenced.
PinInv ==
  /\ \A b \in Block : pins[b] = 0 => cache[b] = home[b]
  /\ boot = "up" => \A i \in 1..Len(lh) :
       pins[lh[i]] > 0 \/ (i <= tail /\ \E p \in Proc : pc[p] = "install")

IInv == TypeOK /\ HeaderInv /\ CallInv /\ StageInv /\ PinInv

-----------------------------------------------------------------------------
(* Facts about headers and about the set of calls in progress *)

\* What Logged names after log_write appends a block.
LEMMA LoggedAppend ==
  ASSUME NEW s \in Seq(Block), NEW b \in Block
  PROVE  Logged(Append(s, b)) = Logged(s) \cup {b}
<1>1. Len(Append(s, b)) = Len(s) + 1 /\ Len(s) \in Nat
  OBVIOUS
<1>2. \A i \in 1..Len(s) : Append(s, b)[i] = s[i]
  OBVIOUS
<1>3. Append(s, b)[Len(s) + 1] = b
  OBVIOUS
<1>4. 1..(Len(s) + 1) = (1..Len(s)) \cup {Len(s) + 1}
  BY <1>1
<1> QED
  BY <1>1, <1>2, <1>3, <1>4 DEF Logged

\* log absorption (log.c:225-233) keeps the blocks of the header distinct.
LEMMA DistinctAppend ==
  ASSUME NEW s \in Seq(Block), NEW b \in Block, Distinct(s), b \notin Logged(s)
  PROVE  Distinct(Append(s, b))
<1>1. Len(Append(s, b)) = Len(s) + 1 /\ Len(s) \in Nat
  OBVIOUS
<1>2. \A i \in 1..Len(s) : Append(s, b)[i] = s[i] /\ s[i] # b
  BY DEF Logged
<1>3. Append(s, b)[Len(s) + 1] = b
  OBVIOUS
<1> QED
  BY <1>1, <1>2, <1>3 DEF Distinct

\* A block of a header is found at its only position.
LEMMA IndexOf ==
  ASSUME NEW s \in Seq(Block), Distinct(s), NEW i \in 1..Len(s)
  PROVE  Index(s, s[i]) = i
BY DEF Index, Distinct

\* The empty header names nothing.
LEMMA EmptyHeader == Logged(<< >>) = {} /\ Distinct(<< >>) /\ Len(<< >>) = 0
BY DEF Logged, Distinct

\* begin_op counts one more call.
LEMMA CallsGrow ==
  ASSUME FiniteFacts, NEW C \in SUBSET Proc, NEW p \in Proc, p \notin C
  PROVE  Cardinality(C \cup {p}) = Cardinality(C) + 1 /\ Cardinality(C) \in Nat
<1>1. IsFiniteSet(C)
  BY LogAssumption DEF FiniteFacts, FiniteSubset
<1> QED
  BY <1>1 DEF FiniteFacts, FiniteAdd, FiniteCount

\* end_op counts one less.
LEMMA CallsShrink ==
  ASSUME FiniteFacts, NEW C \in SUBSET Proc, NEW p \in C
  PROVE  /\ Cardinality(C) \in Nat \ {0}
         /\ Cardinality(C \ {p}) = Cardinality(C) - 1
         /\ Cardinality(C) = 1 => C = {p}
<1>1. IsFiniteSet(C) /\ IsFiniteSet(C \ {p})
  BY LogAssumption DEF FiniteFacts, FiniteSubset
<1>2. Cardinality(C) \in Nat /\ Cardinality(C) # 0
  BY <1>1 DEF FiniteFacts, FiniteCount, FiniteEmpty
<1>3. Cardinality(C \ {p}) = Cardinality(C) - 1
  BY <1>1 DEF FiniteFacts, FiniteRemove
<1>4. Cardinality(C) = 1 => C = {p}
  <2>1. Cardinality(C \ {p}) = 0 => C \ {p} = {}
    BY <1>1 DEF FiniteFacts, FiniteEmpty
  <2> QED
    BY <1>3, <2>1
<1> QED
  BY <1>2, <1>3, <1>4

-----------------------------------------------------------------------------
(* The invariant is inductive *)

\* The invariant holds of the disk mkfs writes.
LEMMA IInvInit == ASSUME FiniteFacts PROVE Init => IInv
<1> SUFFICES ASSUME Init PROVE IInv
  OBVIOUS
<1> USE LogAssumption DEF Init, LogAssumption
<1>1. TypeOK
  <2>1. pc \in [Proc -> PCs] /\ wrote \in [Proc -> SUBSET Block]
    BY DEF PCs
  <2>2. lh \in Seq(Block) /\ dhead \in Seq(Block)
    OBVIOUS
  <2>3. dlog \in [Slots -> Value] /\ pins \in [Block -> Nat]
    OBVIOUS
  <2>4. home \in [Block -> Value] /\ cache \in [Block -> Value]
    OBVIOUS
  <2> QED
    BY <2>1, <2>2, <2>3, <2>4, Zenon DEF TypeOK
<1>2. HeaderInv
  BY EmptyHeader DEF HeaderInv
<1>3. CallInv
  <2>1. InCall = {}
    BY DEF InCall
  <2> QED
    BY <2>1 DEF FiniteFacts, FiniteEmpty, CallInv, InCommit
<1>4. StageInv
  BY EmptyHeader DEF StageInv
<1>5. PinInv
  BY DEF PinInv
<1> QED
  BY <1>1, <1>2, <1>3, <1>4, <1>5 DEF IInv

\* A process that goes to sleep in begin_op changes only its own pc.
LEMMA BeginOpSleepStep ==
  ASSUME IInv, NEW p \in Proc, begin_op_sleep(p)
  PROVE  IInv'
<1> USE LogAssumption DEF LogAssumption, IInv, begin_op_sleep, disk
<1>1. TypeOK'
  BY DEF TypeOK, PCs
<1>2. \A q \in Proc : q # p => pc'[q] = pc[q]
  BY DEF TypeOK
<1>3. pc'[p] = "asleep"
  BY DEF TypeOK
<1>4. InCall' = InCall
  BY <1>2, <1>3 DEF InCall
<1>5. HeaderInv'
  BY DEF HeaderInv
<1>6. CallInv'
  BY <1>2, <1>3, <1>4 DEF CallInv, InCommit
<1>7. StageInv'
  BY <1>2, <1>3 DEF StageInv
<1>8. PinInv'
  BY <1>2, <1>3 DEF PinInv
<1> QED
  BY <1>1, <1>5, <1>6, <1>7, <1>8

\* A call that begins is counted, and begins only when nobody commits.
LEMMA BeginOpStep ==
  ASSUME FiniteFacts, IInv, NEW p \in Proc, begin_op(p)
  PROVE  IInv'
<1> USE LogAssumption DEF LogAssumption, IInv, begin_op, disk
<1>1. TypeOK'
  BY DEF TypeOK, PCs
<1>2. \A q \in Proc : q # p => pc'[q] = pc[q]
  BY DEF TypeOK
<1>3. pc'[p] = "op"
  BY DEF TypeOK
<1>4. InCall' = InCall \cup {p} /\ p \notin InCall
  BY <1>2, <1>3 DEF InCall
<1>5. HeaderInv'
  BY DEF HeaderInv
<1>6. CallInv'
  <2>1. outstanding' = Cardinality(InCall')
    BY <1>4, CallsGrow DEF CallInv, InCall
  <2> QED
    BY <1>2, <1>3, <1>4, <2>1 DEF CallInv, InCommit
<1>7. StageInv'
  BY <1>2, <1>3 DEF StageInv
<1>8. PinInv'
  BY <1>2, <1>3, SMTT(30) DEF PinInv
<1> QED
  BY <1>1, <1>5, <1>6, <1>7, <1>8

\* Evicting an unpinned buffer changes nothing: its home copy is the same.
LEMMA EvictStep ==
  ASSUME IInv, NEW b \in Block, evict(b)
  PROVE  IInv' /\ UNCHANGED vars
<1> USE DEF IInv, evict, disk
<1>1. cache' = cache
  BY DEF PinInv, TypeOK
<1>2. UNCHANGED vars
  BY <1>1 DEF vars
<1>3. UNCHANGED InCall
  BY <1>2 DEF InCall, vars
<1> QED
  BY <1>2, <1>3, SMTT(30) DEF vars, TypeOK, HeaderInv, CallInv, StageInv, PinInv

\* After a crash the disk is as it was and memory is as at boot.
LEMMA CrashStep ==
  ASSUME FiniteFacts, IInv, crash
  PROVE  IInv'
<1> USE LogAssumption DEF LogAssumption, IInv, crash, disk
<1>1. TypeOK'
  <2>1. (pc \in [Proc -> PCs])' /\ (wrote \in [Proc -> SUBSET Block])'
    BY DEF PCs
  <2>2. (lh \in Seq(Block))' /\ (pins \in [Block -> Nat])'
    OBVIOUS
  <2> QED
    BY <2>1, <2>2, Zenon DEF TypeOK
<1>2. HeaderInv'
  BY EmptyHeader DEF HeaderInv, TypeOK
<1>3. CallInv'
  <2>1. InCall' = {}
    BY DEF InCall
  <2> QED
    BY <2>1 DEF FiniteFacts, FiniteEmpty, CallInv, InCommit
<1>4. StageInv'
  BY DEF StageInv
<1>5. PinInv'
  BY DEF PinInv
<1> QED
  BY <1>1, <1>2, <1>3, <1>4, <1>5

\* log_write of a call in progress: a panic keeps the buffer referenced, an
\* absorbed write changes a block of the header, another one extends it.
LEMMA LogWriteStep ==
  ASSUME IInv, NEW p \in Proc, NEW b \in Block, NEW v \in Value,
         log_write(p, b, v)
  PROVE  IInv'
<1> USE LogAssumption DEF LogAssumption, IInv
<1>1. pc[p] = "op" /\ p \in InCall
  BY DEF InCall, log_write
<1>2. boot = "up" /\ ~committing /\ \A q \in Proc : pc[q] \notin InCommit
  BY <1>1 DEF CallInv, InCommit, TypeOK
<1>3. UNCHANGED <<home, dlog, dhead, outstanding, committing, tail, boot>>
  BY DEF log_write, disk
<1>4. /\ cache'[b] = v /\ cache' \in [Block -> Value]
      /\ \A c \in Block : c # b => cache'[c] = cache[c]
  BY DEF TypeOK, log_write
<1>5. /\ \A q \in Proc : q # p => pc'[q] = pc[q]
      /\ pc'[p] \in {"op", "panic"} /\ pc' \in [Proc -> PCs]
  BY <1>1, Zenon DEF TypeOK, PCs, log_write
<1>6. wrote' \in [Proc -> SUBSET Block]
  <2>1. wrote' = wrote \/ wrote' = [wrote EXCEPT ![p] = @ \cup {b}]
    BY DEF log_write
  <2>2. wrote \in [Proc -> SUBSET Block]
    BY DEF TypeOK
  <2>3. wrote[p] \cup {b} \in SUBSET Block
    BY <2>2
  <2> QED
    BY <2>1, <2>2, <2>3
<1>7. InCall' = InCall
  BY <1>1, <1>5 DEF InCall
<1>8. CallInv'
  BY <1>2, <1>3, <1>5, <1>7 DEF CallInv, InCommit
<1>9. /\ bpin(b) \in [Block -> Nat] /\ bpin(b)[b] > 0
      /\ \A c \in Block : bpin(b)[c] >= pins[c]
  BY DEF TypeOK, bpin
<1>10. \A i \in 1..Len(lh) : lh[i] \in Block /\ pins[lh[i]] > 0
  BY <1>2 DEF PinInv, InCommit, TypeOK
<1>11. CASE TooBig \/ outstanding < 1
  <2>1. lh' = lh /\ pins' = bpin(b) /\ pc'[p] = "panic"
    BY <1>11 DEF log_write, TypeOK
  <2>2. TypeOK' /\ HeaderInv'
    BY <1>3, <1>4, <1>5, <1>6, <1>9, <2>1, SMTT(30) DEF TypeOK, HeaderInv
  <2>3. StageInv'
    BY <1>2, <1>3, <1>5, <2>1, SMTT(30) DEF StageInv, InCommit
  <2>4. PinInv'
    <3>1. \A c \in Block : pins'[c] = 0 => cache'[c] = home'[c]
      BY <1>3, <1>4, <1>9, <2>1 DEF PinInv, TypeOK
    <3>2. \A i \in 1..Len(lh) : pins'[lh[i]] > 0
      BY <1>9, <1>10, <2>1, SMTT(30) DEF TypeOK
    <3> QED
      BY <2>1, <3>1, <3>2 DEF PinInv
  <2> QED
    BY <1>8, <2>2, <2>3, <2>4
<1>12. CASE ~(TooBig \/ outstanding < 1) /\ b \in Logged(lh)
  <2>1. lh' = lh /\ pins' = pins /\ pc' = pc
    BY <1>12 DEF log_write
  <2>2. TypeOK' /\ HeaderInv'
    BY <1>3, <1>4, <1>6, <2>1 DEF TypeOK, HeaderInv
  <2>3. StageInv'
    BY <1>2, <1>3, <1>4, <1>12, <2>1, SMTT(30) DEF StageInv, InCommit
  <2>4. PinInv'
    <3>1. pins[b] > 0
      BY <1>10, <1>12 DEF Logged
    <3>2. \A c \in Block : pins'[c] = 0 => cache'[c] = home'[c]
      BY <1>3, <1>4, <2>1, <3>1 DEF PinInv, TypeOK
    <3> QED
      BY <1>10, <2>1, <3>2, SMTT(30) DEF PinInv
  <2> QED
    BY <1>8, <2>2, <2>3, <2>4
<1>13. CASE ~(TooBig \/ outstanding < 1) /\ b \notin Logged(lh)
  <2>1. lh' = Append(lh, b) /\ pins' = bpin(b) /\ pc' = pc
    BY <1>13, SMTT(30) DEF log_write
  <2>2. /\ lh' \in Seq(Block) /\ Len(lh') = Len(lh) + 1
        /\ lh'[Len(lh) + 1] = b /\ \A i \in 1..Len(lh) : lh'[i] = lh[i]
    BY <2>1, SMTT(30) DEF TypeOK
  <2>3. TypeOK'
    BY <1>3, <1>4, <1>6, <1>9, <2>1, <2>2 DEF TypeOK
  <2>4. HeaderInv'
    BY <1>3, <1>13, <2>1, <2>2, DistinctAppend, SMTT(30) DEF TypeOK, HeaderInv, TooBig
  <2>5. StageInv'
    <3>1. Logged(lh') = Logged(lh) \cup {b}
      BY <2>1, LoggedAppend, SMTT(30) DEF TypeOK
    <3> QED
      BY <1>2, <1>3, <1>4, <2>1, <3>1 DEF StageInv, InCommit
  <2>6. PinInv'
    <3>1. \A i \in 1..Len(lh) : pins'[lh'[i]] > 0
      BY <1>9, <1>10, <2>1, <2>2, SMTT(30) DEF TypeOK
    <3>2. \A i \in 1..Len(lh') : pins'[lh'[i]] > 0
      <4> SUFFICES ASSUME NEW i \in 1..Len(lh') PROVE pins'[lh'[i]] > 0
        OBVIOUS
      <4>1. i \in 1..Len(lh) \/ i = Len(lh) + 1
        BY <2>2 DEF TypeOK
      <4> QED
        BY <1>9, <2>1, <2>2, <3>1, <4>1
    <3>3. \A c \in Block : pins'[c] = 0 => cache'[c] = home'[c]
      BY <1>3, <1>4, <1>9, <2>1 DEF PinInv, TypeOK
    <3> QED
      BY <3>2, <3>3, SMTT(30) DEF PinInv
  <2> QED
    BY <1>8, <2>3, <2>4, <2>5, <2>6
<1> QED
  BY <1>11, <1>12, <1>13

\* What end_op's wakeup(&log) does when p returns: only sleepers are disturbed.
LEMMA WakeOthers ==
  ASSUME TypeOK, NEW p \in Proc, pc' = Wake([pc EXCEPT ![p] = "idle"])
  PROVE  /\ pc' \in [Proc -> PCs] /\ pc'[p] = "idle"
         /\ \A q \in Proc : q # p => \/ pc'[q] = pc[q]
                                     \/ pc[q] = "asleep" /\ pc'[q] = "woken"
BY DEF Wake, PCs, TypeOK

\* end_op with other calls in progress: nobody commits, one call less.
LEMMA EndOpStep ==
  ASSUME FiniteFacts, IInv, NEW p \in Proc, end_op(p)
  PROVE  IInv' /\ InCall' = InCall \ {p}
<1> USE LogAssumption DEF LogAssumption, IInv
<1>1. pc[p] = "op" /\ p \in InCall
  BY DEF InCall, end_op
<1>2. boot = "up" /\ ~committing /\ \A q \in Proc : pc[q] \notin InCommit
  BY <1>1 DEF CallInv, InCommit, TypeOK
<1>3. /\ UNCHANGED <<home, dlog, dhead, cache, pins, lh, committing, tail, boot>>
      /\ outstanding' = outstanding - 1
      /\ wrote' \in [Proc -> SUBSET Block]
  BY DEF end_op, disk, TypeOK
<1>4. pc' = Wake([pc EXCEPT ![p] = "idle"])
  BY <1>2 DEF end_op
<1>5. /\ pc' \in [Proc -> PCs] /\ pc'[p] = "idle"
      /\ \A q \in Proc : q # p => \/ pc'[q] = pc[q]
                                  \/ pc[q] = "asleep" /\ pc'[q] = "woken"
  BY <1>4, WakeOthers, Zenon
<1>6. InCall' = InCall \ {p}
  BY <1>5 DEF InCall
<1>7. InCall \in SUBSET Proc /\ outstanding = Cardinality(InCall)
  BY DEF InCall, CallInv
<1>8. outstanding' = Cardinality(InCall') /\ outstanding' \in Nat
  BY <1>1, <1>3, <1>6, <1>7, CallsShrink
<1>9. TypeOK' /\ HeaderInv'
  BY <1>3, <1>5, <1>8 DEF TypeOK, HeaderInv
<1>10. CallInv'
  BY <1>2, <1>3, <1>5, <1>6, <1>8 DEF CallInv, InCommit
<1>11. \A q \in Proc : pc'[q] \notin InCommit /\ (pc'[q] = "panic" <=> pc[q] = "panic")
  BY <1>1, <1>2, <1>5, SMTT(30) DEF InCommit
<1>12. StageInv'
  BY <1>2, <1>3, <1>11, SMTT(30) DEF StageInv, InCommit
<1>13. PinInv'
  BY <1>2, <1>3, <1>11 DEF PinInv, InCommit
<1> QED
  BY <1>6, <1>9, <1>10, <1>12, <1>13

\* end_op of the last call: it becomes the only one that commits, and every
\* block that is not in the header is the same in memory and on disk.
LEMMA EndOpLastStep ==
  ASSUME FiniteFacts, IInv, NEW p \in Proc, end_op_last(p)
  PROVE  IInv' /\ InCall' = InCall \ {p}
<1> USE LogAssumption DEF LogAssumption, IInv, end_op_last, disk
<1>1. p \in InCall
  BY DEF InCall
<1>2. boot = "up" /\ ~committing /\ \A q \in Proc : pc[q] \notin InCommit
  BY <1>1 DEF CallInv, InCommit, TypeOK
<1>3. /\ pc' \in [Proc -> PCs] /\ \A q \in Proc : q # p => pc'[q] = pc[q]
      /\ pc'[p] = CommitStart
  BY <1>2 DEF TypeOK, PCs, CommitStart
<1>4. CommitStart \in {"write_log", "committed"}
  BY DEF CommitStart
<1>5. CommitStart = "committed" => lh = << >>
  BY DEF CommitStart, TypeOK
<1>6. InCall' = InCall \ {p}
  BY <1>3, <1>4 DEF InCall
<1>7. InCall = {p}
  BY <1>1, CallsShrink, ZenonT(30) DEF CallInv, InCall
<1>8. TypeOK' /\ HeaderInv'
  BY <1>3 DEF TypeOK, HeaderInv
<1>9. CallInv'
  BY <1>2, <1>3, <1>4, <1>6, <1>7 DEF FiniteFacts, FiniteEmpty, CallInv, InCommit
<1>10. \A q \in Proc : pc[q] # "panic"
  BY <1>7, SMTT(30) DEF InCall
<1>11. StageInv'
  BY <1>2, <1>3, <1>4, <1>5, <1>10, SMTT(30) DEF StageInv, InCommit, TypeOK
<1>12. PinInv'
  BY <1>2, <1>3, <1>4 DEF PinInv, InCommit
<1> QED
  BY <1>6, <1>8, <1>9, <1>11, <1>12

\* The end of a commit: the log is empty and nobody else was committing.
LEMMA EndCommitStep ==
  ASSUME IInv, NEW p \in Proc, end_commit(p)
  PROVE  IInv' /\ InCall' = InCall
<1> USE DEF IInv, end_commit, disk
<1>1. boot = "up" /\ committing /\ InCall = {}
  BY DEF CallInv, InCommit, TypeOK
<1>2. \A q \in Proc : q # p => pc[q] \notin InCommit
  BY DEF CallInv, InCommit
<1>3. /\ pc' \in [Proc -> PCs] /\ pc'[p] = "idle"
      /\ \A q \in Proc : q # p => \/ pc'[q] = pc[q]
                                  \/ pc[q] = "asleep" /\ pc'[q] = "woken"
  BY WakeOthers, Zenon
<1>4. InCall' = InCall
  BY <1>3, Zenon DEF InCall
<1>5. TypeOK' /\ HeaderInv'
  BY <1>3, Zenon DEF TypeOK, HeaderInv
<1>6. CallInv'
  BY <1>1, <1>2, <1>3, <1>4, Zenon DEF CallInv, InCommit
<1>7. StageInv'
  BY <1>1, <1>2, <1>3, ZenonT(20) DEF StageInv, InCommit
<1>8. PinInv'
  BY <1>1, <1>2, <1>3 DEF PinInv, InCommit, StageInv, TypeOK
<1> QED
  BY <1>4, <1>5, <1>6, <1>7, <1>8

\* write_log copies one more block of the header from memory to the log area.
LEMMA WriteLogStep ==
  ASSUME IInv, NEW p \in Proc, write_log(p)
  PROVE  IInv'
<1> USE LogAssumption DEF LogAssumption, IInv
<1>1. /\ pc[p] = "write_log" /\ tail < Len(lh) /\ tail' = tail + 1
      /\ dlog' = [dlog EXCEPT ![tail + 1] = cache[lh[tail + 1]]]
      /\ UNCHANGED <<home, dhead, cache, pins, lh, outstanding, committing, boot,
                     pc, wrote>>
  BY DEF write_log
<1>2. tail \in Nat /\ Len(lh) \in Nat /\ tail + 1 \in Slots /\ lh[tail + 1] \in Block
  BY <1>1, SMTT(20) DEF HeaderInv, TypeOK, Slots
<1>3. /\ dlog' \in [Slots -> Value] /\ dlog'[tail + 1] = cache[lh[tail + 1]]
      /\ \A i \in 1..tail : dlog'[i] = dlog[i]
  BY <1>1, <1>2, SMTT(30) DEF TypeOK, Slots
<1>4. TypeOK' /\ HeaderInv'
  BY <1>1, <1>2, <1>3, SMTT(30) DEF TypeOK, HeaderInv
<1>5. boot = "up" /\ \A q \in Proc : pc[q] # "install"
  BY <1>1, SMTT(30) DEF CallInv, InCommit, TypeOK
<1>6. CallInv'
  BY <1>1, SMTT(30) DEF CallInv, InCall
<1>7. StageInv'
  <2>1. \A i \in 1..tail : dlog[i] = cache[lh[i]]
    BY <1>1, SMTT(30) DEF StageInv
  <2>2. \A i \in 1..tail' : dlog'[i] = cache'[lh'[i]]
    BY <1>1, <1>2, <1>3, <2>1, SMTT(30)
  <2> QED
    BY <1>1, <1>2, <1>5, <2>2 DEF StageInv
<1>8. PinInv'
  BY <1>1, <1>5 DEF PinInv
<1> QED
  BY <1>4, <1>6, <1>7, <1>8

\* The commit point: the header on disk now names the blocks of the log.
LEMMA CommitPointStep ==
  ASSUME IInv, NEW p \in Proc, commit_point(p)
  PROVE  IInv' /\ InCall' = InCall
<1> USE LogAssumption DEF LogAssumption, IInv
<1>1. /\ pc[p] = "write_log" /\ tail = Len(lh) /\ tail' = 0 /\ dhead' = lh
      /\ pc' = [pc EXCEPT ![p] = "install"]
      /\ UNCHANGED <<home, dlog, cache, pins, lh, outstanding, committing, boot,
                     wrote>>
  BY DEF commit_point, write_head
<1>2. /\ pc' \in [Proc -> PCs] /\ pc'[p] = "install"
      /\ \A q \in Proc : q # p => pc'[q] = pc[q]
  BY <1>1 DEF TypeOK, PCs
<1>3. InCall' = InCall
  BY <1>1, <1>2, SMTT(30) DEF InCall
<1>4. TypeOK' /\ HeaderInv'
  BY <1>1, <1>2 DEF TypeOK, HeaderInv
<1>5. boot = "up" /\ \A q \in Proc : q # p => pc[q] \notin InCommit
  BY <1>1 DEF CallInv, InCommit, TypeOK
<1>6. CallInv'
  BY <1>1, <1>2, <1>3, <1>5, SMTT(30) DEF CallInv, InCommit
<1>7. StageInv'
  BY <1>1, <1>2, <1>5, SMTT(30) DEF StageInv, InCommit, TypeOK
<1>8. PinInv'
  BY <1>1, <1>2, <1>5, SMTT(30) DEF PinInv, InCommit
<1> QED
  BY <1>3, <1>4, <1>6, <1>7, <1>8

\* One turn of install_trans changes one home block, in memory and on disk, and
\* keeps the blocks installed before it.
LEMMA InstallOneEffect ==
  ASSUME TypeOK, HeaderInv, InstallOne, UNCHANGED <<dlog, lh>>,
         \A i \in 1..tail : home[lh[i]] = dlog[i]
  PROVE  /\ tail \in Nat /\ Len(lh) \in Nat /\ tail < Len(lh) /\ tail' = tail + 1
         /\ lh[tail + 1] \in Block /\ dlog[tail + 1] \in Value
         /\ home' \in [Block -> Value] /\ cache' \in [Block -> Value]
         /\ home'[lh[tail + 1]] = dlog[tail + 1]
         /\ cache'[lh[tail + 1]] = dlog[tail + 1]
         /\ \A c \in Block : c # lh[tail + 1] => home'[c] = home[c] /\ cache'[c] = cache[c]
         /\ \A i \in 1..tail' : home'[lh'[i]] = dlog'[i]
<1> USE LogAssumption DEF LogAssumption
<1>1. tail \in Nat /\ Len(lh) \in Nat /\ tail < Len(lh) /\ tail' = tail + 1
  BY DEF TypeOK, InstallOne
<1>2. lh[tail + 1] \in Block /\ dlog[tail + 1] \in Value
  BY <1>1, SMTT(30) DEF TypeOK, HeaderInv, Slots
<1>3. /\ home' \in [Block -> Value] /\ cache' \in [Block -> Value]
      /\ home'[lh[tail + 1]] = dlog[tail + 1]
      /\ cache'[lh[tail + 1]] = dlog[tail + 1]
      /\ \A c \in Block : c # lh[tail + 1] => home'[c] = home[c] /\ cache'[c] = cache[c]
  BY <1>2 DEF InstallOne, TypeOK
<1>4. ASSUME NEW i \in 1..tail PROVE lh[i] \in Block /\ lh[i] # lh[tail + 1]
  <2>1. i \in 1..Len(lh) /\ tail + 1 \in 1..Len(lh) /\ i # tail + 1
    BY <1>1
  <2> QED
    BY <2>1 DEF HeaderInv, Distinct, TypeOK
<1>5. \A i \in 1..tail' : i \in 1..tail \/ i = tail + 1
  BY <1>1
<1> QED
  BY <1>1, <1>2, <1>3, <1>4, <1>5

\* install_trans during a commit: the block it installs is pinned, and memory
\* already has what the log has.
LEMMA InstallTransStep ==
  ASSUME IInv, NEW p \in Proc, install_trans(p)
  PROVE  IInv' /\ cache' = cache
<1> USE DEF IInv
<1> DEFINE b == lh[tail + 1]
<1>1. /\ pc[p] = "install" /\ InstallOne /\ pins' = bunpin(b)
      /\ UNCHANGED <<dlog, dhead, lh, outstanding, committing, boot, pc, wrote>>
  BY DEF install_trans
<1>2. /\ boot = "up" /\ InCall = {}
      /\ \A q \in Proc : q # p => pc[q] \notin InCommit
  BY <1>1, SMTT(30) DEF CallInv, InCommit, TypeOK
<1>3. /\ dhead = lh /\ \A i \in 1..Len(lh) : dlog[i] = cache[lh[i]]
      /\ \A i \in 1..tail : home[lh[i]] = dlog[i]
  BY <1>1, SMTT(30) DEF StageInv
<1>4. /\ tail \in Nat /\ Len(lh) \in Nat /\ tail < Len(lh) /\ tail' = tail + 1
      /\ b \in Block /\ home' \in [Block -> Value] /\ cache' \in [Block -> Value]
      /\ home'[b] = dlog[tail + 1] /\ cache'[b] = dlog[tail + 1]
      /\ \A c \in Block : c # b => home'[c] = home[c] /\ cache'[c] = cache[c]
      /\ \A i \in 1..tail' : home'[lh'[i]] = dlog'[i]
  BY <1>1, <1>3, InstallOneEffect
<1>5. pins[b] > 0 /\ pins[b] \in Nat
  <2>1. tail + 1 \in 1..Len(lh) /\ ~(tail + 1 <= tail)
    BY <1>4, SMTT(30)
  <2> QED
    BY <1>2, <1>4, <2>1, ZenonT(20) DEF PinInv, TypeOK
<1>6. /\ pins' \in [Block -> Nat] /\ \A c \in Block : c # b => pins'[c] = pins[c]
  BY <1>1, <1>4, <1>5, SMTT(30) DEF bunpin, TypeOK
<1>7. cache' = cache
  <2>1. cache[b] = dlog[tail + 1]
    BY <1>3, <1>4, SMTT(30)
  <2>2. cache \in [Block -> Value] /\ \A c \in Block : cache'[c] = cache[c]
    BY <1>4, <2>1, SMTT(30) DEF TypeOK
  <2> QED
    BY <1>4, <2>2
<1>8. TypeOK' /\ HeaderInv'
  BY <1>1, <1>4, <1>6, SMTT(30) DEF TypeOK, HeaderInv
<1>9. CallInv'
  BY <1>1, SMTT(30) DEF CallInv, InCall
<1>10. StageInv'
  <2>1. b \in Logged(lh)
    BY <1>4, SMTT(30) DEF Logged
  <2>2. \A c \in Block \ Logged(lh) : cache[c] = home[c]
    BY <1>2, SMTT(30) DEF StageInv, InCall
  <2>3. \A c \in Block \ Logged(lh) : cache'[c] = home'[c]
    BY <1>4, <1>7, <2>1, <2>2
  <2> QED
    BY <1>1, <1>2, <1>3, <1>4, <1>7, <2>3, SMTT(30) DEF StageInv, InCommit
<1>11. PinInv'
  <2>1. \A c \in Block : pins'[c] = 0 => cache'[c] = home'[c]
    BY <1>4, <1>6, SMTT(30) DEF PinInv
  <2>2. ASSUME NEW i \in 1..Len(lh), i > tail + 1
        PROVE  pins'[lh[i]] > 0
    <3>1. lh[i] # b /\ lh[i] \in Block
      BY <1>4, <2>2, SMTT(30) DEF HeaderInv, Distinct, TypeOK
    <3>2. pins[lh[i]] > 0
      BY <1>2, <1>4, <2>2, SMTT(30) DEF PinInv
    <3> QED
      BY <1>6, <3>1, <3>2, SMTT(30)
  <2>3. \A i \in 1..Len(lh) : i > tail + 1 \/ i <= tail'
    BY <1>4
  <2> QED
    BY <1>1, <2>1, <2>2, <2>3, SMTT(30) DEF PinInv
<1> QED
  BY <1>7, <1>8, <1>9, <1>10, <1>11

\* Erasing the log, after every block has been installed.
LEMMA EraseLogStep ==
  ASSUME IInv, NEW p \in Proc, erase_log(p)
  PROVE  IInv' /\ InCall' = InCall
<1> USE LogAssumption DEF LogAssumption, IInv
<1>1. /\ pc[p] = "install" /\ tail = Len(lh)
      /\ lh' = << >> /\ dhead' = << >> /\ tail' = 0
      /\ pc' = [pc EXCEPT ![p] = "committed"]
      /\ UNCHANGED <<home, dlog, cache, pins, outstanding, committing, boot, wrote>>
  BY SMTT(30) DEF erase_log, EraseLog
<1>2. /\ boot = "up" /\ InCall = {}
      /\ \A q \in Proc : q # p => pc[q] \notin InCommit
  BY <1>1 DEF CallInv, InCommit, TypeOK
<1>3. /\ pc' \in [Proc -> PCs] /\ pc'[p] = "committed"
      /\ \A q \in Proc : q # p => pc'[q] = pc[q]
  BY <1>1 DEF TypeOK, PCs
<1>4. InCall' = InCall
  BY <1>1, <1>3, SMTT(30) DEF InCall
<1>5. TypeOK'
  <2>1. (lh \in Seq(Block))' /\ (dhead \in Seq(Block))' /\ (tail \in Nat)'
    BY <1>1
  <2> QED
    BY <1>1, <1>3, <2>1 DEF TypeOK
<1>6. HeaderInv'
  BY <1>1, EmptyHeader, SMTT(30) DEF HeaderInv
<1>7. CallInv'
  BY <1>1, <1>2, <1>3, <1>4 DEF CallInv, InCommit
<1>8. \A c \in Block : cache[c] = home[c]
  <2>1. \A i \in 1..Len(lh) : cache[lh[i]] = home[lh[i]]
    BY <1>1, SMTT(30) DEF StageInv
  <2>2. \A c \in Block \ Logged(lh) : cache[c] = home[c]
    BY <1>2, SMTT(30) DEF StageInv, InCall
  <2> QED
    BY <2>1, <2>2, SMTT(30) DEF Logged
<1>9. StageInv'
  BY <1>1, <1>2, <1>3, <1>8, SMTT(30) DEF StageInv, InCommit
<1>10. PinInv'
  <2>1. \A b \in Block : cache'[b] = home'[b]
    BY <1>1, <1>8
  <2>2. 1..Len(lh') = {}
    BY <1>1
  <2> QED
    BY <2>1, <2>2, SMTT(30) DEF PinInv
<1> QED
  BY <1>4, <1>5, <1>6, <1>7, <1>9, <1>10

\* Recovery reads the header, redoes the installation and erases the log; no
\* process runs yet.
LEMMA RecoverStep ==
  ASSUME IInv, recover_from_log
  PROVE  IInv' /\ InCall' = InCall
<1> USE LogAssumption DEF LogAssumption, IInv
<1>1. /\ boot \in {"read", "install"} /\ cache = home /\ ~committing
      /\ \A q \in Proc : pc[q] = "idle"
  BY SMTT(20) DEF recover_from_log, read_head, recover_install, recover_erase, CallInv,
         StageInv, TypeOK
<1>2. UNCHANGED <<dlog, pins, outstanding, committing, pc, wrote>>
  BY DEF recover_from_log, read_head, recover_install, recover_erase, disk
<1>3. InCall' = InCall
  BY <1>2 DEF InCall
<1>4. CallInv'
  BY <1>1, <1>2, <1>3 DEF CallInv, InCommit
<1>5. CASE read_head
  <2>1. /\ lh' = dhead /\ tail' = 0 /\ boot' = "install"
        /\ UNCHANGED <<home, dhead, cache>>
    BY <1>5 DEF read_head, disk
  <2>2. TypeOK' /\ HeaderInv'
    BY <1>2, <2>1, SMTT(30) DEF TypeOK, HeaderInv
  <2>3. StageInv'
    BY <1>1, <1>2, <2>1, <2>2 DEF StageInv, TypeOK
  <2>4. PinInv'
    BY <1>1, <2>1, ZenonT(20) DEF PinInv
  <2> QED
    BY <1>3, <1>4, <2>2, <2>3, <2>4
<1>6. CASE recover_install
  <2>1. InstallOne /\ boot = "install" /\ UNCHANGED <<dhead, lh, boot>>
    BY <1>6 DEF recover_install
  <2>2. \A i \in 1..tail : home[lh[i]] = dlog[i]
    BY <2>1, ZenonT(20) DEF StageInv
  <2>3. /\ tail \in Nat /\ Len(lh) \in Nat /\ tail < Len(lh) /\ tail' = tail + 1
        /\ home' \in [Block -> Value] /\ cache' \in [Block -> Value]
        /\ \A i \in 1..tail' : home'[lh'[i]] = dlog'[i]
    BY <1>2, <2>1, <2>2, InstallOneEffect, Zenon
  <2>4. cache' = home'
    BY <1>1, <2>1 DEF InstallOne
  <2>5. TypeOK' /\ HeaderInv'
    BY <1>2, <2>1, <2>3, SMTT(30) DEF TypeOK, HeaderInv
  <2>6. StageInv'
    BY <1>1, <1>2, <2>1, <2>3, <2>4, SMTT(30) DEF StageInv
  <2>7. PinInv'
    BY <2>1, <2>4 DEF PinInv
  <2> QED
    BY <1>3, <1>4, <2>5, <2>6, <2>7
<1>7. CASE recover_erase
  <2>1. /\ lh' = << >> /\ dhead' = << >> /\ tail' = 0 /\ boot' = "up"
        /\ UNCHANGED <<home, cache>>
    BY <1>7 DEF recover_erase, EraseLog
  <2>2. (lh \in Seq(Block))' /\ (dhead \in Seq(Block))' /\ (tail \in Nat)'
    BY <2>1
  <2>3. TypeOK' /\ HeaderInv'
    BY <1>2, <2>1, <2>2, EmptyHeader, SMTT(30) DEF TypeOK, HeaderInv
  <2>4. StageInv'
    BY <1>1, <1>2, <2>1, SMTT(30) DEF StageInv
  <2>5. PinInv'
    BY <1>1, <2>1, EmptyHeader DEF PinInv
  <2> QED
    BY <1>3, <1>4, <2>3, <2>4, <2>5
<1> QED
  BY <1>5, <1>6, <1>7, SMTT(30) DEF recover_from_log

\* Every step of the log preserves the invariant.
LEMMA IInvNext == ASSUME FiniteFacts PROVE IInv /\ [Next]_vars => IInv'
<1> SUFFICES ASSUME IInv, [Next]_vars PROVE IInv'
  BY SMTT(30)
<1>1. CASE UNCHANGED vars
  <2>1. UNCHANGED InCall
    BY <1>1, SMTT(30) DEF vars, InCall
  <2> QED
    BY <1>1, <2>1 DEF vars, IInv, TypeOK, HeaderInv, CallInv, StageInv, PinInv
<1>2. ASSUME NEW p \in Proc, ProcNext(p) PROVE IInv'
  BY <1>2, BeginOpSleepStep, BeginOpStep, LogWriteStep, EndOpStep, EndOpLastStep,
     WriteLogStep, CommitPointStep, InstallTransStep, EraseLogStep, EndCommitStep
     DEF ProcNext, commit
<1>3. ASSUME NEW b \in Block, evict(b) PROVE IInv'
  BY <1>3, EvictStep
<1>4. CASE crash
  BY <1>4, CrashStep
<1>5. CASE recover_from_log
  BY <1>5, RecoverStep
<1> QED
  BY <1>1, <1>2, <1>3, <1>4, <1>5 DEF Next

\* When the last end_op of a group returns, everything is installed.
LEMMA DurableFromInv == IInv => DurableOnReturn
<1> SUFFICES ASSUME IInv, NEW p \in Proc, pc[p] = "committed"
             PROVE  home = cache /\ dhead = << >> /\ lh = << >>
  BY SMTT(30) DEF DurableOnReturn
<1> USE DEF IInv
<1>1. /\ lh = << >> /\ boot = "up" /\ InCall = {}
      /\ \A q \in Proc : pc[q] # "install"
  BY SMTT(20) DEF StageInv, CallInv, InCommit, TypeOK
<1>2. dhead = << >>
  BY <1>1, SMTT(30) DEF StageInv
<1>3. \A c \in Block : cache[c] = home[c]
  BY <1>1, EmptyHeader DEF StageInv, InCall
<1> QED
  BY <1>1, <1>2, <1>3 DEF TypeOK

\* A step changes only home blocks that the header on disk names.
LEMMA WriteAheadStep ==
  IInv /\ [Next]_vars
    => [\A b \in Block : home'[b] # home[b] => b \in Logged(dhead)]_vars
<1> SUFFICES ASSUME IInv, Next, NEW b \in Block, home'[b] # home[b]
             PROVE  b \in Logged(dhead)
  OBVIOUS
<1> USE DEF IInv
<1>1. InstallOne /\ ((\E p \in Proc : pc[p] = "install") \/ boot = "install")
  BY ZenonT(20) DEF Next, ProcNext, commit, recover_from_log, begin_op_sleep, begin_op,
         log_write, end_op, end_op_last, write_log, commit_point, install_trans,
         erase_log, end_commit, evict, crash, read_head, recover_install,
         recover_erase, disk
<1>2. dhead = lh
  BY <1>1 DEF StageInv
<1>3. b = lh[tail + 1] /\ tail + 1 \in 1..Len(lh)
  BY <1>1 DEF InstallOne, TypeOK
<1> QED
  BY <1>2, <1>3 DEF Logged

-----------------------------------------------------------------------------
(* The log implements the atomic disk *)

\* What a reboot would find depends on the disk only.
LEMMA RecoveredSame ==
  ASSUME UNCHANGED disk
  PROVE  Recovered' = Recovered
<1>1. home' = home /\ dlog' = dlog /\ dhead' = dhead
  BY DEF disk
<1> QED
  BY <1>1, ZenonT(20) DEF Recovered

\* With an empty header, before or after a step, a reboot finds the home blocks.
LEMMA RecoveredEmpty ==
  /\ TypeOK /\ dhead = << >> => Recovered = home
  /\ TypeOK' /\ dhead' = << >> => Recovered' = home'
<1>1. TypeOK /\ dhead = << >> => Recovered = home
  BY EmptyHeader DEF Recovered, TypeOK
<1>2. ASSUME TypeOK', dhead' = << >> PROVE Recovered' = home'
  <2>1. Logged(dhead)' = {}
    BY <1>2, EmptyHeader DEF Logged
  <2> QED
    BY <1>2, <2>1 DEF Recovered, TypeOK
<1> QED
  BY <1>1, <1>2

\* With every block of the header installed, so it does too.
LEMMA RecoveredInstalled ==
  ASSUME TypeOK, HeaderInv, \A i \in 1..Len(dhead) : home[dhead[i]] = dlog[i]
  PROVE  Recovered = home
<1>1. ASSUME NEW c \in Logged(dhead) PROVE dlog[Index(dhead, c)] = home[c]
  <2>1. PICK i \in 1..Len(dhead) : c = dhead[i]
    BY <1>1 DEF Logged
  <2>2. Index(dhead, c) = i
    BY <2>1, IndexOf, SMTT(30) DEF TypeOK, HeaderInv
  <2> QED
    BY <2>1, <2>2, SMTT(30)
<1>2. \A c \in Block : Recovered[c] = home[c]
  BY <1>1, SMTT(30) DEF Recovered
<1> QED
  BY <1>2, SMTT(30) DEF Recovered, TypeOK

\* Installing a block that the header on disk names does not change what a
\* reboot would find.
LEMMA RecoveredInstall ==
  ASSUME TypeOK, HeaderInv, InstallOne, dhead = lh, UNCHANGED <<dlog, dhead>>
  PROVE  Recovered' = Recovered
<1>1. tail + 1 \in 1..Len(lh)
  BY DEF InstallOne, TypeOK
<1>2. lh[tail + 1] \in Logged(dhead)
  BY <1>1 DEF Logged
<1>3. \A c \in Block : c \notin Logged(dhead) => home'[c] = home[c]
  BY <1>2 DEF InstallOne, TypeOK
<1>4. Logged(dhead)' = Logged(dhead) /\ \A c : Index(dhead', c) = Index(dhead, c)
  BY DEF Logged
<1> QED
  BY <1>3, <1>4 DEF Recovered

\* The commit point makes durable exactly what is in memory.
LEMMA RecoveredCommit ==
  ASSUME IInv, IInv', NEW p \in Proc, commit_point(p)
  PROVE  Recovered' = cache
<1> USE DEF IInv
<1>1. /\ pc[p] = "write_log" /\ tail = Len(lh) /\ dhead' = lh
      /\ UNCHANGED <<home, dlog, cache, lh>>
  BY SMTT(30) DEF commit_point, write_head
<1>2. \A q \in Proc : pc[q] # "panic"
  BY <1>1, SMTT(30) DEF CallInv, InCommit, InCall
<1>3. ASSUME NEW c \in Logged(lh) PROVE dlog[Index(lh, c)] = cache[c]
  <2>1. PICK i \in 1..Len(lh) : c = lh[i]
    BY <1>3, SMTT(30) DEF Logged
  <2>2. Index(lh, c) = i
    BY <2>1, IndexOf, SMTT(30) DEF TypeOK, HeaderInv
  <2> QED
    BY <1>1, <2>1, <2>2 DEF StageInv
<1>4. \A c \in Block : c \notin Logged(lh) => home[c] = cache[c]
  BY <1>2, SMTT(30) DEF StageInv
<1>5. Recovered' = [c \in Block |-> IF c \in Logged(lh) THEN dlog[Index(lh, c)] ELSE home[c]]
  BY <1>1, SMTT(30) DEF Recovered, Logged, Index
<1>6. \A c \in Block : Recovered'[c] = cache[c]
  BY <1>3, <1>4, <1>5
<1> QED
  BY <1>5, <1>6 DEF TypeOK

\* The steps a process takes map to steps of the atomic disk.
LEMMA ProcRefines ==
  ASSUME FiniteFacts, IInv, IInv', NEW p \in Proc, ProcNext(p)
  PROVE  [Abs!Next]_(Abs!vars)
<1> USE DEF IInv
<1>1. CASE begin_op_sleep(p)
  <2>1. Recovered' = Recovered /\ Visible' = Visible
    BY <1>1, RecoveredSame, SMTT(30) DEF begin_op_sleep, Visible, disk
  <2>2. InCall' = InCall
    BY <1>1 DEF begin_op_sleep, InCall, TypeOK
  <2> QED
    BY <2>1, <2>2 DEF Abs!vars
<1>2. CASE begin_op(p)
  <2>1. Recovered' = Recovered /\ Visible' = Visible
    BY <1>2, RecoveredSame, SMTT(30) DEF begin_op, Visible, disk
  <2>2. InCall' = InCall \cup {p} /\ p \notin InCall
    BY <1>2 DEF begin_op, InCall, TypeOK
  <2> QED
    BY <2>1, <2>2 DEF Abs!Next, Abs!Begin
<1>3. ASSUME NEW b \in Block, NEW v \in Value, log_write(p, b, v)
      PROVE  [Abs!Next]_(Abs!vars)
  <2>1. p \in InCall /\ InCall' = InCall
    BY <1>3, SMTT(30) DEF log_write, InCall, TypeOK
  <2>2. boot = "up" /\ boot' = "up"
    BY <1>3 DEF log_write, CallInv, TypeOK
  <2>3. Recovered' = Recovered
    BY <1>3, RecoveredSame DEF log_write, disk
  <2>4. Visible' = [Visible EXCEPT ![b] = v]
    BY <1>3, <2>2 DEF log_write, Visible
  <2> QED
    BY <2>1, <2>3, <2>4, ZenonT(20) DEF Abs!Next, Abs!Write
<1>4. CASE end_op(p) \/ end_op_last(p)
  <2>1. Recovered' = Recovered /\ Visible' = Visible
    BY <1>4, RecoveredSame, SMTT(20) DEF end_op, end_op_last, Visible, disk
  <2>2. p \in InCall /\ InCall' = InCall \ {p}
    BY <1>4, EndOpStep, EndOpLastStep, Zenon DEF end_op, end_op_last, InCall
  <2> QED
    BY <2>1, <2>2 DEF Abs!Next, Abs!End
<1>5. CASE write_log(p)
  <2>1. dhead = << >> /\ dhead' = << >> /\ UNCHANGED <<home, cache, boot, pc>>
    BY <1>5, ZenonT(20) DEF write_log, StageInv, CallInv, InCommit, TypeOK
  <2>2. Recovered = home /\ Recovered' = home'
    BY <2>1, RecoveredEmpty
  <2> QED
    BY <2>1, <2>2 DEF Abs!vars, Visible, InCall
<1>6. CASE commit_point(p)
  <2>1. InCall' = InCall /\ InCall = {}
    BY <1>6, CommitPointStep, Zenon DEF CallInv, InCommit, commit_point
  <2>2. boot = "up" /\ boot' = "up" /\ cache' = cache
    BY <1>6, ZenonT(20) DEF commit_point, CallInv, TypeOK
  <2>3. Recovered' = Visible /\ Visible' = Visible
    BY <1>6, <2>2, RecoveredCommit DEF Visible
  <2> QED
    BY <2>1, <2>3, SMTT(20) DEF Abs!Next, Abs!Commit
<1>7. CASE install_trans(p)
  <2>1. /\ InstallOne /\ dhead = lh /\ boot = "up"
        /\ UNCHANGED <<dlog, dhead, boot, pc>>
    BY <1>7, ZenonT(20) DEF install_trans, StageInv, CallInv, TypeOK
  <2>2. Recovered' = Recovered /\ cache' = cache
    BY <1>7, <2>1, RecoveredInstall, InstallTransStep
  <2> QED
    BY <2>1, <2>2 DEF Abs!vars, Visible, InCall
<1>8. CASE erase_log(p)
  <2>1. /\ dhead = lh /\ tail = Len(lh) /\ pc[p] = "install"
        /\ dhead' = << >> /\ boot = "up" /\ UNCHANGED <<home, cache, boot>>
    BY <1>8, ZenonT(20) DEF erase_log, EraseLog, StageInv, CallInv, TypeOK
  <2>2. \A i \in 1..Len(dhead) : home[dhead[i]] = dlog[i]
    BY <2>1, ZenonT(20) DEF StageInv
  <2>3. Recovered = home /\ Recovered' = home'
    BY <2>1, <2>2, RecoveredInstalled, RecoveredEmpty, ZenonT(20)
  <2>4. InCall' = InCall
    BY <1>8, EraseLogStep
  <2> QED
    BY <2>1, <2>3, <2>4 DEF Abs!vars, Visible
<1>9. CASE end_commit(p)
  <2>1. Recovered' = Recovered /\ Visible' = Visible
    BY <1>9, RecoveredSame DEF end_commit, Visible, disk
  <2>2. InCall' = InCall
    BY <1>9, EndCommitStep
  <2> QED
    BY <2>1, <2>2 DEF Abs!vars
<1> QED
  BY <1>1, <1>2, <1>3, <1>4, <1>5, <1>6, <1>7, <1>8, <1>9 DEF ProcNext, commit

\* Recovery is invisible: it never changes what a reboot would find.
LEMMA RecoverRefines ==
  ASSUME IInv, IInv', recover_from_log
  PROVE  UNCHANGED Abs!vars
<1> USE DEF IInv
<1>1. InCall' = InCall
  BY RecoverStep
<1>2. boot # "up"
  BY DEF recover_from_log, read_head, recover_install, recover_erase
<1>3. CASE read_head
  <2>1. Recovered' = Recovered /\ boot' # "up"
    BY <1>3, RecoveredSame DEF read_head
  <2> QED
    BY <1>1, <1>2, <2>1 DEF Visible, Abs!vars
<1>4. CASE recover_install
  <2>1. InstallOne /\ dhead = lh /\ UNCHANGED <<dlog, dhead, boot>>
    BY <1>4 DEF recover_install, StageInv
  <2>2. Recovered' = Recovered
    BY <2>1, RecoveredInstall
  <2> QED
    BY <1>1, <1>2, <2>1, <2>2, SMTT(30) DEF Visible, Abs!vars
<1>5. CASE recover_erase
  <2>1. /\ dhead = lh /\ tail = Len(lh) /\ dhead' = << >> /\ boot' = "up"
        /\ cache = home /\ UNCHANGED <<home, cache>>
    BY <1>5, SMTT(30) DEF recover_erase, EraseLog, StageInv
  <2>2. \A i \in 1..Len(dhead) : home[dhead[i]] = dlog[i]
    BY <1>5, <2>1, SMTT(30) DEF StageInv, recover_erase
  <2>3. Recovered = home /\ Recovered' = home'
    BY <2>1, <2>2, RecoveredInstalled, RecoveredEmpty
  <2> QED
    BY <1>1, <1>2, <2>1, <2>3, SMTT(30) DEF Visible, Abs!vars
<1> QED
  BY <1>3, <1>4, <1>5 DEF recover_from_log

\* Initial states map to initial states of the atomic disk.
LEMMA AtomicInit == ASSUME FiniteFacts PROVE Init => Abs!Init
<1> SUFFICES ASSUME Init PROVE Abs!Init
  OBVIOUS
<1>1. IInv
  BY IInvInit
<1>2. Recovered = home
  BY <1>1, RecoveredEmpty DEF Init, IInv
<1>3. Visible = Recovered /\ InCall = {}
  BY DEF Init, Visible, InCall
<1> QED
  BY <1>2, <1>3 DEF Init, Abs!Init

\* Every step maps to a step of the atomic disk or to a stutter.
LEMMA AtomicStep == ASSUME FiniteFacts PROVE IInv /\ IInv' /\ [Next]_vars => [Abs!Next]_(Abs!vars)
<1> SUFFICES ASSUME IInv, IInv', [Next]_vars PROVE [Abs!Next]_(Abs!vars)
  OBVIOUS
<1>1. ASSUME UNCHANGED vars PROVE UNCHANGED Abs!vars
  <2>1. Recovered' = Recovered
    BY <1>1, RecoveredSame DEF vars, disk
  <2> QED
    BY <1>1, <2>1 DEF vars, Visible, InCall, Abs!vars
<1>2. ASSUME NEW p \in Proc, ProcNext(p) PROVE [Abs!Next]_(Abs!vars)
  BY <1>2, ProcRefines
<1>3. ASSUME NEW b \in Block, evict(b) PROVE UNCHANGED Abs!vars
  BY <1>1, <1>3, EvictStep
<1>4. CASE crash
  <2>1. Recovered' = Recovered
    BY <1>4, RecoveredSame DEF crash
  <2>2. Visible' = Recovered' /\ InCall' = {}
    BY <1>4 DEF crash, Visible, InCall
  <2> QED
    BY <2>1, <2>2 DEF Abs!Next, Abs!Crash
<1>5. ASSUME recover_from_log PROVE UNCHANGED Abs!vars
  BY <1>5, RecoverRefines
<1> QED
  BY <1>1, <1>2, <1>3, <1>4, <1>5 DEF Next
=============================================================================
