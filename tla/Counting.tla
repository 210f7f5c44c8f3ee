------------------------------ MODULE Counting ------------------------------
(***************************************************************************)
(* What the proofs use of finite sets and their sizes. The facts are a     *)
(* hypothesis of the lemmas, and the last lemma of a proof module gets     *)
(* them from the library, so that the library's theorems are not among the *)
(* hypotheses of every step.                                               *)
(***************************************************************************)
EXTENDS Integers, FiniteSets

FiniteCount     == \A S : IsFiniteSet(S) => Cardinality(S) \in Nat
FiniteEmpty     == /\ IsFiniteSet({}) /\ Cardinality({}) = 0
                   /\ \A S : IsFiniteSet(S) => (Cardinality(S) = 0 <=> S = {})
FiniteSingleton == \A x : IsFiniteSet({x}) /\ Cardinality({x}) = 1
FiniteAdd       == \A S, x : IsFiniteSet(S) =>
                     /\ IsFiniteSet(S \cup {x})
                     /\ Cardinality(S \cup {x}) = IF x \in S THEN Cardinality(S) ELSE Cardinality(S) + 1
FiniteRemove    == \A S, x : IsFiniteSet(S) =>
                     /\ IsFiniteSet(S \ {x})
                     /\ Cardinality(S \ {x}) = IF x \in S THEN Cardinality(S) - 1 ELSE Cardinality(S)
FiniteSubset    == \A S : \A T \in SUBSET S : IsFiniteSet(S) =>
                     /\ IsFiniteSet(T) /\ Cardinality(T) <= Cardinality(S)
                     /\ Cardinality(S) = Cardinality(T) => S = T
FiniteUnion     == \A S, T : IsFiniteSet(S) /\ IsFiniteSet(T) =>
                     /\ IsFiniteSet(S \cup T)
                     /\ Cardinality(S \cup T) = Cardinality(S) + Cardinality(T) - Cardinality(S \cap T)
FiniteMinus     == \A S, T : IsFiniteSet(S) =>
                     /\ IsFiniteSet(S \ T)
                     /\ Cardinality(S \ T) = Cardinality(S) - Cardinality(S \cap T)
FiniteInterval  == \A m, n \in Int :
                     /\ IsFiniteSet(m .. n)
                     /\ Cardinality(m .. n) = IF m > n THEN 0 ELSE n - m + 1
FiniteProduct   == \A S, T : IsFiniteSet(S) /\ IsFiniteSet(T) =>
                     /\ IsFiniteSet(S \X T)
                     /\ Cardinality(S \X T) = Cardinality(S) * Cardinality(T)
FiniteImage     == \A S, T : \A f \in [S -> T] :
                     IsFiniteSet(S) /\ (\A y \in T : \E x \in S : f[x] = y) => IsFiniteSet(T)
FiniteInjection == \A S, T : \A f \in [S -> T] :
                     IsFiniteSet(T) /\ (\A x, y \in S : f[x] = f[y] => x = y) =>
                     IsFiniteSet(S) /\ Cardinality(S) <= Cardinality(T)
NatSmallest     == \A S \in SUBSET Nat : S # {} => \E x \in S : \A y \in S : x <= y

FiniteFacts ==
  /\ FiniteCount /\ FiniteEmpty /\ FiniteSingleton /\ FiniteAdd /\ FiniteRemove /\ FiniteSubset
  /\ FiniteUnion /\ FiniteMinus /\ FiniteInterval /\ FiniteProduct /\ FiniteImage
  /\ FiniteInjection /\ NatSmallest
=============================================================================
