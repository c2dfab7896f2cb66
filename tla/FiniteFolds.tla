----------------------------- MODULE FiniteFolds -----------------------------
(***************************************************************************)
(* What the folds over finite sets of the models compute.  A set of        *)
(* naturals has a least element, so a family of subsets of a finite set    *)
(* that is not all of them misses a smallest one; every lemma on folds and *)
(* sums follows from that, and needs no induction rule.                    *)
(***************************************************************************)
EXTENDS Naturals, FiniteSets, FiniteSetsExt, FiniteSetTheorems, WellFoundedInduction, TLAPS

\* Numbers have a least one.
LEMMA LeastNat ==
  ASSUME NEW T, T \subseteq Nat, T # {}
  PROVE  \E m \in T : \A n \in T : m <= n
<1> DEFINE R == {ss \in Nat \X Nat : ss[1] < ss[2]}
<1>1. IsWellFoundedOn(R, Nat)
  BY NatLessThanWellFounded DEF OpToRel
<1> HIDE DEF R
<1>2. PICK m \in T : \A n \in T : <<n, m>> \notin R
  BY <1>1, WFMin
<1>3. ASSUME NEW n \in T, n < m
      PROVE  FALSE
  BY <1>2, <1>3 DEF R
<1> QED
  BY <1>3

\* A bounded set of them has a greatest one.
LEMMA GreatestNat ==
  ASSUME NEW n \in Nat, NEW T, T \subseteq 0..n, T # {}
  PROVE  \E m \in T : \A k \in T : k <= m
<1> DEFINE S == {k \in 0..n : n - k \in T}
<1>1. ASSUME NEW k \in T
      PROVE  k \in 0..n /\ n - k \in S
  <2>1. k \in 0..n
    OBVIOUS
  <2>2. n - k \in 0..n /\ n - (n - k) = k
    BY <2>1
  <2> QED
    BY <2>1, <2>2
<1>2. S \subseteq Nat
  OBVIOUS
<1>3. \E k \in T : n - k \in S
  BY <1>1
<1>4. PICK m \in S : \A k \in S : m <= k
  <2> HIDE DEF S
  <2> QED BY <1>2, <1>3, LeastNat
<1>5. ASSUME NEW k \in T
      PROVE  k <= n - m
  <2>1. m <= n - k /\ m \in 0..n
    BY <1>1, <1>4
  <2> QED
    BY <1>1, <2>1
<1> QED
  BY <1>4, <1>5

LEMMA GreatestIsMax ==
  ASSUME NEW n \in Nat, NEW T, T \subseteq 0..n, T # {}
  PROVE  Max(T) \in T /\ \A k \in T : k <= Max(T)
<1>1. PICK m \in T : \A k \in T : k <= m
  BY GreatestNat
<1>2. \A k \in T : m >= k
  BY <1>1
<1> QED
  BY <1>2 DEF Max

\* A family G of subsets of S that holds {}, and each set all of whose one
\* smaller subsets it holds, holds them all.
LEMMA AllSubsets ==
  ASSUME NEW S, IsFiniteSet(S), NEW G, {} \in G,
         \A s \in SUBSET S : s # {} /\ (\A x \in s : s \ {x} \in G) => s \in G
  PROVE  S \in G
<1> DEFINE missed == (SUBSET S) \ G
           sizes == {Cardinality(s) : s \in missed}
<1>0. \A s \in SUBSET S : IsFiniteSet(s) /\ Cardinality(s) \in Nat
  BY FS_Subset, FS_CardinalityType
<1>1. SUFFICES ASSUME sizes # {} PROVE FALSE
  OBVIOUS
<1>2. PICK m \in sizes : \A n \in sizes : m <= n
  <2>1. sizes \subseteq Nat
    BY <1>0
  <2> HIDE DEF sizes
  <2> QED BY <1>1, <2>1, LeastNat
<1>3. PICK s \in missed : m = Cardinality(s)
  BY <1>2
<1>4. \A x \in s : s \ {x} \in G
  <2> SUFFICES ASSUME NEW x \in s, s \ {x} \in missed
               PROVE  FALSE
    OBVIOUS
  <2>1. Cardinality(s \ {x}) = Cardinality(s) - 1 /\ Cardinality(s) \in Nat
    BY <1>0, FS_RemoveElement
  <2> QED BY <1>2, <1>3, <2>1
<1> QED
  BY <1>3, <1>4

-----------------------------------------------------------------------------
(* Folds *)

\* g folds F over the subsets of S, taking P[s] out of s, as MapThenFoldSet does.
Folds(g, F, P, base, S) ==
  g = [s \in SUBSET S |-> IF s = {} THEN base ELSE F[s][g[s \ {P[s]}]]]

\* The same for the subsets of S with up to n elements.
FoldsBelow(g, F, P, base, S, n) ==
  \A s \in SUBSET S : Cardinality(s) <= n =>
    g[s] = IF s = {} THEN base ELSE F[s][g[s \ {P[s]}]]

\* There is such a g for every n.
LEMMA FoldsUpTo ==
  ASSUME NEW S, IsFiniteSet(S), NEW P, \A s \in SUBSET S : s # {} => P[s] \in s,
         NEW V, NEW base \in V, NEW F \in [SUBSET S -> [V -> V]], NEW n \in Nat
  PROVE  \E g \in [SUBSET S -> V] : FoldsBelow(g, F, P, base, S, n)
<1> USE DEF FoldsBelow
<1> DEFINE bad == {m \in Nat : ~ \E g \in [SUBSET S -> V] : FoldsBelow(g, F, P, base, S, m)}
<1>0. \A s \in SUBSET S : IsFiniteSet(s) /\ Cardinality(s) \in Nat
  BY FS_Subset, FS_CardinalityType
<1>1. SUFFICES ASSUME bad # {} PROVE FALSE
  OBVIOUS
<1>2. PICK m \in bad : \A k \in bad : m <= k
  <2>1. bad \subseteq Nat
    OBVIOUS
  <2> HIDE DEF bad
  <2> QED BY <1>1, <2>1, LeastNat
<1>3. CASE m = 0
  <2> DEFINE g == [s \in SUBSET S |-> base]
  <2>1. ASSUME NEW s \in SUBSET S, Cardinality(s) <= 0
        PROVE  s = {}
    BY <1>0, <2>1, FS_EmptySet
  <2>2. FoldsBelow(g, F, P, base, S, 0)
    BY <2>1
  <2>3. g \in [SUBSET S -> V]
    OBVIOUS
  <2> HIDE DEF g
  <2> QED BY <1>2, <1>3, <2>2, <2>3
<1>4. CASE m # 0
  <2>1. m - 1 \in Nat /\ ~(m <= m - 1) /\ m \in Nat
    BY <1>2, <1>4
  <2>2. PICK h \in [SUBSET S -> V] : FoldsBelow(h, F, P, base, S, m - 1)
    BY <1>2, <2>1
  <2> DEFINE g == [s \in SUBSET S |-> IF s = {} THEN base ELSE F[s][h[s \ {P[s]}]]]
  <2>3. \A s \in SUBSET S : Cardinality(s) <= m - 1 => g[s] = h[s]
    BY <2>2
  <2>4. ASSUME NEW s \in SUBSET S, Cardinality(s) <= m, s # {}
        PROVE  g[s \ {P[s]}] = h[s \ {P[s]}]
    <3>1. Cardinality(s \ {P[s]}) = Cardinality(s) - 1
      BY <1>0, <2>4, FS_RemoveElement
    <3>2. Cardinality(s \ {P[s]}) <= m - 1
      BY <1>0, <2>1, <2>4, <3>1
    <3>3. s \ {P[s]} \in SUBSET S
      OBVIOUS
    <3> HIDE DEF g
    <3> QED BY <2>3, <3>2, <3>3
  <2>5. FoldsBelow(g, F, P, base, S, m)
    <3> SUFFICES ASSUME NEW s \in SUBSET S, Cardinality(s) <= m
                 PROVE  g[s] = IF s = {} THEN base ELSE F[s][g[s \ {P[s]}]]
      OBVIOUS
    <3>1. g[s] = IF s = {} THEN base ELSE F[s][h[s \ {P[s]}]]
      OBVIOUS
    <3> HIDE DEF g
    <3> QED BY <2>4, <3>1
  <2>6. g \in [SUBSET S -> V]
    <3>1. \A s \in SUBSET S : s \ {P[s]} \in SUBSET S /\ h[s \ {P[s]}] \in V
      OBVIOUS
    <3>2. \A s \in SUBSET S : F[s][h[s \ {P[s]}]] \in V
      BY <3>1
    <3> QED BY <3>2
  <2> HIDE DEF g
  <2> QED BY <1>2, <2>5, <2>6
<1> QED
  BY <1>3, <1>4

\* So every fold over a finite set is defined.
LEMMA FoldExists ==
  ASSUME NEW S, IsFiniteSet(S), NEW P, \A s \in SUBSET S : s # {} => P[s] \in s,
         NEW V, NEW base \in V, NEW F \in [SUBSET S -> [V -> V]]
  PROVE  \E g \in [SUBSET S -> V] : Folds(g, F, P, base, S)
<1>1. PICK g \in [SUBSET S -> V] : FoldsBelow(g, F, P, base, S, Cardinality(S))
  BY FS_CardinalityType, FoldsUpTo
<1>2. \A s \in SUBSET S : Cardinality(s) <= Cardinality(S)
  BY FS_Subset
<1>3. \A s \in SUBSET S : g[s] = IF s = {} THEN base ELSE F[s][g[s \ {P[s]}]]
  BY <1>1, <1>2 DEF FoldsBelow
<1>4. g = [s \in SUBSET S |-> g[s]]
  OBVIOUS
<1>5. g = [s \in SUBSET S |-> IF s = {} THEN base ELSE F[s][g[s \ {P[s]}]]]
  BY <1>3, <1>4
<1> QED
  BY <1>5 DEF Folds

-----------------------------------------------------------------------------
(* Sums, and how they are made *)

Some(s) == CHOOSE x \in s : TRUE

LEMMA SomeIn ==
  ASSUME NEW s, s # {}
  PROVE  Some(s) \in s
  BY DEF Some

\* g adds up W over the subsets of S, the way MapThenSumSet does.
AddsUp(g, W, S) ==
  g = [s \in SUBSET S |-> IF s = {} THEN 0 ELSE W[Some(s)] + g[s \ {Some(s)}]]

Adding(W, S) == CHOOSE g : AddsUp(g, W, S)

SumOver(W, S) == Adding(W, S)[S]

\* What Adding is.
LEMMA AddingStep ==
  ASSUME NEW S, IsFiniteSet(S), NEW W, \A x \in S : W[x] \in Nat
  PROVE  /\ Adding(W, S)[{}] = 0
         /\ \A s \in SUBSET S : /\ Adding(W, S)[s] \in Nat
                                /\ s # {} => Adding(W, S)[s] = W[Some(s)] + Adding(W, S)[s \ {Some(s)}]
<1> DEFINE P == [s \in SUBSET S |-> Some(s)]
           F == [s \in SUBSET S |-> [k \in Nat |-> IF s = {} THEN 0 ELSE W[Some(s)] + k]]
<1>1. \A s \in SUBSET S : s # {} => P[s] = Some(s) /\ P[s] \in s /\ W[P[s]] \in Nat
  BY SomeIn
<1>2. F \in [SUBSET S -> [Nat -> Nat]]
  <2>1. ASSUME NEW s \in SUBSET S
        PROVE  [k \in Nat |-> IF s = {} THEN 0 ELSE W[Some(s)] + k] \in [Nat -> Nat]
    <3>1. CASE s = {}
      BY <3>1
    <3>2. CASE s # {}
      <4>1. W[Some(s)] \in Nat
        BY <1>1, <3>2
      <4> QED BY <3>2, <4>1
    <3> QED BY <3>1, <3>2
  <2> QED BY <2>1
<1>3. PICK h \in [SUBSET S -> Nat] : Folds(h, F, P, 0, S)
  <2> HIDE DEF P, F
  <2> QED BY <1>1, <1>2, FoldExists
<1>4. \A s \in SUBSET S : h[s] = IF s = {} THEN 0 ELSE W[Some(s)] + h[s \ {Some(s)}]
  <2> SUFFICES ASSUME NEW s \in SUBSET S, s # {}
               PROVE  h[s] = W[Some(s)] + h[s \ {Some(s)}]
    BY <1>3 DEF Folds
  <2>1. h[s] = F[s][h[s \ {Some(s)}]] /\ h[s \ {Some(s)}] \in Nat
    BY <1>1, <1>3 DEF Folds
  <2> QED BY <2>1
<1>5. AddsUp(h, W, S)
  BY <1>4 DEF AddsUp
<1> DEFINE a == Adding(W, S)
<1>6. AddsUp(a, W, S)
  BY <1>5 DEF Adding
<1> HIDE DEF a
<1>7. a[{}] = 0 /\ \A s \in SUBSET S : s # {} => a[s] = W[Some(s)] + a[s \ {Some(s)}]
  BY <1>6 DEF AddsUp
<1>8. \A s \in SUBSET S : a[s] \in Nat
  <2> SUFFICES ASSUME NEW T \in SUBSET S
               PROVE  a[T] \in Nat
    OBVIOUS
  <2> DEFINE G == {s \in SUBSET T : a[s] \in Nat}
  <2>1. {} \in G
    BY <1>7
  <2>2. ASSUME NEW s \in SUBSET T, s # {}, \A x \in s : s \ {x} \in G
        PROVE  s \in G
    <3>1. a[s] = W[Some(s)] + a[s \ {Some(s)}] /\ Some(s) \in s
      BY <1>7, <2>2, SomeIn
    <3>2. a[s \ {Some(s)}] \in Nat /\ W[Some(s)] \in Nat
      BY <2>2, <3>1
    <3> QED BY <3>1, <3>2
  <2>3. IsFiniteSet(T)
    BY FS_Subset
  <2> HIDE DEF G
  <2>4. T \in G
    BY <2>1, <2>2, <2>3, AllSubsets
  <2> QED BY <2>4 DEF G
<1> QED
  BY <1>7, <1>8 DEF a

\* The sum over a subset is the same whichever set it is made in.
LEMMA AddingAgrees ==
  ASSUME NEW S, IsFiniteSet(S), NEW T \in SUBSET S, NEW W, \A x \in S : W[x] \in Nat
  PROVE  Adding(W, S)[T] = SumOver(W, T)
<1> DEFINE g == Adding(W, S)
           h == Adding(W, T)
           G == {s \in SUBSET T : g[s] = h[s]}
<1>1. IsFiniteSet(T)
  BY FS_Subset
<1>2. /\ g[{}] = 0
      /\ \A s \in SUBSET S : s # {} => g[s] = W[Some(s)] + g[s \ {Some(s)}]
  BY AddingStep
<1>3. /\ h[{}] = 0
      /\ \A s \in SUBSET T : s # {} => h[s] = W[Some(s)] + h[s \ {Some(s)}]
  BY <1>1, AddingStep
<1> HIDE DEF g, h
<1>4. {} \in G
  BY <1>2, <1>3
<1>5. ASSUME NEW s \in SUBSET T, s # {}, \A x \in s : s \ {x} \in G
      PROVE  s \in G
  BY <1>2, <1>3, <1>5, SomeIn
<1>6. T \in G
  <2> HIDE DEF G
  <2> QED BY <1>1, <1>4, <1>5, AllSubsets
<1> QED
  BY <1>6 DEF g, h, SumOver

LEMMA SumOverNothing ==
  ASSUME NEW W
  PROVE  SumOver(W, {}) = 0
  BY AddingStep, FS_EmptySet DEF SumOver

LEMMA SumOverSome ==
  ASSUME NEW S, IsFiniteSet(S), S # {}, NEW W, \A x \in S : W[x] \in Nat
  PROVE  SumOver(W, S) = W[Some(S)] + SumOver(W, S \ {Some(S)})
<1>1. SumOver(W, S) = W[Some(S)] + Adding(W, S)[S \ {Some(S)}]
  BY AddingStep DEF SumOver
<1>2. Adding(W, S)[S \ {Some(S)}] = SumOver(W, S \ {Some(S)})
  BY AddingAgrees
<1> QED
  BY <1>1, <1>2

\* A sum of naturals is one.
LEMMA SumOverType ==
  ASSUME NEW S, IsFiniteSet(S), NEW W, \A x \in S : W[x] \in Nat
  PROVE  SumOver(W, S) \in Nat
  BY AddingStep DEF SumOver

\* The order in which the elements are taken does not matter.
LEMMA SumOverRemove ==
  ASSUME NEW S, IsFiniteSet(S), NEW W, \A x \in S : W[x] \in Nat, NEW x \in S
  PROVE  SumOver(W, S) = W[x] + SumOver(W, S \ {x})
<1> DEFINE G == {s \in SUBSET S : \A y \in s : SumOver(W, s) = W[y] + SumOver(W, s \ {y})}
<1>1. {} \in G
  OBVIOUS
<1>2. ASSUME NEW s \in SUBSET S, s # {}, \A y \in s : s \ {y} \in G
      PROVE  s \in G
  <2> SUFFICES ASSUME NEW y \in s
               PROVE  SumOver(W, s) = W[y] + SumOver(W, s \ {y})
    OBVIOUS
  <2> DEFINE c == Some(s)
             t == s \ {c}
             v == s \ {y}
  <2>1. IsFiniteSet(s) /\ c \in s
    BY <1>2, FS_Subset, SomeIn
  <2>2. SumOver(W, s) = W[c] + SumOver(W, t)
    BY <1>2, <2>1, SumOverSome
  <2> HIDE DEF c
  <2>3. CASE y # c
    <3>1. SumOver(W, t) = W[y] + SumOver(W, t \ {y})
      BY <1>2, <2>1, <2>3
    <3>2. SumOver(W, v) = W[c] + SumOver(W, v \ {c})
      BY <1>2, <2>1, <2>3
    <3>3. v \ {c} = t \ {y}
      OBVIOUS
    <3>4. W[c] \in Nat /\ W[y] \in Nat /\ SumOver(W, t \ {y}) \in Nat
      BY <2>1, FS_Subset, SumOverType
    <3>6. SumOver(W, v) = W[c] + SumOver(W, t \ {y})
      BY <3>2, <3>3
    <3> HIDE DEF t, v
    <3>5. SumOver(W, s) = W[y] + SumOver(W, v)
      BY <2>2, <3>1, <3>4, <3>6
    <3> QED BY <3>5 DEF v
  <2> QED BY <2>2, <2>3
<1>3. S \in G
  <2> HIDE DEF G
  <2> QED BY <1>1, <1>2, AllSubsets
<1> QED
  BY <1>3

\* Each element contributes.
LEMMA SumOverMember ==
  ASSUME NEW S, IsFiniteSet(S), NEW W, \A x \in S : W[x] \in Nat, NEW x \in S
  PROVE  W[x] <= SumOver(W, S)
<1>1. SumOver(W, S) = W[x] + SumOver(W, S \ {x})
  BY SumOverRemove
<1>2. SumOver(W, S \ {x}) \in Nat
  BY FS_Subset, SumOverType
<1> QED
  BY <1>1, <1>2

\* A larger set has no smaller sum.
LEMMA SumOverSubset ==
  ASSUME NEW S, IsFiniteSet(S), NEW W, \A x \in S : W[x] \in Nat, NEW T \in SUBSET S
  PROVE  SumOver(W, T) <= SumOver(W, S)
<1> DEFINE G == {s \in SUBSET S : SumOver(W, T \cap s) <= SumOver(W, s)}
<1>0. \A s \in SUBSET S : IsFiniteSet(s) /\ SumOver(W, s) \in Nat
  BY FS_Subset, SumOverType
<1>1. {} \in G
  <2>1. T \cap {} = {}
    OBVIOUS
  <2> QED BY <2>1, SumOverNothing
<1>2. ASSUME NEW s \in SUBSET S, s # {}, \A x \in s : s \ {x} \in G
      PROVE  s \in G
  <2>1. PICK x \in s : TRUE
    BY <1>2
  <2>2. SumOver(W, s) = W[x] + SumOver(W, s \ {x})
    BY <1>0, SumOverRemove
  <2>3. SumOver(W, T \cap (s \ {x})) <= SumOver(W, s \ {x})
    BY <1>2
  <2>4. CASE x \in T
    <3>1. SumOver(W, T \cap s) = W[x] + SumOver(W, (T \cap s) \ {x})
      <4>1. T \cap s \in SUBSET S /\ x \in T \cap s
        BY <2>4
      <4> QED BY <1>0, <4>1, SumOverRemove
    <3>2. (T \cap s) \ {x} = T \cap (s \ {x})
      OBVIOUS
    <3>3. W[x] \in Nat /\ SumOver(W, s \ {x}) \in Nat /\ SumOver(W, T \cap (s \ {x})) \in Nat
      BY <1>0
    <3>4. SumOver(W, T \cap s) = W[x] + SumOver(W, T \cap (s \ {x}))
      BY <3>1, <3>2
    <3>5. SumOver(W, T \cap s) <= SumOver(W, s)
      BY <2>2, <2>3, <3>3, <3>4
    <3> QED BY <3>5
  <2>5. CASE x \notin T
    <3>1. T \cap s = T \cap (s \ {x})
      BY <2>5
    <3>2. W[x] \in Nat /\ SumOver(W, s \ {x}) \in Nat /\ SumOver(W, T \cap s) \in Nat
      BY <1>0
    <3> QED BY <2>2, <2>3, <3>1, <3>2
  <2> QED BY <2>4, <2>5
<1>3. S \in G
  <2> HIDE DEF G
  <2> QED BY <1>1, <1>2, AllSubsets
<1>4. T \cap S = T
  OBVIOUS
<1> QED
  BY <1>3, <1>4

\* Values of at most k sum up to at most k for each element.
LEMMA SumOverBound ==
  ASSUME NEW S, IsFiniteSet(S), NEW k \in Nat, NEW W, \A x \in S : W[x] \in 0..k
  PROVE  SumOver(W, S) <= k * Cardinality(S)
<1> DEFINE G == {s \in SUBSET S : SumOver(W, s) <= k * Cardinality(s)}
<1>1. {} \in G
  BY SumOverNothing, FS_EmptySet
<1>2. ASSUME NEW s \in SUBSET S, s # {}, \A x \in s : s \ {x} \in G
      PROVE  s \in G
  <2>1. PICK x \in s : TRUE
    BY <1>2
  <2>2. IsFiniteSet(s) /\ SumOver(W, s \ {x}) \in Nat
    BY FS_Subset, SumOverType
  <2>3. SumOver(W, s) = W[x] + SumOver(W, s \ {x})
    BY <2>2, SumOverRemove
  <2>4. Cardinality(s \ {x}) = Cardinality(s) - 1 /\ Cardinality(s) \in Nat
    BY <2>2, FS_RemoveElement, FS_CardinalityType
  <2>5. SumOver(W, s \ {x}) <= k * (Cardinality(s) - 1)
    BY <1>2, <2>4
  <2>6. k * (Cardinality(s) - 1) + k = k * Cardinality(s) /\ k * Cardinality(s) \in Nat
    BY <2>4
  <2> QED BY <2>2, <2>3, <2>4, <2>5, <2>6
<1>3. S \in G
  <2> HIDE DEF G
  <2> QED BY <1>1, <1>2, AllSubsets
<1> QED
  BY <1>3

\* Two sets that share nothing.
LEMMA SumOverUnion ==
  ASSUME NEW S, NEW T, IsFiniteSet(S \cup T), S \cap T = {},
         NEW W, \A x \in S \cup T : W[x] \in Nat
  PROVE  SumOver(W, S \cup T) = SumOver(W, S) + SumOver(W, T)
<1> DEFINE G == {s \in SUBSET S : SumOver(W, s \cup T) = SumOver(W, s) + SumOver(W, T)}
<1>0. /\ IsFiniteSet(S)
      /\ \A s \in SUBSET (S \cup T) : IsFiniteSet(s) /\ SumOver(W, s) \in Nat
  BY FS_Subset, SumOverType
<1>1. {} \in G
  <2>1. {} \cup T = T
    OBVIOUS
  <2> QED BY <1>0, <2>1, SumOverNothing
<1>2. ASSUME NEW s \in SUBSET S, s # {}, \A x \in s : s \ {x} \in G
      PROVE  s \in G
  <2>1. PICK x \in s : TRUE
    BY <1>2
  <2>2. SumOver(W, s) = W[x] + SumOver(W, s \ {x})
    BY <1>0, SumOverRemove
  <2>3. SumOver(W, s \cup T) = W[x] + SumOver(W, (s \cup T) \ {x})
    BY <1>0, SumOverRemove
  <2>4. (s \cup T) \ {x} = (s \ {x}) \cup T
    OBVIOUS
  <2>5. SumOver(W, (s \ {x}) \cup T) = SumOver(W, s \ {x}) + SumOver(W, T)
    BY <1>2
  <2>6. W[x] \in Nat /\ SumOver(W, s \ {x}) \in Nat /\ SumOver(W, T) \in Nat
    BY <1>0
  <2>7. SumOver(W, s \cup T) = W[x] + (SumOver(W, s \ {x}) + SumOver(W, T))
    BY <2>3, <2>4, <2>5
  <2>8. SumOver(W, s \cup T) = SumOver(W, s) + SumOver(W, T)
    BY <2>2, <2>6, <2>7
  <2> QED BY <2>8
<1>3. S \in G
  <2> HIDE DEF G
  <2> QED BY <1>0, <1>1, <1>2, AllSubsets
<1> QED
  BY <1>3

\* If every c is worth no more than a part of S, and the parts share nothing,
\* all together are worth no more than S.
LEMMA SumOverParts ==
  ASSUME NEW C, IsFiniteSet(C), NEW W, \A c \in C : W[c] \in Nat,
         NEW S, IsFiniteSet(S), NEW V, \A x \in S : V[x] \in Nat,
         NEW P \in [C -> SUBSET S],
         \A c, d \in C : c # d => P[c] \cap P[d] = {},
         \A c \in C : W[c] <= SumOver(V, P[c])
  PROVE  SumOver(W, C) <= SumOver(V, S)
<1> DEFINE All(D) == UNION {P[c] : c \in D}
           G == {D \in SUBSET C : SumOver(W, D) <= SumOver(V, All(D))}
<1>0. /\ \A D \in SUBSET C : IsFiniteSet(D) /\ SumOver(W, D) \in Nat /\ All(D) \in SUBSET S
      /\ \A T \in SUBSET S : IsFiniteSet(T) /\ SumOver(V, T) \in Nat
  <2>1. \A D \in SUBSET C : IsFiniteSet(D) /\ SumOver(W, D) \in Nat
    BY FS_Subset, SumOverType
  <2>2. \A D \in SUBSET C : All(D) \in SUBSET S
    OBVIOUS
  <2>3. \A T \in SUBSET S : IsFiniteSet(T) /\ SumOver(V, T) \in Nat
    BY FS_Subset, SumOverType
  <2> HIDE DEF All
  <2> QED BY <2>1, <2>2, <2>3
<1>1. {} \in G
  <2>1. All({}) = {}
    OBVIOUS
  <2> QED BY <2>1, SumOverNothing
<1>2. ASSUME NEW D \in SUBSET C, D # {}, \A c \in D : D \ {c} \in G
      PROVE  D \in G
  <2>1. PICK c \in D : TRUE
    BY <1>2
  <2>2. SumOver(W, D) = W[c] + SumOver(W, D \ {c})
    BY <1>0, SumOverRemove
  <2>3. All(D) = P[c] \cup All(D \ {c}) /\ P[c] \cap All(D \ {c}) = {}
    OBVIOUS
  <2>4. All(D) \in SUBSET S /\ P[c] \in SUBSET S /\ All(D \ {c}) \in SUBSET S
    BY <1>0
  <2>5. SumOver(W, D \ {c}) <= SumOver(V, All(D \ {c}))
    BY <1>2
  <2>6. W[c] \in Nat /\ W[c] <= SumOver(V, P[c]) /\ SumOver(W, D \ {c}) \in Nat
    BY <1>0
  <2> HIDE DEF All
  <2>7. SumOver(V, All(D)) = SumOver(V, P[c]) + SumOver(V, All(D \ {c}))
    <3> DEFINE a == P[c]
               b == All(D \ {c})
    <3>1. IsFiniteSet(a \cup b) /\ a \cap b = {} /\ \A x \in a \cup b : V[x] \in Nat
      BY <1>0, <2>3, <2>4
    <3> HIDE DEF a, b
    <3>2. SumOver(V, a \cup b) = SumOver(V, a) + SumOver(V, b)
      BY <3>1, SumOverUnion
    <3> QED BY <2>3, <3>2 DEF a, b
  <2>8. SumOver(W, D) <= SumOver(V, All(D))
    BY <1>0, <2>2, <2>4, <2>5, <2>6, <2>7
  <2> QED BY <2>8
<1>3. C \in G
  <2> HIDE DEF G
  <2> QED BY <1>1, <1>2, AllSubsets
<1>4. All(C) \in SUBSET S /\ SumOver(W, C) \in Nat
  BY <1>0
<1>5. SumOver(V, All(C)) <= SumOver(V, S)
  <2> HIDE DEF All
  <2> QED BY <1>4, SumOverSubset
<1> HIDE DEF All
<1> QED
  BY <1>0, <1>3, <1>4, <1>5
=============================================================================
