----------------------------- MODULE SumLemmas -----------------------------
(***************************************************************************)
(* Adding up the values of a function over a finite set.  Sums are folds,  *)
(* and a fold is a recursive function; what it computes is shown by        *)
(* induction, stated with a set for the property it is shown of.           *)
(***************************************************************************)
EXTENDS Integers, FiniteSets, FiniteSetTheorems, WellFoundedInduction, TLAPS

Some(s) == CHOOSE x \in s : TRUE

(* f sums up w over every subset of S, one element at a time.              *)
Unfolds(f, w, S) ==
  \A s \in SUBSET S : f[s] = IF s = {} THEN 0 ELSE w[Some(s)] + f[s \ {Some(s)}]

FoldsUpTo(k, f, w, S) ==
  \A s \in SUBSET S : Cardinality(s) <= k =>
     f[s] = IF s = {} THEN 0 ELSE w[Some(s)] + f[s \ {Some(s)}]

SumOf(w, S) == (CHOOSE f \in [SUBSET S -> Int] : Unfolds(f, w, S))[S]

-----------------------------------------------------------------------------
(* A set of natural numbers has a least one.                               *)
LEMMA LeastNatural ==
  ASSUME NEW T, T \subseteq Nat, T # {}
  PROVE  \E m \in T : \A k \in T : m <= k
<1>1. PICK m \in T : \A k \in T : ~ (<<k, m>> \in OpToRel(<, Nat))
  BY WFMin, NatLessThanWellFounded, Zenon
<1>2. \A k \in T : ~ (k < m)
  BY <1>1, Zenon DEF OpToRel
<1>3. \A k \in T : m <= k
  BY <1>2
<1> QED
  BY <1>3

(* Induction on the natural numbers.                                       *)
LEMMA NaturalsIn ==
  ASSUME NEW G, 0 \in G, \A k \in Nat : k \in G => k + 1 \in G
  PROVE  Nat \subseteq G
<1> SUFFICES ASSUME Nat \ G # {} PROVE FALSE
  OBVIOUS
<1>1. PICK m \in Nat \ G : \A k \in Nat \ G : m <= k
  BY LeastNatural
<1>2. m # 0 /\ m - 1 \in Nat
  OBVIOUS
<1>3. m - 1 \in G
  BY <1>1, <1>2
<1> QED
  BY <1>2, <1>3

(* Induction on the subsets of a finite set.                               *)
LEMMA SubsetsIn ==
  ASSUME NEW S, IsFiniteSet(S), NEW G, {} \in G,
         \A s \in SUBSET S : s # {} => \E x \in s : s \ {x} \in G => s \in G
  PROVE  SUBSET S \subseteq G
<1> DEFINE Sizes == {k \in Nat : \A s \in SUBSET S : Cardinality(s) = k => s \in G}
<1>1. \A s \in SUBSET S : IsFiniteSet(s) /\ Cardinality(s) \in Nat
  BY FS_Subset, FS_CardinalityType
<1>2. 0 \in Sizes
  BY <1>1, FS_EmptySet
<1>3. ASSUME NEW k \in Nat, k \in Sizes PROVE k + 1 \in Sizes
  <2> SUFFICES ASSUME NEW s \in SUBSET S, Cardinality(s) = k + 1 PROVE s \in G
    OBVIOUS
  <2>1. s # {}
    BY FS_EmptySet
  <2>2. PICK x \in s : s \ {x} \in G => s \in G
    BY <2>1
  <2>3. Cardinality(s \ {x}) = Cardinality(s) - 1
    BY <1>1, FS_RemoveElement
  <2>4. s \ {x} \in SUBSET S /\ Cardinality(s \ {x}) = k
    BY <2>3
  <2> QED
    BY <2>2, <2>4, <1>3
<1> HIDE DEF Sizes
<1>4. Nat \subseteq Sizes
  BY <1>2, <1>3, NaturalsIn
<1> QED
  BY <1>1, <1>4 DEF Sizes

-----------------------------------------------------------------------------
(* One more level of a fold.                                               *)
LEMMA FoldLevel ==
  ASSUME NEW S, IsFiniteSet(S), NEW w, \A x \in S : w[x] \in Int, NEW k \in Nat,
         NEW f \in [SUBSET S -> Int], FoldsUpTo(k, f, w, S)
  PROVE  \E g \in [SUBSET S -> Int] : FoldsUpTo(k + 1, g, w, S)
<1> DEFINE g == [s \in SUBSET S |-> IF s = {} THEN 0 ELSE w[Some(s)] + f[s \ {Some(s)}]]
<1>1. \A s \in SUBSET S : s # {} => Some(s) \in s
  BY DEF Some
<1>2. g \in [SUBSET S -> Int]
  BY <1>1
<1>3. \A s \in SUBSET S : Cardinality(s) <= k => g[s] = f[s]
  BY DEF FoldsUpTo
<1>4. ASSUME NEW s \in SUBSET S, Cardinality(s) <= k + 1, s # {}
      PROVE  g[s] = w[Some(s)] + g[s \ {Some(s)}]
  <2> DEFINE x == Some(s)
  <2>0. x \in s
    BY <1>1, <1>4
  <2> HIDE DEF x
  <2>1. IsFiniteSet(s) /\ Cardinality(s) \in Nat
    BY FS_Subset, FS_CardinalityType
  <2>2. Cardinality(s \ {x}) = Cardinality(s) - 1
    BY <2>0, <2>1, FS_RemoveElement
  <2>3. g[s \ {x}] = f[s \ {x}]
    <3> HIDE DEF g
    <3> QED BY <2>1, <2>2, <1>3, <1>4
  <2> QED
    BY <2>3, <1>4 DEF x
<1>5. g[{}] = 0
  OBVIOUS
<1> HIDE DEF g
<1> QED
  BY <1>2, <1>4, <1>5 DEF FoldsUpTo

(* Integer values on a finite set can be added up.                         *)
LEMMA FoldExists ==
  ASSUME NEW S, IsFiniteSet(S), NEW w, \A x \in S : w[x] \in Int
  PROVE  \E f \in [SUBSET S -> Int] : Unfolds(f, w, S)
<1> DEFINE Levels == {k \in Nat : \E f \in [SUBSET S -> Int] : FoldsUpTo(k, f, w, S)}
<1>1. \A s \in SUBSET S : IsFiniteSet(s) /\ Cardinality(s) \in Nat /\ Cardinality(s) <= Cardinality(S)
  BY FS_Subset, FS_CardinalityType
<1>2. FoldsUpTo(0, [s \in SUBSET S |-> 0], w, S)
  BY <1>1, FS_EmptySet DEF FoldsUpTo
<1>3. 0 \in Levels
  <2>1. [s \in SUBSET S |-> 0] \in [SUBSET S -> Int]
    OBVIOUS
  <2> QED
    BY <1>2, <2>1
<1>4. ASSUME NEW k \in Nat, k \in Levels PROVE k + 1 \in Levels
  <2>1. PICK f \in [SUBSET S -> Int] : FoldsUpTo(k, f, w, S)
    BY <1>4
  <2>2. \E g \in [SUBSET S -> Int] : FoldsUpTo(k + 1, g, w, S)
    BY <2>1, FoldLevel
  <2> QED
    BY <2>2
<1> HIDE DEF Levels
<1>5. Nat \subseteq Levels
  BY <1>3, <1>4, NaturalsIn
<1>6. PICK f \in [SUBSET S -> Int] : FoldsUpTo(Cardinality(S), f, w, S)
  BY <1>1, <1>5 DEF Levels
<1> QED
  BY <1>1, <1>6 DEF FoldsUpTo, Unfolds

(* Folds of the same values agree.                                         *)
LEMMA FoldUnique ==
  ASSUME NEW S, IsFiniteSet(S), NEW v, NEW w, \A x \in S : v[x] = w[x],
         NEW f, Unfolds(f, v, S), NEW T, S \subseteq T, NEW g, Unfolds(g, w, T)
  PROVE  f[S] = g[S]
<1> DEFINE G == {s \in SUBSET S : f[s] = g[s]}
<1>1. {} \in G
  BY DEF Unfolds
<1>2. ASSUME NEW s \in SUBSET S, s # {} PROVE \E x \in s : s \ {x} \in G => s \in G
  <2> DEFINE x == Some(s)
  <2>1. x \in s
    BY <1>2 DEF Some
  <2>2. f[s] = v[x] + f[s \ {x}] /\ g[s] = w[x] + g[s \ {x}]
    BY <1>2 DEF Unfolds
  <2> HIDE DEF x
  <2> QED
    BY <2>1, <2>2
<1> HIDE DEF G
<1>3. SUBSET S \subseteq G
  BY <1>1, <1>2, SubsetsIn
<1> QED
  BY <1>3 DEF G

-----------------------------------------------------------------------------
(* The sum is what every fold computes.                                    *)
LEMMA SumIsFold ==
  ASSUME NEW S, IsFiniteSet(S), NEW v, NEW w, \A x \in S : w[x] \in Int /\ v[x] = w[x],
         NEW T, S \subseteq T, NEW f, Unfolds(f, v, T)
  PROVE  f[S] = SumOf(w, S)
<1> DEFINE g == CHOOSE g \in [SUBSET S -> Int] : Unfolds(g, w, S)
<1>1. Unfolds(g, w, S)
  BY FoldExists
<1> HIDE DEF g
<1>2. g[S] = f[S]
  BY <1>1, FoldUnique
<1> QED
  BY <1>2 DEF SumOf, g

LEMMA SumInt ==
  ASSUME NEW S, IsFiniteSet(S), NEW w, \A x \in S : w[x] \in Int
  PROVE  SumOf(w, S) \in Int
<1>1. PICK f \in [SUBSET S -> Int] : Unfolds(f, w, S)
  BY FoldExists
<1>2. f[S] = SumOf(w, S)
  BY <1>1, SumIsFold
<1> QED
  BY <1>2

(* The sum depends on the values over its set only.                        *)
LEMMA SumSame ==
  ASSUME NEW S, IsFiniteSet(S), NEW v, NEW w, \A x \in S : w[x] \in Int /\ v[x] = w[x]
  PROVE  SumOf(v, S) = SumOf(w, S)
<1>1. PICK f \in [SUBSET S -> Int] : Unfolds(f, w, S)
  BY FoldExists
<1>2. f[S] = SumOf(w, S)
  BY <1>1, SumIsFold
<1>3. f[S] = SumOf(v, S)
  BY <1>1, SumIsFold
<1> QED
  BY <1>2, <1>3

LEMMA SumEmpty ==
  ASSUME NEW w PROVE SumOf(w, {}) = 0
<1>1. IsFiniteSet({}) 
  BY FS_EmptySet
<1>2. PICK f \in [SUBSET {} -> Int] : Unfolds(f, w, {})
  BY <1>1, FoldExists
<1>3. f[{}] = SumOf(w, {})
  BY <1>1, <1>2, SumIsFold
<1> QED
  BY <1>2, <1>3 DEF Unfolds

(* The element a fold takes first.                                         *)
LEMMA SumPeeled ==
  ASSUME NEW S, IsFiniteSet(S), NEW w, \A x \in S : w[x] \in Int, S # {}
  PROVE  Some(S) \in S /\ SumOf(w, S) = w[Some(S)] + SumOf(w, S \ {Some(S)})
<1>1. PICK f \in [SUBSET S -> Int] : Unfolds(f, w, S)
  BY FoldExists
<1>2. Some(S) \in S
  BY DEF Some
<1>3. f[S] = w[Some(S)] + f[S \ {Some(S)}]
  BY <1>1 DEF Unfolds
<1> DEFINE rest == S \ {Some(S)}
<1>4. IsFiniteSet(rest) /\ rest \subseteq S
  BY FS_RemoveElement
<1> HIDE DEF rest
<1>5. f[S] = SumOf(w, S) /\ f[rest] = SumOf(w, rest)
  BY <1>1, <1>4, SumIsFold
<1> QED
  BY <1>2, <1>3, <1>5 DEF rest

(* Any element can be taken first.                                         *)
LEMMA SumStep ==
  ASSUME NEW S, IsFiniteSet(S), NEW w, \A x \in S : w[x] \in Int, NEW e \in S
  PROVE  SumOf(w, S) = w[e] + SumOf(w, S \ {e})
<1> DEFINE Peels(s) == \A x \in s : SumOf(w, s) = w[x] + SumOf(w, s \ {x})
           Sizes == {k \in Nat : \A s \in SUBSET S : Cardinality(s) = k => Peels(s)}
<1>1. \A s \in SUBSET S : IsFiniteSet(s) /\ Cardinality(s) \in Nat /\ SumOf(w, s) \in Int
  BY FS_Subset, FS_CardinalityType, SumInt
<1>2. 0 \in Sizes
  BY <1>1, FS_EmptySet
<1>3. ASSUME NEW k \in Nat, k \in Sizes PROVE k + 1 \in Sizes
  <2> SUFFICES ASSUME NEW s \in SUBSET S, Cardinality(s) = k + 1, NEW x \in s
               PROVE  SumOf(w, s) = w[x] + SumOf(w, s \ {x})
    OBVIOUS
  <2> DEFINE c == Some(s)
  <2>1. c \in s /\ SumOf(w, s) = w[c] + SumOf(w, s \ {c})
    BY <1>1, SumPeeled
  <2> HIDE DEF c
  <2>2. CASE x = c
    BY <2>1, <2>2
  <2>3. CASE x # c
    <3> DEFINE r == s \ {x, c}
    <3>1. ASSUME NEW y \in s PROVE Cardinality(s \ {y}) = k /\ s \ {y} \in SUBSET S
      <4>1. Cardinality(s \ {y}) = Cardinality(s) - 1
        BY <1>1, FS_RemoveElement
      <4> QED BY <4>1
    <3>2. Peels(s \ {x}) /\ Peels(s \ {c})
      BY <1>3, <2>1, <3>1
    <3>3. (s \ {c}) \ {x} = r /\ (s \ {x}) \ {c} = r
      OBVIOUS
    <3>4. SumOf(w, s \ {c}) = w[x] + SumOf(w, r)
      <4>1. SumOf(w, s \ {c}) = w[x] + SumOf(w, (s \ {c}) \ {x})
        BY <2>3, <3>2
      <4> QED BY <4>1, <3>3, Zenon
    <3>5. SumOf(w, s \ {x}) = w[c] + SumOf(w, r)
      <4>1. SumOf(w, s \ {x}) = w[c] + SumOf(w, (s \ {x}) \ {c})
        BY <2>1, <2>3, <3>2
      <4> QED BY <4>1, <3>3, Zenon
    <3>6. SumOf(w, r) \in Int /\ w[c] \in Int /\ w[x] \in Int
      <4>1. r \in SUBSET S
        OBVIOUS
      <4> QED BY <4>1, <1>1, <2>1
    <3> HIDE DEF r
    <3> QED
      BY <2>1, <3>4, <3>5, <3>6
  <2> QED
    BY <2>2, <2>3
<1> HIDE DEF Sizes
<1>4. Nat \subseteq Sizes
  BY <1>2, <1>3, NaturalsIn
<1> QED
  BY <1>1, <1>4 DEF Sizes

(* Natural values: the sum is one, and a larger set has no smaller sum.    *)
LEMMA SumNat ==
  ASSUME NEW S, IsFiniteSet(S), NEW w, \A x \in S : w[x] \in Nat
  PROVE  /\ \A s \in SUBSET S : SumOf(w, s) \in Nat /\ SumOf(w, s) <= SumOf(w, S)
         /\ \A x \in S : w[x] <= SumOf(w, S)
         /\ (\E x \in S : w[x] > 0) => SumOf(w, S) > 0
<1>0. \A s \in SUBSET S : IsFiniteSet(s)
  BY FS_Subset
<1> DEFINE G == {s \in SUBSET S : SumOf(w, s) \in Nat}
<1>1. {} \in G
  BY SumEmpty
<1>2. ASSUME NEW s \in SUBSET S, s # {} PROVE \E x \in s : s \ {x} \in G => s \in G
  <2>1. PICK x \in s : TRUE
    BY <1>2
  <2>2. SumOf(w, s) = w[x] + SumOf(w, s \ {x})
    BY <1>0, SumStep
  <2>3. s \ {x} \in G => s \in G
    BY <2>2
  <2> QED
    BY <2>3, Zenon
<1> HIDE DEF G
<1>3. SUBSET S \subseteq G
  BY <1>1, <1>2, SubsetsIn
<1> DEFINE H == {s \in SUBSET S : SumOf(w, S \ s) <= SumOf(w, S)}
<1>4. \A s \in SUBSET S : SumOf(w, s) \in Nat
  BY <1>3 DEF G
<1>5. {} \in H
  <2>1. S \ {} = S
    OBVIOUS
  <2> QED BY <1>4, <2>1
<1>6. ASSUME NEW s \in SUBSET S, s # {} PROVE \E x \in s : s \ {x} \in H => s \in H
  <2>1. PICK x \in s : TRUE
    BY <1>6
  <2>2. (S \ (s \ {x})) \ {x} = S \ s /\ x \in S \ (s \ {x}) /\ S \ (s \ {x}) \in SUBSET S
    OBVIOUS
  <2>3. SumOf(w, S \ (s \ {x})) = w[x] + SumOf(w, S \ s)
    BY <1>0, <2>2, SumStep
  <2>4. SumOf(w, S \ s) <= SumOf(w, S \ (s \ {x}))
    BY <1>4, <2>2, <2>3
  <2>5. s \ {x} \in H => s \in H
    BY <1>4, <2>2, <2>4
  <2> QED
    BY <2>5, Zenon
<1> HIDE DEF H
<1>7. SUBSET S \subseteq H
  BY <1>5, <1>6, SubsetsIn
<1>8. \A s \in SUBSET S : SumOf(w, s) <= SumOf(w, S)
  <2> SUFFICES ASSUME NEW s \in SUBSET S PROVE SumOf(w, s) <= SumOf(w, S)
    OBVIOUS
  <2>1. S \ (S \ s) = s
    OBVIOUS
  <2> QED
    BY <1>7, <2>1 DEF H
<1>9. \A x \in S : w[x] <= SumOf(w, S)
  <2> SUFFICES ASSUME NEW x \in S PROVE w[x] <= SumOf(w, S)
    OBVIOUS
  <2>1. SumOf(w, S) = w[x] + SumOf(w, S \ {x})
    BY SumStep
  <2> QED
    BY <2>1, <1>4
<1> QED
  BY <1>4, <1>8, <1>9

(* Disjoint sets are added up apart.                                       *)
LEMMA SumUnion ==
  ASSUME NEW S, IsFiniteSet(S), NEW w, \A x \in S : w[x] \in Int, NEW T \in SUBSET S
  PROVE  SumOf(w, S) = SumOf(w, T) + SumOf(w, S \ T)
<1>0. \A s \in SUBSET S : IsFiniteSet(s) /\ SumOf(w, s) \in Int
  BY FS_Subset, SumInt
<1> DEFINE G == {s \in SUBSET S : SumOf(w, S) = SumOf(w, s) + SumOf(w, S \ s)}
<1>1. {} \in G
  <2>1. S \ {} = S
    OBVIOUS
  <2> QED BY <1>0, <2>1, SumEmpty
<1>2. ASSUME NEW s \in SUBSET S, s # {} PROVE \E x \in s : s \ {x} \in G => s \in G
  <2>1. PICK x \in s : TRUE
    BY <1>2
  <2>2. (S \ (s \ {x})) \ {x} = S \ s /\ x \in S \ (s \ {x}) /\ S \ (s \ {x}) \in SUBSET S
    OBVIOUS
  <2>3. SumOf(w, S \ (s \ {x})) = w[x] + SumOf(w, S \ s)
    BY <1>0, <2>2, SumStep
  <2>4. SumOf(w, s) = w[x] + SumOf(w, s \ {x})
    BY <1>0, SumStep
  <2>5. SumOf(w, s \ {x}) \in Int /\ SumOf(w, S \ s) \in Int /\ w[x] \in Int
    BY <1>0
  <2>6. s \ {x} \in G => s \in G
    BY <2>3, <2>4, <2>5
  <2> QED
    BY <2>6, Zenon
<1> HIDE DEF G
<1>3. SUBSET S \subseteq G
  BY <1>1, <1>2, SubsetsIn
<1> QED
  BY <1>3 DEF G

(* A value that changes moves the sum by as much.                          *)
LEMMA SumMoved ==
  ASSUME NEW S, IsFiniteSet(S), NEW v, NEW w, \A x \in S : w[x] \in Int /\ v[x] \in Int,
         NEW e \in S, \A x \in S \ {e} : v[x] = w[x]
  PROVE  SumOf(v, S) = SumOf(w, S) + v[e] - w[e]
<1>0. IsFiniteSet(S \ {e})
  BY FS_RemoveElement
<1>1. SumOf(v, S) = v[e] + SumOf(v, S \ {e}) /\ SumOf(w, S) = w[e] + SumOf(w, S \ {e})
  BY SumStep
<1>2. SumOf(v, S \ {e}) = SumOf(w, S \ {e}) /\ SumOf(w, S \ {e}) \in Int
  BY <1>0, SumSame, SumInt
<1> QED
  BY <1>1, <1>2

(* Nothing adds up to nothing.                                             *)
LEMMA SumZero ==
  ASSUME NEW S, IsFiniteSet(S), NEW w, \A x \in S : w[x] = 0
  PROVE  SumOf(w, S) = 0
<1>0. /\ \A s \in SUBSET S : IsFiniteSet(s)
      /\ \A x \in S : w[x] \in Int
  BY FS_Subset
<1> DEFINE G == {s \in SUBSET S : SumOf(w, s) = 0}
<1>1. {} \in G
  BY SumEmpty
<1>2. ASSUME NEW s \in SUBSET S, s # {} PROVE \E x \in s : s \ {x} \in G => s \in G
  <2>1. PICK x \in s : TRUE
    BY <1>2
  <2>2. SumOf(w, s) = w[x] + SumOf(w, s \ {x})
    BY <1>0, SumStep
  <2>3. s \ {x} \in G => s \in G
    BY <2>2
  <2> QED
    BY <2>1, <2>3, Zenon
<1> HIDE DEF G
<1>3. SUBSET S \subseteq G
  BY <1>1, <1>2, SubsetsIn, Zenon
<1> QED
  BY <1>3 DEF G

(* The sum of two functions, value by value, is the sum of their sums.     *)
LEMMA SumPlus ==
  ASSUME NEW S, IsFiniteSet(S), NEW u, NEW v, NEW w,
         \A x \in S : u[x] \in Int /\ v[x] \in Int /\ w[x] = u[x] + v[x]
  PROVE  SumOf(w, S) = SumOf(u, S) + SumOf(v, S)
<1>0. /\ \A s \in SUBSET S : IsFiniteSet(s)
      /\ \A x \in S : w[x] \in Int
  BY FS_Subset
<1>1. \A s \in SUBSET S : SumOf(u, s) \in Int /\ SumOf(v, s) \in Int /\ SumOf(w, s) \in Int
  BY <1>0, SumInt
<1> DEFINE G == {s \in SUBSET S : SumOf(w, s) = SumOf(u, s) + SumOf(v, s)}
<1>2. {} \in G
  BY SumEmpty
<1>3. ASSUME NEW s \in SUBSET S, s # {} PROVE \E x \in s : s \ {x} \in G => s \in G
  <2>1. PICK x \in s : TRUE
    BY <1>3
  <2>2. /\ SumOf(w, s) = w[x] + SumOf(w, s \ {x})
        /\ SumOf(u, s) = u[x] + SumOf(u, s \ {x})
        /\ SumOf(v, s) = v[x] + SumOf(v, s \ {x})
    BY <1>0, SumStep
  <2>3. s \ {x} \in SUBSET S /\ w[x] = u[x] + v[x] /\ u[x] \in Int /\ v[x] \in Int
    OBVIOUS
  <2>4. s \ {x} \in G => s \in G
    BY <1>1, <2>2, <2>3
  <2> QED
    BY <2>1, <2>4, Zenon
<1> HIDE DEF G
<1>4. SUBSET S \subseteq G
  BY <1>2, <1>3, SubsetsIn, Zenon
<1> QED
  BY <1>4 DEF G

=============================================================================
