------------------------------- MODULE SumProofs -------------------------------
(***************************************************************************)
(* What the other proofs need of SumOf: it can be taken apart element by   *)
(* element, in any order.  The fold picks the elements in an order of its  *)
(* own, so this takes an induction over the subsets of a finite set.       *)
(***************************************************************************)
EXTENDS Sums, FiniteSetTheorems, TLAPS

\* A set P has all subsets of a finite set as elements if it has each of them
\* whose proper subsets it has.
LEMMA SubsetInduction ==
    ASSUME NEW S, IsFiniteSet(S), NEW P,
           \A T \in SUBSET S : (\A U \in SUBSET T : U # T => U \in P) => T \in P
    PROVE  \A T \in SUBSET S : T \in P
<1> DEFINE R == StrictSubsetOrdering(S)
           Bad == {T \in SUBSET S : T \notin P}
<1>1. IsWellFoundedOn(R, SUBSET S)
  BY FS_StrictSubsetOrderingWellFounded, FS_FiniteSubsetsOfFinite
<1>2. SUFFICES ASSUME Bad # {} PROVE FALSE
  OBVIOUS
<1>3. PICK T \in Bad : \A U \in Bad : <<U, T>> \notin R
  <2>1. Bad \subseteq SUBSET S
    OBVIOUS
  <2> HIDE DEF R, Bad
  <2> QED
    BY <1>1, <1>2, <2>1, WFMin
<1>4. \A U \in SUBSET T : U # T => U \in P
  BY <1>3 DEF StrictSubsetOrdering
<1> QED
  BY <1>3, <1>4

-------------------------------------------------------------------------------
(***************************************************************************)
(* The fold is well defined.                                               *)
(***************************************************************************)
Pick(S) == CHOOSE x \in S : TRUE

\* g is the function that the fold over f recurses on below S.
IsFold(g, f, S) ==
    g = [s \in SUBSET S |-> IF s = {} THEN 0 ELSE f[Pick(s)] + g[s \ {Pick(s)}]]

LEMMA PickElement == \A S : S # {} => Pick(S) \in S
  BY DEF Pick

\* Two such functions agree wherever both are defined.
LEMMA FoldAgrees ==
    ASSUME NEW f, NEW S, IsFiniteSet(S), NEW T, NEW g, NEW h,
           IsFold(g, f, S), IsFold(h, f, T)
    PROVE  \A r \in SUBSET S : r \subseteq T => g[r] = h[r]
<1> DEFINE P == {r \in SUBSET S : r \subseteq T => g[r] = h[r]}
<1>1. ASSUME NEW r \in SUBSET S, \A u \in SUBSET r : u # r => u \in P
      PROVE  r \in P
  <2>1. CASE r = {}
    BY <2>1 DEF IsFold
  <2>2. CASE r # {} /\ r \subseteq T
    <3>1. Pick(r) \in r
      BY <2>2, PickElement
    <3>2. g[r \ {Pick(r)}] = h[r \ {Pick(r)}]
      BY <1>1, <2>2, <3>1
    <3>3. /\ g[r] = f[Pick(r)] + g[r \ {Pick(r)}]
          /\ h[r] = f[Pick(r)] + h[r \ {Pick(r)}]
      BY <2>2 DEF IsFold
    <3> QED
      BY <3>2, <3>3
  <2> QED
    BY <2>1, <2>2
<1> HIDE DEF P
<1>2. \A r \in SUBSET S : r \in P
  BY <1>1, SubsetInduction
<1> QED
  BY <1>2 DEF P

LEMMA FoldExists ==
    ASSUME NEW f, NEW S, IsFiniteSet(S)
    PROVE  \E g : IsFold(g, f, S)
<1> DEFINE P == {T \in SUBSET S : \E g : IsFold(g, f, T)}
           Below(s) == CHOOSE g : IsFold(g, f, s)
<1>1. ASSUME NEW T \in SUBSET S, \A U \in SUBSET T : U # T => U \in P
      PROVE  T \in P
  <2> DEFINE g == [s \in SUBSET T |->
                     IF s = {} THEN 0
                     ELSE f[Pick(s)] + Below(s \ {Pick(s)})[s \ {Pick(s)}]]
  <2>1. \A U \in SUBSET T : U # T => IsFold(Below(U), f, U)
    BY <1>1
  <2>2. ASSUME NEW s \in SUBSET T, s # T
        PROVE  g[s] = Below(s)[s]
    <3>0. IsFold(Below(s), f, s) /\ IsFiniteSet(s)
      BY <2>1, <2>2, FS_Subset
    <3>1. CASE s = {}
      BY <3>0, <3>1 DEF IsFold
    <3>2. CASE s # {}
      <4> DEFINE r == s \ {Pick(s)}
      <4>1. Pick(s) \in s
        BY <3>2, PickElement
      <4>2. IsFold(Below(r), f, r) /\ r \in SUBSET s /\ r \subseteq r /\ IsFiniteSet(r)
        BY <2>1, <2>2, <4>1, FS_Subset
      <4> HIDE DEF Below, r
      <4>3. Below(s)[r] = Below(r)[r]
        BY <3>0, <4>2, FoldAgrees
      <4>4. Below(s)[s] = f[Pick(s)] + Below(s)[r]
        BY <3>0, <3>2 DEF IsFold, r
      <4>5. g[s] = f[Pick(s)] + Below(r)[r]
        BY <3>2 DEF r
      <4> QED
        BY <4>3, <4>4, <4>5
    <3> QED
      BY <3>1, <3>2
  <2>3. ASSUME NEW s \in SUBSET T, s # {}
        PROVE  g[s \ {Pick(s)}] = Below(s \ {Pick(s)})[s \ {Pick(s)}]
    <3>1. Pick(s) \in s
      BY <2>3, PickElement
    <3>2. s \ {Pick(s)} \in SUBSET T /\ s \ {Pick(s)} # T
      BY <3>1
    <3> HIDE DEF g, Below
    <3> QED
      BY <2>2, <3>2
  <2>4. IsFold(g, f, T)
    <3> HIDE DEF Below
    <3>1. \A s \in SUBSET T :
             g[s] = IF s = {} THEN 0 ELSE f[Pick(s)] + g[s \ {Pick(s)}]
      <4> SUFFICES ASSUME NEW s \in SUBSET T
                   PROVE  g[s] = IF s = {} THEN 0 ELSE f[Pick(s)] + g[s \ {Pick(s)}]
        OBVIOUS
      <4>1. CASE s = {}
        BY <4>1
      <4>2. CASE s # {}
        <5>1. g[s] = f[Pick(s)] + Below(s \ {Pick(s)})[s \ {Pick(s)}]
          BY <4>2
        <5> QED
          BY <2>3, <4>2, <5>1
      <4> QED
        BY <4>1, <4>2
    <3>2. g = [s \in SUBSET T |-> g[s]]
      OBVIOUS
    <3> HIDE DEF g
    <3> QED
      BY <3>1, <3>2 DEF IsFold
  <2> QED
    BY <2>4
<1> HIDE DEF P
<1>2. \A T \in SUBSET S : T \in P
  BY <1>1, SubsetInduction
<1> QED
  BY <1>2 DEF P

LEMMA SumOfFold ==
    ASSUME NEW f, NEW S, IsFiniteSet(S)
    PROVE  \E g : IsFold(g, f, S) /\ SumOf(f, S) = g[S]
<1> DEFINE g == CHOOSE h : IsFold(h, f, S)
<1>1. IsFold(g, f, S)
  BY FoldExists
<1>2. SumOf(f, S) = g[S]
  BY DEF SumOf, MapThenSumSet, MapThenFoldSet, IsFold, Pick
<1> QED
  BY <1>1, <1>2

LEMMA SumPick ==
    ASSUME NEW f, NEW S, IsFiniteSet(S)
    PROVE  SumOf(f, S) = IF S = {} THEN 0 ELSE f[Pick(S)] + SumOf(f, S \ {Pick(S)})
<1>1. PICK g : IsFold(g, f, S) /\ SumOf(f, S) = g[S]
  BY SumOfFold
<1>2. CASE S = {}
  BY <1>1, <1>2 DEF IsFold
<1>3. CASE S # {}
  <2> DEFINE T == S \ {Pick(S)}
  <2>1. IsFiniteSet(T)
    BY FS_Subset
  <2>2. PICK h : IsFold(h, f, T) /\ SumOf(f, T) = h[T]
    BY <2>1, SumOfFold
  <2>3. g[S] = f[Pick(S)] + g[T]
    BY <1>1, <1>3 DEF IsFold
  <2>4. g[T] = h[T]
    <3> T \in SUBSET S /\ T \subseteq T
      OBVIOUS
    <3> HIDE DEF T
    <3> QED BY <1>1, <2>2, FoldAgrees
  <2> QED
    BY <1>1, <1>3, <2>2, <2>3, <2>4
<1> QED
  BY <1>2, <1>3

-------------------------------------------------------------------------------
(***************************************************************************)
(* Sums of natural numbers.                                                *)
(***************************************************************************)
LEMMA SumEmpty == \A f : SumOf(f, {}) = 0
  BY SumPick, FS_EmptySet

LEMMA SumNat ==
    ASSUME NEW S, IsFiniteSet(S), NEW f, \A x \in S : f[x] \in Nat
    PROVE  SumOf(f, S) \in Nat
<1> DEFINE P == {T \in SUBSET S : SumOf(f, T) \in Nat}
<1>1. ASSUME NEW T \in SUBSET S, \A U \in SUBSET T : U # T => U \in P
      PROVE  T \in P
  <2>1. SumOf(f, T) = IF T = {} THEN 0 ELSE f[Pick(T)] + SumOf(f, T \ {Pick(T)})
    BY SumPick, FS_Subset
  <2>2. T # {} => Pick(T) \in T /\ SumOf(f, T \ {Pick(T)}) \in Nat
    BY <1>1, PickElement
  <2> QED
    BY <2>1, <2>2
<1> HIDE DEF P
<1>2. \A T \in SUBSET S : T \in P
  BY <1>1, SubsetInduction
<1> QED
  BY <1>2 DEF P

\* Any element can be taken out first.
LEMMA SumRemove ==
    ASSUME NEW S, IsFiniteSet(S), NEW f, \A y \in S : f[y] \in Nat, NEW x \in S
    PROVE  SumOf(f, S) = f[x] + SumOf(f, S \ {x})
<1> DEFINE P == {T \in SUBSET S : \A z \in T : SumOf(f, T) = f[z] + SumOf(f, T \ {z})}
<1>0. \A T \in SUBSET S : IsFiniteSet(T) /\ SumOf(f, T) \in Nat
  BY FS_Subset, SumNat
<1>1. ASSUME NEW T \in SUBSET S, \A U \in SUBSET T : U # T => U \in P
      PROVE  T \in P
  <2> SUFFICES ASSUME NEW z \in T
               PROVE  SumOf(f, T) = f[z] + SumOf(f, T \ {z})
    OBVIOUS
  <2> DEFINE p == Pick(T)
  <2>1. p \in T /\ SumOf(f, T) = f[p] + SumOf(f, T \ {p})
    BY <1>0, PickElement, SumPick
  <2>2. CASE z # p
    <3>1. SumOf(f, T \ {p}) = f[z] + SumOf(f, (T \ {p}) \ {z})
      BY <1>1, <2>1, <2>2
    <3>2. SumOf(f, T \ {z}) = f[p] + SumOf(f, (T \ {z}) \ {p})
      BY <1>1, <2>1, <2>2
    <3>3. (T \ {p}) \ {z} = (T \ {z}) \ {p}
      OBVIOUS
    <3>4. SumOf(f, (T \ {z}) \ {p}) \in Nat /\ f[p] \in Nat /\ f[z] \in Nat
      BY <1>0, <2>1
    <3> HIDE DEF p
    <3> QED
      BY <2>1, <3>1, <3>2, <3>3, <3>4
  <2> QED
    BY <2>1, <2>2
<1> HIDE DEF P
<1>2. \A T \in SUBSET S : T \in P
  BY <1>1, SubsetInduction
<1> QED
  BY <1>2 DEF P

\* A sum of summands that are no larger is no larger; of equal ones, equal.
LEMMA SumMonotone ==
    ASSUME NEW S, IsFiniteSet(S), NEW f, NEW g,
           \A x \in S : f[x] \in Nat /\ g[x] \in Nat /\ f[x] <= g[x]
    PROVE  SumOf(f, S) <= SumOf(g, S)
<1> DEFINE P == {T \in SUBSET S : SumOf(f, T) <= SumOf(g, T)}
<1>0. \A T \in SUBSET S : IsFiniteSet(T) /\ SumOf(f, T) \in Nat /\ SumOf(g, T) \in Nat
  BY FS_Subset, SumNat
<1>1. ASSUME NEW T \in SUBSET S, \A U \in SUBSET T : U # T => U \in P
      PROVE  T \in P
  <2>1. CASE T = {}
    BY <2>1, SumEmpty
  <2>2. CASE T # {}
    <3> DEFINE p == Pick(T)
    <3>1. /\ p \in T
          /\ SumOf(f, T) = f[p] + SumOf(f, T \ {p})
          /\ SumOf(g, T) = g[p] + SumOf(g, T \ {p})
      BY <1>0, <2>2, PickElement, SumPick
    <3>2. SumOf(f, T \ {p}) <= SumOf(g, T \ {p})
      BY <1>1, <3>1
    <3>3. SumOf(f, T \ {p}) \in Nat /\ SumOf(g, T \ {p}) \in Nat
      BY <1>0
    <3> HIDE DEF p
    <3> QED
      BY <3>1, <3>2, <3>3
  <2> QED
    BY <2>1, <2>2
<1> HIDE DEF P
<1>2. \A T \in SUBSET S : T \in P
  BY <1>1, SubsetInduction
<1> QED
  BY <1>2 DEF P

LEMMA SumEqual ==
    ASSUME NEW S, IsFiniteSet(S), NEW f, NEW g,
           \A x \in S : f[x] \in Nat /\ f[x] = g[x]
    PROVE  SumOf(f, S) = SumOf(g, S)
<1>1. SumOf(f, S) <= SumOf(g, S) /\ SumOf(g, S) <= SumOf(f, S)
  BY SumMonotone
<1>2. SumOf(f, S) \in Nat /\ SumOf(g, S) \in Nat
  BY SumNat
<1> QED
  BY <1>1, <1>2

LEMMA SumZero ==
    ASSUME NEW S, IsFiniteSet(S), NEW f, \A x \in S : f[x] = 0
    PROVE  SumOf(f, S) = 0
<1> DEFINE P == {T \in SUBSET S : SumOf(f, T) = 0}
<1>1. ASSUME NEW T \in SUBSET S, \A U \in SUBSET T : U # T => U \in P
      PROVE  T \in P
  <2>1. SumOf(f, T) = IF T = {} THEN 0 ELSE f[Pick(T)] + SumOf(f, T \ {Pick(T)})
    BY SumPick, FS_Subset
  <2>2. T # {} => Pick(T) \in T /\ SumOf(f, T \ {Pick(T)}) = 0
    BY <1>1, PickElement
  <2> QED
    BY <2>1, <2>2
<1> HIDE DEF P
<1>2. \A T \in SUBSET S : T \in P
  BY <1>1, SubsetInduction
<1> QED
  BY <1>2 DEF P

\* When one summand changes, the sum changes by as much.
LEMMA SumChange ==
    ASSUME NEW S, IsFiniteSet(S), NEW f, NEW g, NEW x \in S,
           \A y \in S : f[y] \in Nat /\ g[y] \in Nat /\ (y # x => f[y] = g[y])
    PROVE  SumOf(g, S) = SumOf(f, S) - f[x] + g[x]
<1>0. IsFiniteSet(S \ {x})
  BY FS_Subset
<1>1. SumOf(f, S) = f[x] + SumOf(f, S \ {x}) /\ SumOf(g, S) = g[x] + SumOf(g, S \ {x})
  BY SumRemove
<1>2. SumOf(f, S \ {x}) = SumOf(g, S \ {x})
  BY <1>0, SumEqual
<1>3. SumOf(f, S \ {x}) \in Nat
  BY <1>0, SumNat
<1> QED
  BY <1>1, <1>2, <1>3

\* When an element comes, goes or changes its summand, the others staying as they
\* are, the sum changes by as much.
LEMMA SumStep ==
    ASSUME NEW S, IsFiniteSet(S), NEW T, IsFiniteSet(T), NEW x, S \ {x} = T \ {x},
           NEW f, NEW g, \A y \in S : f[y] \in Nat, \A y \in T : g[y] \in Nat,
           \A y \in S \ {x} : f[y] = g[y]
    PROVE  SumOf(g, T) = SumOf(f, S) - (IF x \in S THEN f[x] ELSE 0)
                                     + (IF x \in T THEN g[x] ELSE 0)
<1> DEFINE R == S \ {x}
<1>1. IsFiniteSet(R) /\ R = T \ {x} /\ \A y \in R : f[y] = g[y] /\ f[y] \in Nat
  BY FS_Subset
<1>2. SumOf(f, R) \in Nat /\ SumOf(f, R) = SumOf(g, R)
  <2> HIDE DEF R
  <2> QED
    BY <1>1, SumNat, SumEqual
<1>3. SumOf(f, S) = SumOf(f, R) + (IF x \in S THEN f[x] ELSE 0)
  <2>1. CASE x \in S
    BY <1>2, <2>1, SumRemove
  <2>2. CASE x \notin S
    <3>1. R = S
      BY <2>2
    <3> HIDE DEF R
    <3> QED
      BY <1>2, <2>2, <3>1
  <2> QED
    BY <2>1, <2>2
<1>4. SumOf(g, T) = SumOf(g, R) + (IF x \in T THEN g[x] ELSE 0)
  <2>1. CASE x \in T
    BY <1>1, <1>2, <2>1, SumRemove
  <2>2. CASE x \notin T
    <3>1. R = T
      BY <1>1, <2>2
    <3> HIDE DEF R
    <3> QED
      BY <1>2, <2>2, <3>1
  <2> QED
    BY <2>1, <2>2
<1>5. /\ (IF x \in S THEN f[x] ELSE 0) \in Nat
      /\ (IF x \in T THEN g[x] ELSE 0) \in Nat
  OBVIOUS
<1> HIDE DEF R
<1> QED
  BY <1>2, <1>3, <1>4, <1>5

\* The sum over two disjoint sets.
LEMMA SumUnion ==
    ASSUME NEW S, IsFiniteSet(S), NEW T, IsFiniteSet(T), S \cap T = {}, NEW f,
           \A x \in S \cup T : f[x] \in Nat
    PROVE  SumOf(f, S \cup T) = SumOf(f, S) + SumOf(f, T)
<1> DEFINE P == {U \in SUBSET T : SumOf(f, S \cup U) = SumOf(f, S) + SumOf(f, U)}
<1>0. \A U \in SUBSET T : /\ IsFiniteSet(U) /\ IsFiniteSet(S \cup U)
                          /\ SumOf(f, U) \in Nat
  BY FS_Subset, FS_Union, SumNat
<1>1. SumOf(f, S) \in Nat
  BY SumNat
<1>2. ASSUME NEW U \in SUBSET T, \A V \in SUBSET U : V # U => V \in P
      PROVE  U \in P
  <2>1. CASE U = {}
    <3>1. S \cup U = S
      BY <2>1
    <3> QED
      BY <1>1, <2>1, <3>1, SumEmpty
  <2>2. CASE U # {}
    <3>1. PICK u \in U : TRUE
      BY <2>2
    <3>2. SumOf(f, U) = f[u] + SumOf(f, U \ {u})
      BY <1>0, SumRemove
    <3>3. SumOf(f, S \cup (U \ {u})) = SumOf(f, S) + SumOf(f, U \ {u})
      BY <1>2
    <3>4. SumOf(f, S \cup U) = f[u] + SumOf(f, S \cup (U \ {u}))
      <4> DEFINE W == S \cup U
      <4>1. W \ {u} = S \cup (U \ {u}) /\ u \in W /\ IsFiniteSet(W)
        BY <1>0
      <4>2. \A x \in W : f[x] \in Nat
        OBVIOUS
      <4> HIDE DEF W
      <4>3. SumOf(f, W) = f[u] + SumOf(f, W \ {u})
        BY <4>1, <4>2, SumRemove
      <4> QED
        BY <4>1, <4>3 DEF W
    <3>5. SumOf(f, U \ {u}) \in Nat /\ f[u] \in Nat
      BY <1>0
    <3> QED
      BY <1>1, <3>2, <3>3, <3>4, <3>5
  <2> QED
    BY <2>1, <2>2
<1> HIDE DEF P
<1>3. \A U \in SUBSET T : U \in P
  BY <1>2, SubsetInduction
<1> QED
  BY <1>3 DEF P

\* What a set gains and loses when only x may enter or leave it.
LEMMA SizeStep ==
    ASSUME NEW S, IsFiniteSet(S), NEW T, IsFiniteSet(T), NEW x, S \ {x} = T \ {x}
    PROVE  Cardinality(T) = Cardinality(S) - (IF x \in S THEN 1 ELSE 0)
                                           + (IF x \in T THEN 1 ELSE 0)
<1> DEFINE R == S \ {x}
<1>1. IsFiniteSet(R) /\ Cardinality(R) \in Nat /\ x \notin R
  BY FS_Subset, FS_CardinalityType
<1>2. Cardinality(R \cup {x}) = Cardinality(R) + 1
  BY <1>1, FS_AddElement
<1>3. /\ x \in S => S = R \cup {x}
      /\ x \notin S => S = R
      /\ x \in T => T = R \cup {x}
      /\ x \notin T => T = R
  OBVIOUS
<1> HIDE DEF R
<1>4. Cardinality(S) = Cardinality(R) + (IF x \in S THEN 1 ELSE 0)
  <2>1. CASE x \in S
    <3>1. Cardinality(S) = Cardinality(R \cup {x})
      BY <1>3, <2>1
    <3> QED
      BY <1>2, <2>1, <3>1
  <2>2. CASE x \notin S
    BY <1>1, <1>3, <2>2
  <2> QED
    BY <2>1, <2>2
<1>5. Cardinality(T) = Cardinality(R) + (IF x \in T THEN 1 ELSE 0)
  <2>1. CASE x \in T
    <3>1. Cardinality(T) = Cardinality(R \cup {x})
      BY <1>3, <2>1
    <3> QED
      BY <1>2, <2>1, <3>1
  <2>2. CASE x \notin T
    BY <1>1, <1>3, <2>2
  <2> QED
    BY <2>1, <2>2
<1> QED
  BY <1>1, <1>4, <1>5
===============================================================================
