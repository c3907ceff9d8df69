-------------------------------- MODULE Sums --------------------------------
(***************************************************************************)
(* Sums over finite sets and sequences, for the proofs about counters that *)
(* are kept per node and once more for the whole cluster.                  *)
(*                                                                         *)
(* The library's fold is a CHOOSE among functions on the subsets of a set, *)
(* so the first part shows that there is exactly one such function, by     *)
(* induction over the strict subsets of a finite set.  Induction takes its *)
(* property as a set, P, of the subsets that have it.  The second part is  *)
(* what proofs cite: how a sum changes with the set and with the values.   *)
(***************************************************************************)
EXTENDS Integers, Sequences, FiniteSets, Functions, FiniteSetTheorems, TLAPS

-----------------------------------------------------------------------------
(* Finite sets. *)

\* What every subset of a finite set has as soon as its strict subsets have it,
\* every subset has.
LEMMA SubsetInduction ==
  ASSUME NEW S, IsFiniteSet(S), NEW P,
         \A T \in SUBSET S : (\A U \in (SUBSET T) \ {T} : U \in P) => T \in P
  PROVE  \A T \in SUBSET S : T \in P
<1> DEFINE R == StrictSubsetOrdering(S)
           Bad == {T \in SUBSET S : T \notin P}
<1>1. IsWellFoundedOn(R, SUBSET S)
  BY FS_StrictSubsetOrderingWellFounded, FS_FiniteSubsetsOfFinite
<1>2. SUFFICES ASSUME Bad # {} PROVE FALSE
  OBVIOUS
<1>3. Bad \subseteq SUBSET S
  OBVIOUS
<1> HIDE DEF R, Bad
<1>4. PICK T \in Bad : \A U \in Bad : <<U, T>> \notin R
  BY <1>1, <1>2, <1>3, WFMin
<1>5. \A U \in (SUBSET T) \ {T} : U \in P
  <2>1. TAKE U \in (SUBSET T) \ {T}
  <2>2. <<U, T>> \in R
    BY <1>3, <1>4 DEF R, Bad, StrictSubsetOrdering
  <2>3. QED
    BY <1>4, <2>1, <2>2 DEF Bad
<1>6. QED
  BY <1>4, <1>5 DEF Bad

\* A finite set of numbers, if not empty, has a least and a greatest one.
LEMMA LeastOf ==
  ASSUME NEW S \in SUBSET Int, IsFiniteSet(S), S # {}
  PROVE  \E x \in S : \A y \in S : x <= y
<1> DEFINE P == {T \in SUBSET S : T = {} \/ \E x \in T : \A y \in T : x <= y}
<1>1. ASSUME NEW T \in SUBSET S, \A U \in (SUBSET T) \ {T} : U \in P
      PROVE  T \in P
  <2>1. CASE T = {}
    BY <2>1
  <2>2. CASE T # {}
    <3>1. PICK p \in T : TRUE
      BY <2>2
    <3>2. T \ {p} \in P
      BY <1>1, <3>1
    <3>3. CASE T \ {p} = {}
      <4>1. \A y \in T : p <= y
        BY <3>1, <3>3
      <4> QED BY <3>1, <4>1
    <3>4. CASE T \ {p} # {}
      <4>1. PICK x \in T \ {p} : \A y \in T \ {p} : x <= y
        BY <3>2, <3>4
      <4>2. CASE x <= p
        BY <4>1, <4>2
      <4>3. CASE ~(x <= p)
        <5>1. \A y \in T : p <= y
          BY <3>1, <4>1, <4>3
        <5> QED BY <3>1, <5>1
      <4> QED BY <4>2, <4>3
    <3> QED BY <3>3, <3>4
  <2> QED BY <2>1, <2>2
<1> HIDE DEF P
<1>2. \A T \in SUBSET S : T \in P
  BY <1>1, SubsetInduction
<1> QED BY <1>2 DEF P

\* The same from above.
LEMMA GreatestOf ==
  ASSUME NEW S \in SUBSET Int, IsFiniteSet(S), S # {}
  PROVE  \E x \in S : \A y \in S : y <= x
<1> DEFINE P == {T \in SUBSET S : T = {} \/ \E x \in T : \A y \in T : y <= x}
<1>1. ASSUME NEW T \in SUBSET S, \A U \in (SUBSET T) \ {T} : U \in P
      PROVE  T \in P
  <2>1. CASE T = {}
    BY <2>1
  <2>2. CASE T # {}
    <3>1. PICK p \in T : TRUE
      BY <2>2
    <3>2. T \ {p} \in P
      BY <1>1, <3>1
    <3>3. CASE T \ {p} = {}
      <4>1. \A y \in T : y <= p
        BY <3>1, <3>3
      <4> QED BY <3>1, <4>1
    <3>4. CASE T \ {p} # {}
      <4>1. PICK x \in T \ {p} : \A y \in T \ {p} : y <= x
        BY <3>2, <3>4
      <4>2. CASE p <= x
        BY <4>1, <4>2
      <4>3. CASE ~(p <= x)
        <5>1. \A y \in T : y <= p
          BY <3>1, <4>1, <4>3
        <5> QED BY <3>1, <5>1
      <4> QED BY <4>2, <4>3
    <3> QED BY <3>3, <3>4
  <2> QED BY <2>1, <2>2
<1> HIDE DEF P
<1>2. \A T \in SUBSET S : T \in P
  BY <1>1, SubsetInduction
<1> QED BY <1>2 DEF P

-----------------------------------------------------------------------------
(* Folding over a finite set. *)

\* The member a fold takes first.
Pick(s) == CHOOSE x \in s : TRUE

\* A fold takes a member of the set first.
LEMMA PickIn == \A s : s # {} => Pick(s) \in s
  BY DEF Pick

\* it sums f over every subset of S, as the library folds.
Adds(it, f, S) ==
  it = [s \in SUBSET S |-> IF s = {} THEN 0 ELSE f[Pick(s)] + it[s \ {Pick(s)}]]

\* The sum over S is what any function that adds over the subsets of S says of S.
LEMMA SumUnfold ==
  ASSUME NEW f, NEW S
  PROVE  SumFunctionOnSet(f, S) = (CHOOSE it : Adds(it, f, S))[S]
BY DEF SumFunctionOnSet, FoldFunctionOnSet, MapThenFoldSet, Adds, Pick

\* Two functions that add f over the subsets of S are the same.
LEMMA AddsUnique ==
  ASSUME NEW f, NEW S, IsFiniteSet(S), NEW g, NEW h, Adds(g, f, S), Adds(h, f, S)
  PROVE  g = h
<1> DEFINE P == {s \in SUBSET S : g[s] = h[s]}
<1>1. ASSUME NEW T \in SUBSET S, \A U \in (SUBSET T) \ {T} : U \in P
      PROVE  T \in P
  <2>1. CASE T = {}
    BY <2>1 DEF Adds
  <2>2. CASE T # {}
    <3>1. T \ {Pick(T)} \in (SUBSET T) \ {T}
      BY <2>2, PickIn
    <3>2. g[T \ {Pick(T)}] = h[T \ {Pick(T)}]
      BY <1>1, <3>1
    <3>3. QED
      BY <2>2, <3>2 DEF Adds
  <2>3. QED
    BY <2>1, <2>2
<1> HIDE DEF P
<1>2. \A T \in SUBSET S : T \in P
  BY <1>1, SubsetInduction
<1>3. g = [s \in SUBSET S |-> g[s]] /\ h = [s \in SUBSET S |-> h[s]]
  BY DEF Adds
<1>4. QED
  BY <1>2, <1>3 DEF P

\* A function that adds over the subsets of S adds over those of a subset.
LEMMA AddsSmaller ==
  ASSUME NEW f, NEW S, NEW it, Adds(it, f, S), NEW T \in SUBSET S
  PROVE  Adds([s \in SUBSET T |-> it[s]], f, T)
<1>1. \A s \in SUBSET T : it[s] = IF s = {} THEN 0 ELSE f[Pick(s)] + it[s \ {Pick(s)}]
  BY DEF Adds
<1>2. \A s \in SUBSET T : s \ {Pick(s)} \in SUBSET T
  OBVIOUS
<1>3. QED
  BY <1>1, <1>2 DEF Adds

\* Functions that add over each strict subset of T give one that adds over T.
LEMMA AddsLarger ==
  ASSUME NEW f, NEW T, IsFiniteSet(T),
         \A U \in (SUBSET T) \ {T} : \E it : Adds(it, f, U)
  PROVE  \E it : Adds(it, f, T)
<1> DEFINE Sub(U) == CHOOSE it : Adds(it, f, U)
           Val(s) == Sub(s)[s]
           it == [s \in SUBSET T |->
                    IF s = {} THEN 0 ELSE f[Pick(s)] + Val(s \ {Pick(s)})]
<1>1. ASSUME NEW U \in (SUBSET T) \ {T} PROVE Adds(Sub(U), f, U)
  BY <1>1
<1>2. ASSUME NEW U \in (SUBSET T) \ {T}, NEW V \in SUBSET U
      PROVE  Sub(U)[V] = Val(V)
  <2>1. V \in (SUBSET T) \ {T}
    BY <1>2
  <2>2. Adds([s \in SUBSET V |-> Sub(U)[s]], f, V)
    BY <1>1, <1>2, AddsSmaller
  <2>3. IsFiniteSet(V)
    BY <2>1, FS_Subset
  <2>4. [s \in SUBSET V |-> Sub(U)[s]] = Sub(V)
    BY <1>1, <2>1, <2>2, <2>3, AddsUnique
  <2> HIDE DEF Sub
  <2>5. QED
    BY <2>4
<1>3. ASSUME NEW s \in (SUBSET T) \ {T} PROVE it[s] = Val(s)
  <2>1. Adds(Sub(s), f, s)
    BY <1>1, <1>3
  <2>2. Sub(s)[s] = IF s = {} THEN 0 ELSE f[Pick(s)] + Sub(s)[s \ {Pick(s)}]
    BY <2>1 DEF Adds
  <2>3. Sub(s)[s \ {Pick(s)}] = Val(s \ {Pick(s)})
    BY <1>2, <1>3
  <2> HIDE DEF Sub
  <2>4. QED
    BY <2>2, <2>3
<1> HIDE DEF Val
<1>4. \A s \in SUBSET T : s # {} => s \ {Pick(s)} \in (SUBSET T) \ {T}
  BY PickIn
<1>5. \A s \in SUBSET T : it[s] = IF s = {} THEN 0 ELSE f[Pick(s)] + it[s \ {Pick(s)}]
  BY <1>3, <1>4
<1>6. Adds(it, f, T)
  BY <1>5 DEF Adds
<1>7. QED
  BY <1>6

\* Some function adds f over the subsets of any finite set.
LEMMA AddsExists ==
  ASSUME NEW f, NEW S, IsFiniteSet(S)
  PROVE  \E it : Adds(it, f, S)
<1> DEFINE P == {T \in SUBSET S : \E it : Adds(it, f, T)}
<1>1. ASSUME NEW T \in SUBSET S, \A U \in (SUBSET T) \ {T} : U \in P
      PROVE  T \in P
  <2>1. IsFiniteSet(T)
    BY FS_Subset
  <2>2. QED
    BY <1>1, <2>1, AddsLarger
<1> HIDE DEF P
<1>2. \A T \in SUBSET S : T \in P
  BY <1>1, SubsetInduction
<1>3. QED
  BY <1>2 DEF P

\* What folding does: it takes the elements one by one.
LEMMA SumStep ==
  ASSUME NEW f, NEW S, IsFiniteSet(S)
  PROVE  SumFunctionOnSet(f, S) =
           IF S = {} THEN 0
           ELSE f[Pick(S)] + SumFunctionOnSet(f, S \ {Pick(S)})
<1> DEFINE It(T) == CHOOSE it : Adds(it, f, T)
<1>1. \A T \in SUBSET S : Adds(It(T), f, T)
  <2>1. TAKE T \in SUBSET S
  <2>2. IsFiniteSet(T)
    BY FS_Subset
  <2>3. QED
    BY <2>2, AddsExists
<1>2. \A T : SumFunctionOnSet(f, T) = It(T)[T]
  BY SumUnfold
<1>3. CASE S = {}
  <2>1. Adds(It({}), f, {})
    BY <1>1, <1>3
  <2> HIDE DEF It
  <2>2. It({})[{}] = 0
    BY <2>1 DEF Adds
  <2>3. QED
    BY <1>2, <1>3, <2>2
<1>4. CASE S # {}
  <2> DEFINE T == S \ {Pick(S)}
  <2>1. T \in SUBSET S
    OBVIOUS
  <2>2. IsFiniteSet(T)
    BY <2>1, FS_Subset
  <2>3. Adds([s \in SUBSET T |-> It(S)[s]], f, T)
    BY <1>1, <2>1, AddsSmaller
  <2>4. [s \in SUBSET T |-> It(S)[s]] = It(T)
    BY <1>1, <2>1, <2>2, <2>3, AddsUnique
  <2>5. Adds(It(S), f, S)
    BY <1>1
  <2> HIDE DEF It
  <2>6. It(S)[S] = f[Pick(S)] + It(S)[T]
    BY <1>4, <2>5 DEF Adds
  <2>7. It(S)[T] = It(T)[T]
    <3> HIDE DEF T
    <3>1. QED
      BY <2>4
  <2>8. QED
    BY <1>2, <1>4, <2>6, <2>7
<1>5. QED
  BY <1>3, <1>4

-----------------------------------------------------------------------------

\* Nothing sums to nothing.
LEMMA SumOfNone == ASSUME NEW f PROVE SumFunctionOnSet(f, {}) = 0
  BY SumStep, FS_EmptySet

\* A finite sum of integers is an integer.
LEMMA SumType ==
  ASSUME NEW S, IsFiniteSet(S), NEW f, \A x \in S : f[x] \in Int
  PROVE  SumFunctionOnSet(f, S) \in Int
<1> DEFINE P == {T \in SUBSET S : SumFunctionOnSet(f, T) \in Int}
<1>1. ASSUME NEW T \in SUBSET S, \A U \in (SUBSET T) \ {T} : U \in P
      PROVE  T \in P
  <2>1. IsFiniteSet(T)
    BY FS_Subset
  <2>2. CASE T = {}
    BY <2>2, SumOfNone
  <2>3. CASE T # {}
    <3>1. Pick(T) \in T
      BY <2>3, PickIn
    <3>2. SumFunctionOnSet(f, T \ {Pick(T)}) \in Int
      BY <1>1, <3>1
    <3>3. SumFunctionOnSet(f, T) = f[Pick(T)] + SumFunctionOnSet(f, T \ {Pick(T)})
      BY <2>1, <2>3, SumStep
    <3>4. QED
      BY <3>1, <3>2, <3>3
  <2>4. QED
    BY <2>2, <2>3
<1> HIDE DEF P
<1>2. \A T \in SUBSET S : T \in P
  BY <1>1, SubsetInduction
<1>3. QED
  BY <1>2 DEF P

\* The order does not matter: any element may be taken first.
LEMMA SumRemove ==
  ASSUME NEW S, IsFiniteSet(S), NEW f, \A x \in S : f[x] \in Int, NEW x \in S
  PROVE  SumFunctionOnSet(f, S) = f[x] + SumFunctionOnSet(f, S \ {x})
<1> DEFINE Sum(T) == SumFunctionOnSet(f, T)
           P == {T \in SUBSET S : \A y \in T : Sum(T) = f[y] + Sum(T \ {y})}
<1>1. \A T \in SUBSET S :
        /\ Sum(T) \in Int
        /\ T # {} => Sum(T) = f[Pick(T)] + Sum(T \ {Pick(T)}) /\ Pick(T) \in T
  <2>1. TAKE T \in SUBSET S
  <2>2. IsFiniteSet(T)
    BY FS_Subset
  <2>3. QED
    BY <2>2, SumType, SumStep, PickIn
<1> HIDE DEF Sum
<1>2. ASSUME NEW T \in SUBSET S, \A U \in (SUBSET T) \ {T} : U \in P
      PROVE  T \in P
  <2>1. SUFFICES ASSUME NEW y \in T PROVE Sum(T) = f[y] + Sum(T \ {y})
    OBVIOUS
  <2> DEFINE p == Pick(T)
  <2>2. p \in T /\ Sum(T) = f[p] + Sum(T \ {p})
    BY <1>1
  <2> HIDE DEF p
  <2>3. CASE y # p
    <3>1. Sum(T \ {p}) = f[y] + Sum((T \ {p}) \ {y})
      <4>1. T \ {p} \in P
        BY <1>2, <2>2
      <4>2. QED
        BY <2>3, <4>1
    <3>2. Sum(T \ {y}) = f[p] + Sum((T \ {y}) \ {p})
      <4>1. T \ {y} \in P
        BY <1>2
      <4>2. QED
        BY <2>2, <2>3, <4>1
    <3>3. (T \ {p}) \ {y} = (T \ {y}) \ {p}
      OBVIOUS
    <3>4. Sum((T \ {y}) \ {p}) \in Int
      BY <1>1
    <3>5. f[y] \in Int /\ f[p] \in Int
      BY <2>2
    <3> DEFINE rest == Sum((T \ {y}) \ {p})
    <3>6. Sum(T) = f[p] + (f[y] + rest) /\ Sum(T \ {y}) = f[p] + rest
      BY <2>2, <3>1, <3>2, <3>3
    <3>7. rest \in Int
      BY <3>4
    <3> HIDE DEF rest
    <3>8. QED
      BY <3>5, <3>6, <3>7
  <2>4. QED
    BY <2>2, <2>3
<1> HIDE DEF P
<1>3. \A T \in SUBSET S : T \in P
  BY <1>2, SubsetInduction
<1>4. QED
  BY <1>3 DEF P, Sum

\* Adding an element adds its value.
LEMMA SumInsert ==
  ASSUME NEW S, IsFiniteSet(S), NEW x, x \notin S, NEW f,
         \A y \in S \cup {x} : f[y] \in Int
  PROVE  SumFunctionOnSet(f, S \cup {x}) = f[x] + SumFunctionOnSet(f, S)
<1>1. IsFiniteSet(S \cup {x})
  BY FS_AddElement
<1>2. (S \cup {x}) \ {x} = S
  OBVIOUS
<1>3. QED
  BY <1>1, <1>2, SumRemove

\* A sum depends on nothing but what is added.
LEMMA SumSame ==
  ASSUME NEW S, IsFiniteSet(S), NEW f, NEW g, \A x \in S : f[x] = g[x]
  PROVE  SumFunctionOnSet(f, S) = SumFunctionOnSet(g, S)
<1> DEFINE P == {T \in SUBSET S : SumFunctionOnSet(f, T) = SumFunctionOnSet(g, T)}
<1>1. ASSUME NEW T \in SUBSET S, \A U \in (SUBSET T) \ {T} : U \in P
      PROVE  T \in P
  <2>1. IsFiniteSet(T)
    BY FS_Subset
  <2>2. CASE T = {}
    BY <2>2, SumOfNone
  <2>3. CASE T # {}
    <3>1. Pick(T) \in T
      BY <2>3, PickIn
    <3>2. SumFunctionOnSet(f, T \ {Pick(T)}) = SumFunctionOnSet(g, T \ {Pick(T)})
      BY <1>1, <3>1
    <3>3. /\ SumFunctionOnSet(f, T) = f[Pick(T)] + SumFunctionOnSet(f, T \ {Pick(T)})
          /\ SumFunctionOnSet(g, T) = g[Pick(T)] + SumFunctionOnSet(g, T \ {Pick(T)})
      BY <2>1, <2>3, SumStep
    <3>4. QED
      BY <3>1, <3>2, <3>3
  <2>4. QED
    BY <2>2, <2>3
<1> HIDE DEF P
<1>2. \A T \in SUBSET S : T \in P
  BY <1>1, SubsetInduction
<1>3. QED
  BY <1>2 DEF P

\* Larger values, larger sum.
LEMMA SumMonotone ==
  ASSUME NEW S, IsFiniteSet(S), NEW f, NEW g,
         \A x \in S : f[x] \in Int /\ g[x] \in Int /\ f[x] <= g[x]
  PROVE  SumFunctionOnSet(f, S) <= SumFunctionOnSet(g, S)
<1> DEFINE F(T) == SumFunctionOnSet(f, T)
           G(T) == SumFunctionOnSet(g, T)
           P == {T \in SUBSET S : F(T) <= G(T)}
<1>1. \A T \in SUBSET S :
        /\ F(T) \in Int /\ G(T) \in Int
        /\ T = {} => F(T) = 0 /\ G(T) = 0
        /\ T # {} => /\ Pick(T) \in T
                     /\ F(T) = f[Pick(T)] + F(T \ {Pick(T)})
                     /\ G(T) = g[Pick(T)] + G(T \ {Pick(T)})
  <2>1. TAKE T \in SUBSET S
  <2>2. IsFiniteSet(T)
    BY FS_Subset
  <2>3. QED
    BY <2>2, SumType, SumStep, PickIn
<1> HIDE DEF F, G
<1>2. ASSUME NEW T \in SUBSET S, \A U \in (SUBSET T) \ {T} : U \in P
      PROVE  T \in P
  <2>1. CASE T = {}
    BY <1>1, <2>1
  <2>2. CASE T # {}
    <3> DEFINE U == T \ {Pick(T)}
    <3>1. U \in P /\ F(U) \in Int /\ G(U) \in Int
      BY <1>1, <1>2, <2>2
    <3>2. F(T) = f[Pick(T)] + F(U) /\ G(T) = g[Pick(T)] + G(U) /\ Pick(T) \in S
      BY <1>1, <2>2
    <3> HIDE DEF U
    <3>3. QED
      BY <3>1, <3>2
  <2>3. QED
    BY <2>1, <2>2
<1> HIDE DEF P
<1>3. \A T \in SUBSET S : T \in P
  BY <1>2, SubsetInduction
<1>4. QED
  BY <1>3 DEF P, F, G

\* Adding two values element by element adds the two sums.
LEMMA SumPlus ==
  ASSUME NEW S, IsFiniteSet(S), NEW f, NEW g, NEW h,
         \A x \in S : f[x] \in Int /\ g[x] \in Int /\ h[x] = f[x] + g[x]
  PROVE  SumFunctionOnSet(h, S) = SumFunctionOnSet(f, S) + SumFunctionOnSet(g, S)
<1> DEFINE F(T) == SumFunctionOnSet(f, T)
           G(T) == SumFunctionOnSet(g, T)
           H(T) == SumFunctionOnSet(h, T)
           P == {T \in SUBSET S : H(T) = F(T) + G(T)}
<1>1. \A T \in SUBSET S :
        /\ F(T) \in Int /\ G(T) \in Int
        /\ T = {} => F(T) = 0 /\ G(T) = 0 /\ H(T) = 0
        /\ T # {} => /\ Pick(T) \in T
                     /\ F(T) = f[Pick(T)] + F(T \ {Pick(T)})
                     /\ G(T) = g[Pick(T)] + G(T \ {Pick(T)})
                     /\ H(T) = h[Pick(T)] + H(T \ {Pick(T)})
  <2>1. TAKE T \in SUBSET S
  <2>2. IsFiniteSet(T)
    BY FS_Subset
  <2>3. QED
    BY <2>2, SumType, SumStep, PickIn
<1> HIDE DEF F, G, H
<1>2. ASSUME NEW T \in SUBSET S, \A U \in (SUBSET T) \ {T} : U \in P
      PROVE  T \in P
  <2>1. CASE T = {}
    <3>1. F(T) = 0 /\ G(T) = 0 /\ H(T) = 0
      BY <1>1, <2>1
    <3>2. QED
      BY <3>1
  <2>2. CASE T # {}
    <3> DEFINE U == T \ {Pick(T)}
    <3>1. H(U) = F(U) + G(U) /\ F(U) \in Int /\ G(U) \in Int
      BY <1>1, <1>2, <2>2
    <3>2. /\ F(T) = f[Pick(T)] + F(U) /\ G(T) = g[Pick(T)] + G(U)
          /\ H(T) = h[Pick(T)] + H(U) /\ Pick(T) \in S
      BY <1>1, <2>2
    <3> HIDE DEF U
    <3>3. QED
      BY <3>1, <3>2
  <2>3. QED
    BY <2>1, <2>2
<1> HIDE DEF P
<1>3. \A T \in SUBSET S : T \in P
  BY <1>2, SubsetInduction
<1>4. QED
  BY <1>3 DEF P, F, G, H

\* A factor of every value is one of the sum.
LEMMA SumScaled ==
  ASSUME NEW S, IsFiniteSet(S), NEW c \in Int, NEW f, NEW h,
         \A x \in S : f[x] \in Int /\ h[x] = c * f[x]
  PROVE  SumFunctionOnSet(h, S) = c * SumFunctionOnSet(f, S)
<1> DEFINE F(T) == SumFunctionOnSet(f, T)
           H(T) == SumFunctionOnSet(h, T)
           P == {T \in SUBSET S : H(T) = c * F(T)}
<1>1. \A T \in SUBSET S :
        /\ F(T) \in Int
        /\ T = {} => F(T) = 0 /\ H(T) = 0
        /\ T # {} => /\ Pick(T) \in T
                     /\ F(T) = f[Pick(T)] + F(T \ {Pick(T)})
                     /\ H(T) = h[Pick(T)] + H(T \ {Pick(T)})
  <2>1. TAKE T \in SUBSET S
  <2>2. IsFiniteSet(T)
    BY FS_Subset
  <2>3. QED
    BY <2>2, SumType, SumStep, PickIn
<1> HIDE DEF F, H
<1>2. ASSUME NEW T \in SUBSET S, \A U \in (SUBSET T) \ {T} : U \in P
      PROVE  T \in P
  <2>1. CASE T = {}
    <3>1. F(T) = 0 /\ H(T) = 0
      BY <1>1, <2>1
    <3>2. QED
      BY <3>1
  <2>2. CASE T # {}
    <3> DEFINE U == T \ {Pick(T)}
    <3>1. H(U) = c * F(U) /\ F(U) \in Int
      BY <1>1, <1>2, <2>2
    <3>2. /\ F(T) = f[Pick(T)] + F(U) /\ H(T) = h[Pick(T)] + H(U)
          /\ h[Pick(T)] = c * f[Pick(T)] /\ f[Pick(T)] \in Int
      BY <1>1, <2>2
    <3> HIDE DEF U
    <3>3. c * (f[Pick(T)] + F(U)) = c * f[Pick(T)] + c * F(U)
      BY <3>1, <3>2
    <3>4. QED
      BY <3>1, <3>2, <3>3
  <2>3. QED
    BY <2>1, <2>2
<1> HIDE DEF P
<1>3. \A T \in SUBSET S : T \in P
  BY <1>2, SubsetInduction
<1>4. QED
  BY <1>3 DEF P, F, H

\* Strictly larger values, strictly larger sum, where there are any.
LEMMA SumBelow ==
  ASSUME NEW S, IsFiniteSet(S), S # {}, NEW f, NEW g,
         \A x \in S : f[x] \in Int /\ g[x] \in Int /\ f[x] < g[x]
  PROVE  SumFunctionOnSet(f, S) < SumFunctionOnSet(g, S)
<1>1. PICK p \in S : TRUE
  OBVIOUS
<1> DEFINE T == S \ {p}
<1>2. /\ SumFunctionOnSet(f, S) = f[p] + SumFunctionOnSet(f, T)
      /\ SumFunctionOnSet(g, S) = g[p] + SumFunctionOnSet(g, T)
  BY <1>1, SumRemove
<1>3. IsFiniteSet(T) /\ \A x \in T : x \in S
  BY <1>1, FS_RemoveElement
<1> HIDE DEF T
<1>4. SumFunctionOnSet(f, T) <= SumFunctionOnSet(g, T)
  BY <1>3, SumMonotone
<1>5. SumFunctionOnSet(f, T) \in Int /\ SumFunctionOnSet(g, T) \in Int
  BY <1>3, SumType
<1>6. QED
  BY <1>1, <1>2, <1>4, <1>5

\* Elements worth nothing can be left out.
LEMMA SumOfSome ==
  ASSUME NEW S, IsFiniteSet(S), NEW T \in SUBSET S, NEW f,
         \A x \in S : f[x] \in Int, \A x \in S \ T : f[x] = 0
  PROVE  SumFunctionOnSet(f, S) = SumFunctionOnSet(f, T)
<1> DEFINE E == S \ T
           F(U) == SumFunctionOnSet(f, U)
           P == {U \in SUBSET E : F(T \cup U) = F(T)}
<1>1. IsFiniteSet(E) /\ IsFiniteSet(T) /\ \A x \in E : x \in S /\ x \notin T
  BY FS_Difference, FS_Subset
<1>2. T \cup E = S /\ \A x \in E : f[x] = 0
  OBVIOUS
<1> HIDE DEF E
<1>3. ASSUME NEW U \in SUBSET E, \A V \in (SUBSET U) \ {U} : V \in P
      PROVE  U \in P
  <2>1. CASE U = {}
    <3>1. T \cup U = T
      BY <2>1
    <3> HIDE DEF F
    <3>2. QED
      BY <3>1
  <2>2. CASE U # {}
    <3> DEFINE p == Pick(U)
               V == U \ {p}
               W == T \cup U
    <3>1. p \in U
      BY <2>2, PickIn
    <3> HIDE DEF p
    <3>2. F(T \cup V) = F(T)
      BY <1>3, <3>1
    <3>3. W \in SUBSET S /\ p \in W
      BY <1>1, <3>1
    <3>4. W \ {p} = T \cup V /\ f[p] = 0
      BY <1>1, <1>2, <3>1
    <3>5. IsFiniteSet(W) /\ \A x \in W : f[x] \in Int
      BY <3>3, FS_Subset
    <3> HIDE DEF V, W
    <3>6. F(W) = f[p] + F(W \ {p})
      BY <3>3, <3>5, SumRemove
    <3>7. F(T) \in Int
      BY <1>1, SumType
    <3> HIDE DEF F
    <3>8. F(W \ {p}) = F(T)
      BY <3>2, <3>4
    <3>9. F(W) = F(T)
      BY <3>4, <3>6, <3>7, <3>8
    <3>10. QED
      BY <3>9 DEF W
  <2>3. QED
    BY <2>1, <2>2
<1> HIDE DEF P
<1>4. \A U \in SUBSET E : U \in P
  BY <1>1, <1>3, SubsetInduction
<1>5. F(T \cup E) = F(T)
  BY <1>4 DEF P
<1>6. QED
  BY <1>2, <1>5

\* Elements may be called by other names.
LEMMA SumRenamed ==
  ASSUME NEW S, IsFiniteSet(S), NEW T, NEW b \in [S -> T],
         \A x, y \in S : b[x] = b[y] => x = y,
         \A z \in T : \E x \in S : b[x] = z,
         NEW f, \A z \in T : f[z] \in Int, NEW g, \A x \in S : g[x] = f[b[x]]
  PROVE  SumFunctionOnSet(g, S) = SumFunctionOnSet(f, T)
<1> DEFINE Img(U) == {b[x] : x \in U}
           P == {U \in SUBSET S :
                   /\ IsFiniteSet(Img(U))
                   /\ SumFunctionOnSet(g, U) = SumFunctionOnSet(f, Img(U))}
<1>1. ASSUME NEW U \in SUBSET S, \A V \in (SUBSET U) \ {U} : V \in P
      PROVE  U \in P
  <2>1. CASE U = {}
    <3>1. Img(U) = {}
      BY <2>1
    <3> HIDE DEF Img
    <3>2. QED
      BY <2>1, <3>1, SumOfNone, FS_EmptySet
  <2>2. CASE U # {}
    <3> DEFINE p == Pick(U)
               V == U \ {p}
    <3>1. p \in U
      BY <2>2, PickIn
    <3> HIDE DEF p
    <3>2. IsFiniteSet(Img(V)) /\ SumFunctionOnSet(g, V) = SumFunctionOnSet(f, Img(V))
      BY <1>1, <3>1
    <3>3. IsFiniteSet(U)
      BY FS_Subset
    <3>4. SumFunctionOnSet(g, U) = g[p] + SumFunctionOnSet(g, V)
      BY <3>1, <3>3, SumRemove
    <3>5. b[p] \notin Img(V) /\ Img(U) = Img(V) \cup {b[p]}
      BY <3>1
    <3>6. \A z \in Img(V) \cup {b[p]} : f[z] \in Int
      BY <3>1
    <3>7. g[p] = f[b[p]]
      BY <3>1
    <3> HIDE DEF Img, V
    <3>8. SumFunctionOnSet(f, Img(U)) = f[b[p]] + SumFunctionOnSet(f, Img(V))
      BY <3>2, <3>5, <3>6, SumInsert
    <3>9. IsFiniteSet(Img(U))
      BY <3>2, <3>5, FS_AddElement
    <3>10. QED
      BY <3>2, <3>4, <3>7, <3>8, <3>9
  <2>3. QED
    BY <2>1, <2>2
<1> HIDE DEF P
<1>2. \A U \in SUBSET S : U \in P
  BY <1>1, SubsetInduction
<1>3. Img(S) = T
  OBVIOUS
<1>4. QED
  BY <1>2, <1>3 DEF P

\* Bounds on each column of a table bound the sum of its row sums.
LEMMA SumByColumns ==
  ASSUME NEW A, IsFiniteSet(A), NEW B, IsFiniteSet(B), NEW F, NEW r,
         \A a \in A, k \in B : F[a][k] \in Int,
         \A k \in B : r[k] \in Int
                      /\ SumFunctionOnSet([a \in A |-> F[a][k]], A) <= r[k]
  PROVE  SumFunctionOnSet([a \in A |-> SumFunctionOnSet(F[a], B)], A)
           <= SumFunctionOnSet(r, B)
<1> DEFINE Rows(C) == [a \in A |-> SumFunctionOnSet(F[a], C)]
           Col(k) == [a \in A |-> F[a][k]]
           Q(C) == SumFunctionOnSet(Rows(C), A) <= SumFunctionOnSet(r, C)
           P == {C \in SUBSET B : Q(C)}
<1>1. ASSUME NEW C \in SUBSET B, \A D \in (SUBSET C) \ {C} : D \in P
      PROVE  C \in P
  <2>1. IsFiniteSet(C)
    BY FS_Subset
  <2>2. CASE C = {}
    <3>1. \A a \in A : Rows(C)[a] = 0
      BY <2>2, SumOfNone
    <3> HIDE DEF Rows
    <3>2. SumFunctionOnSet(Rows(C), A) = SumFunctionOnSet(Rows(C), {})
      BY <3>1, SumOfSome
    <3>3. SumFunctionOnSet(Rows(C), {}) = 0 /\ SumFunctionOnSet(r, C) = 0
      BY <2>2, SumOfNone
    <3>4. QED
      BY <3>2, <3>3
  <2>3. CASE C # {}
    <3> DEFINE p == Pick(C)
               D == C \ {p}
    <3>1. p \in C
      BY <2>3, PickIn
    <3> HIDE DEF p
    <3>2. D \in (SUBSET C) \ {C} /\ IsFiniteSet(D) /\ D \in SUBSET B
      BY <2>1, <3>1, FS_Subset
    <3>3. SumFunctionOnSet(r, C) = r[p] + SumFunctionOnSet(r, D)
      BY <2>1, <3>1, SumRemove
    <3>4. \A a \in A : /\ Col(p)[a] \in Int /\ Rows(D)[a] \in Int
                       /\ Rows(C)[a] = Col(p)[a] + Rows(D)[a]
      <4>1. TAKE a \in A
      <4>2. \A k \in C : F[a][k] \in Int
        OBVIOUS
      <4>3. SumFunctionOnSet(F[a], C) = F[a][p] + SumFunctionOnSet(F[a], D)
        BY <2>1, <3>1, <4>2, SumRemove
      <4>4. SumFunctionOnSet(F[a], D) \in Int
        BY <3>2, <4>2, SumType
      <4>5. QED
        BY <3>1, <4>2, <4>3, <4>4
    <3>5. SumFunctionOnSet(Col(p), A) <= r[p] /\ r[p] \in Int
      BY <3>1
    <3>6. SumFunctionOnSet(r, D) \in Int
      BY <3>2, SumType
    <3>7. Q(D)
      BY <1>1, <3>2
    <3> HIDE DEF Rows, Col, D
    <3>8. SumFunctionOnSet(Rows(C), A)
            = SumFunctionOnSet(Col(p), A) + SumFunctionOnSet(Rows(D), A)
      BY <3>4, SumPlus
    <3>9. SumFunctionOnSet(Col(p), A) \in Int /\ SumFunctionOnSet(Rows(D), A) \in Int
      BY <3>4, SumType
    <3>10. Q(C)
      BY <3>3, <3>5, <3>6, <3>7, <3>8, <3>9
    <3> HIDE DEF Q
    <3>11. QED
      BY <3>10
  <2>4. QED
    BY <2>2, <2>3
<1> HIDE DEF P
<1>2. \A C \in SUBSET B : C \in P
  BY <1>1, SubsetInduction
<1>3. B \in P
  BY <1>2
<1>4. QED
  BY <1>3 DEF P

\* A sum of naturals is a natural.
LEMMA SumNat ==
  ASSUME NEW S, IsFiniteSet(S), NEW f, \A x \in S : f[x] \in Nat
  PROVE  SumFunctionOnSet(f, S) \in Nat
<1> DEFINE zero == [x \in S |-> 0]
<1>1. SumFunctionOnSet(zero, S) = SumFunctionOnSet(zero, {})
  <2>1. /\ {} \in SUBSET S
        /\ \A x \in S : zero[x] \in Int
        /\ \A x \in S \ {} : zero[x] = 0
    OBVIOUS
  <2> HIDE DEF zero
  <2>2. QED
    BY <2>1, SumOfSome
<1>2. SumFunctionOnSet(zero, {}) = 0
  BY SumOfNone
<1>3. \A x \in S : zero[x] \in Int /\ f[x] \in Int /\ zero[x] <= f[x]
  OBVIOUS
<1> HIDE DEF zero
<1>4. SumFunctionOnSet(zero, S) <= SumFunctionOnSet(f, S)
  BY <1>3, SumMonotone
<1>5. SumFunctionOnSet(f, S) \in Int
  BY SumType
<1>6. QED
  BY <1>1, <1>2, <1>4, <1>5

\* A table that loses rows, gains only empty ones and lets no value grow does not
\* sum to more.
LEMMA SumShrinks ==
  ASSUME NEW S, IsFiniteSet(S), NEW T, IsFiniteSet(T), NEW f, NEW g,
         \A x \in S : f[x] \in Nat,
         \A x \in T : g[x] \in Nat,
         \A x \in T \cap S : g[x] <= f[x],
         \A x \in T \ S : g[x] = 0
  PROVE  SumFunctionOnSet(g, T) <= SumFunctionOnSet(f, S)
<1> DEFINE C == T \cap S
           h == [x \in S |-> IF x \in C THEN f[x] ELSE 0]
<1>1. C \in SUBSET T /\ C \in SUBSET S /\ IsFiniteSet(C)
  BY FS_Subset
<1>2. \A x \in C : g[x] \in Int /\ h[x] \in Int /\ g[x] <= h[x]
  OBVIOUS
<1>3. \A x \in S : h[x] \in Int /\ f[x] \in Int /\ h[x] <= f[x]
  OBVIOUS
<1>4. \A x \in S \ C : h[x] = 0
  OBVIOUS
<1>5. (\A x \in T : g[x] \in Int) /\ \A x \in T \ C : g[x] = 0
  OBVIOUS
<1> HIDE DEF C, h
<1>6. SumFunctionOnSet(g, T) = SumFunctionOnSet(g, C)
  BY <1>1, <1>5, SumOfSome
<1>7. SumFunctionOnSet(h, S) = SumFunctionOnSet(h, C)
  BY <1>1, <1>3, <1>4, SumOfSome
<1>8. SumFunctionOnSet(g, C) <= SumFunctionOnSet(h, C)
  BY <1>1, <1>2, SumMonotone
<1>9. SumFunctionOnSet(h, S) <= SumFunctionOnSet(f, S)
  BY <1>3, SumMonotone
<1>10. /\ SumFunctionOnSet(h, C) \in Int /\ SumFunctionOnSet(g, C) \in Int
       /\ SumFunctionOnSet(f, S) \in Int
  BY <1>1, <1>2, <1>3, SumType
<1>11. QED
  BY <1>6, <1>7, <1>8, <1>9, <1>10

\* One value more on one row is one more in the sum.
LEMMA SumOneMore ==
  ASSUME NEW S, IsFiniteSet(S), NEW f, NEW g, NEW p \in S,
         \A x \in S : f[x] \in Int,
         \A x \in S : g[x] = IF x = p THEN f[x] + 1 ELSE f[x]
  PROVE  SumFunctionOnSet(g, S) = SumFunctionOnSet(f, S) + 1
<1> DEFINE T == S \ {p}
<1>1. IsFiniteSet(T) /\ \A x \in T : g[x] = f[x] /\ f[x] \in Int
  BY FS_RemoveElement
<1>2. \A x \in S : g[x] \in Int
  OBVIOUS
<1>3. /\ SumFunctionOnSet(g, S) = g[p] + SumFunctionOnSet(g, T)
      /\ SumFunctionOnSet(f, S) = f[p] + SumFunctionOnSet(f, T)
  BY <1>2, SumRemove
<1>4. g[p] = f[p] + 1 /\ f[p] \in Int
  OBVIOUS
<1> HIDE DEF T
<1>5. SumFunctionOnSet(g, T) = SumFunctionOnSet(f, T)
  BY <1>1, SumSame
<1>6. SumFunctionOnSet(f, T) \in Int
  BY <1>1, SumType
<1>7. QED
  BY <1>3, <1>4, <1>5, <1>6

-----------------------------------------------------------------------------
(* Sums over sequences. *)

\* The sum of a sequence is the sum over its positions.
LEMMA SumOfSeq ==
  ASSUME NEW s \in Seq(Int)
  PROVE  SumFunction(s) = SumFunctionOnSet(s, 1 .. Len(s)) /\ IsFiniteSet(1 .. Len(s))
  BY FS_Interval DEF SumFunction

\* A new last element adds its value.
LEMMA SumAppend ==
  ASSUME NEW s \in Seq(Int), NEW x \in Int
  PROVE  SumFunction(Append(s, x)) = SumFunction(s) + x
<1> DEFINE n == Len(s)
           t == Append(s, x)
<1>1. t \in Seq(Int) /\ Len(t) = n + 1 /\ n \in Nat /\ t[n + 1] = x
      /\ \A i \in 1 .. n : t[i] = s[i] /\ s[i] \in Int
  OBVIOUS
<1>2. SumFunction(t) = SumFunctionOnSet(t, 1 .. n + 1) /\ IsFiniteSet(1 .. n)
      /\ SumFunction(s) = SumFunctionOnSet(s, 1 .. n)
  BY <1>1, SumOfSeq
<1> HIDE DEF n, t
<1>3. 1 .. n + 1 = (1 .. n) \cup {n + 1} /\ n + 1 \notin 1 .. n
  BY <1>1
<1>4. SumFunctionOnSet(t, 1 .. n + 1) = t[n + 1] + SumFunctionOnSet(t, 1 .. n)
  BY <1>1, <1>2, <1>3, SumInsert
<1>5. SumFunctionOnSet(t, 1 .. n) = SumFunctionOnSet(s, 1 .. n)
  BY <1>1, <1>2, SumSame
<1>6. SumFunctionOnSet(s, 1 .. n) \in Int
  BY <1>1, <1>2, SumType
<1>7. QED
  BY <1>1, <1>2, <1>4, <1>5, <1>6 DEF t

\* Dropping the oldest element takes its value off.
LEMMA SumTail ==
  ASSUME NEW s \in Seq(Int), s # <<>>
  PROVE  SumFunction(s) = Head(s) + SumFunction(Tail(s))
<1> DEFINE n == Len(s)
           t == Tail(s)
<1>1. /\ t \in Seq(Int) /\ n \in Nat \ {0} /\ Len(t) = n - 1 /\ s[1] = Head(s)
      /\ \A i \in 1 .. n - 1 : t[i] = s[i + 1]
      /\ \A i \in 1 .. n : s[i] \in Int
  OBVIOUS
<1>2. SumFunction(t) = SumFunctionOnSet(t, 1 .. n - 1) /\ IsFiniteSet(1 .. n - 1)
      /\ SumFunction(s) = SumFunctionOnSet(s, 1 .. n) /\ IsFiniteSet(1 .. n)
  BY <1>1, SumOfSeq
<1> HIDE DEF n, t
<1>3. (1 .. n) \ {1} = 2 .. n /\ 1 \in 1 .. n
  BY <1>1
<1>4. SumFunctionOnSet(s, 1 .. n) = s[1] + SumFunctionOnSet(s, 2 .. n)
  <2> DEFINE S == 1 .. n
  <2>1. IsFiniteSet(S) /\ (\A i \in S : s[i] \in Int) /\ 1 \in S /\ S \ {1} = 2 .. n
    BY <1>1, <1>2, <1>3
  <2> HIDE DEF S
  <2>2. SumFunctionOnSet(s, S) = s[1] + SumFunctionOnSet(s, S \ {1})
    BY ONLY <2>1, SumRemove
  <2> QED BY <2>1, <2>2 DEF S
<1>5. SumFunctionOnSet(t, 1 .. n - 1) = SumFunctionOnSet(s, 2 .. n)
  <2> DEFINE A == 1 .. n - 1
             B == 2 .. n
             b == [i \in A |-> i + 1]
  <2>1. b \in [A -> B]
    BY <1>1
  <2>2. \A x, y \in A : b[x] = b[y] => x = y
    BY <1>1
  <2>3. \A z \in B : \E x \in A : b[x] = z
    <3>1. TAKE z \in B
    <3>2. z - 1 \in A /\ b[z - 1] = z
      BY <1>1
    <3>3. QED
      BY <3>2
  <2>4. \A x \in A : t[x] = s[b[x]]
    BY <1>1
  <2>5. \A z \in B : s[z] \in Int
    BY <1>1
  <2>6. IsFiniteSet(A)
    BY <1>2
  <2>7. SumFunctionOnSet(t, A) = SumFunctionOnSet(s, B)
    <3> HIDE DEF A, B, b
    <3>1. QED
      BY <2>1, <2>2, <2>3, <2>4, <2>5, <2>6, SumRenamed
  <2>8. QED
    BY <2>7
<1>6. QED
  BY <1>1, <1>2, <1>4, <1>5 DEF t
=============================================================================
