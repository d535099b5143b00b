--------------------------------- MODULE Sums ---------------------------------
(***************************************************************************)
(* Facts about sums over finite sets (SumFunctionOnSet of the Functions    *)
(* module), which the aggregation of scores and the analytics are made of. *)
(* Induction over a finite set is stated for the set G of its subsets that *)
(* have a property.                                                        *)
(***************************************************************************)
EXTENDS Integers, Functions, FiniteSets, FiniteSetsExt, FiniteSetTheorems, WellFoundedInduction, TLAPS

\* If a set of subsets of S contains every T whose smaller subsets it contains, it
\* contains S: otherwise it would miss a smallest one.
LEMMA SetInduction ==
  ASSUME NEW S, IsFiniteSet(S), NEW G \in SUBSET (SUBSET S),
         \A T \in SUBSET S : (\A U \in SUBSET T : U # T => U \in G) => T \in G
  PROVE  S \in G
<1> DEFINE B == (SUBSET S) \ G
           R == StrictSubsetOrdering(S)
<1>1. IsWellFoundedOn(R, SUBSET S)
  BY FS_StrictSubsetOrderingWellFounded, FS_FiniteSubsetsOfFinite
<1>2. SUFFICES ASSUME B # {} PROVE FALSE
  OBVIOUS
<1>3. PICK T \in B : \A U \in B : <<U, T>> \notin R
  <2>1. B \subseteq SUBSET S
    OBVIOUS
  <2> HIDE DEF B, R
  <2> QED BY <1>1, <1>2, <2>1, WFMin
<1>4. ASSUME NEW U \in SUBSET T, U # T PROVE U \in G
  <2>1. <<U, T>> \in R
    BY <1>4 DEF StrictSubsetOrdering
  <2> QED BY <1>3, <2>1
<1> QED BY <1>3, <1>4

-----------------------------------------------------------------------------
(* The recursion that defines a sum has a solution, which is the same on   *)
(* every set it is solved on.                                              *)

Pick(s) == CHOOSE x \in s : TRUE
Rec(f, g, s) == IF s = {} THEN 0 ELSE f[Pick(s)] + g[s \ {Pick(s)}]
SolvesOn(g, f, D) == g = [s \in D |-> Rec(f, g, s)]
Solves(g, f, S) == SolvesOn(g, f, SUBSET S)

\* The sum is the value at S of a function that solves its recursion.
LEMMA SumIs ==
  ASSUME NEW f, NEW S
  PROVE  SumFunctionOnSet(f, S) = (CHOOSE g : Solves(g, f, S))[S]
  BY DEF SumFunctionOnSet, FoldFunctionOnSet, MapThenFoldSet, Solves, SolvesOn, Rec, Pick

\* The element a sum takes first is one of the set.
LEMMA PickIn == \A s : s # {} => Pick(s) \in s
  BY DEF Pick

\* Without that element the set is smaller by one.
LEMMA Smaller ==
  ASSUME NEW S, IsFiniteSet(S), NEW s \in SUBSET S, s # {}
  PROVE  /\ s \ {Pick(s)} \in SUBSET S
         /\ Cardinality(s) \in Nat /\ Cardinality(s \ {Pick(s)}) = Cardinality(s) - 1
         /\ Cardinality(s) # 0
  BY PickIn, FS_Subset, FS_CardinalityType, FS_RemoveElement, FS_EmptySet

\* A solution on the subsets of size n extends to the ones of size n + 1.
LEMMA SolutionExists ==
  ASSUME NEW f, NEW S, IsFiniteSet(S)
  PROVE  \E g : Solves(g, f, S)
<1> DEFINE Upto(n) == {s \in SUBSET S : Cardinality(s) <= n}
           G == {T \in SUBSET S : \E g : SolvesOn(g, f, Upto(Cardinality(T)))}
<1>1. ASSUME NEW T \in SUBSET S, \A U \in SUBSET T : U # T => U \in G PROVE T \in G
  <2>1. CASE T = {}
    <3>1. Upto(Cardinality(T)) = {{}}
      BY <2>1, FS_EmptySet, FS_Subset, FS_CardinalityType
    <3>2. SolvesOn([s \in {{}} |-> 0], f, {{}})
      BY DEF Solves, SolvesOn, Rec
    <3> QED BY <3>1, <3>2
  <2>2. CASE T # {}
    <3> DEFINE n == Cardinality(T \ {Pick(T)})
    <3>1. n \in Nat /\ Cardinality(T) = n + 1
      BY <2>2, Smaller, FS_Subset, FS_CardinalityType
    <3>2. PICK g : SolvesOn(g, f, Upto(n))
      BY <1>1, <2>2, PickIn
    <3> DEFINE h == [s \in Upto(n + 1) |-> Rec(f, g, s)]
    <3>3. ASSUME NEW s \in Upto(n + 1), s # {}
          PROVE  s \ {Pick(s)} \in Upto(n) /\ s \ {Pick(s)} \in Upto(n + 1)
      BY <3>1, <3>3, Smaller
    <3>4. ASSUME NEW s \in Upto(n) PROVE h[s] = g[s]
      <4>1. s \in Upto(n + 1)
        BY <3>1, <3>4, FS_Subset, FS_CardinalityType
      <4>2. g[s] = Rec(f, g, s)
        BY <3>2 DEF Solves, SolvesOn
      <4> QED BY <4>1, <4>2
    <3>5. ASSUME NEW s \in Upto(n + 1) PROVE Rec(f, g, s) = Rec(f, h, s)
      BY <3>3, <3>4 DEF Rec
    <3>6. SolvesOn(h, f, Upto(n + 1))
      BY <3>5 DEF Solves, SolvesOn
    <3> QED BY <3>1, <3>6
  <2> QED BY <2>1, <2>2
<1>2. S \in G
  <2> HIDE DEF G
  <2>1. G \in SUBSET (SUBSET S)
    BY DEF G
  <2> QED BY <1>1, <2>1, SetInduction
<1>3. Upto(Cardinality(S)) = SUBSET S
  BY FS_Subset, FS_CardinalityType
<1> QED BY <1>2, <1>3 DEF Solves

\* Solutions agree where both are defined.
LEMMA SolutionUnique ==
  ASSUME NEW f, NEW S, NEW W \in SUBSET S, IsFiniteSet(W),
         NEW g, Solves(g, f, S), NEW h, Solves(h, f, W)
  PROVE  g[W] = h[W]
<1> DEFINE G == {T \in SUBSET W : g[T] = h[T]}
<1>1. ASSUME NEW T \in SUBSET W, \A U \in SUBSET T : U # T => U \in G PROVE T \in G
  <2>1. g[T] = Rec(f, g, T) /\ h[T] = Rec(f, h, T)
    BY DEF Solves, SolvesOn
  <2>2. T # {} => g[T \ {Pick(T)}] = h[T \ {Pick(T)}]
    BY <1>1, PickIn
  <2> QED BY <2>1, <2>2 DEF Rec
<1>2. W \in G
  <2> HIDE DEF G
  <2>1. G \in SUBSET (SUBSET W)
    BY DEF G
  <2> QED BY <1>1, <2>1, SetInduction
<1> QED BY <1>2

\* A solution on the subsets of S gives the sum over each of them.
LEMMA SumSolves ==
  ASSUME NEW f, NEW S, IsFiniteSet(S), NEW g, Solves(g, f, S), NEW T \in SUBSET S
  PROVE  SumFunctionOnSet(f, T) = g[T]
<1>1. IsFiniteSet(T)
  BY FS_Subset
<1>2. PICK h : h = CHOOSE q : Solves(q, f, T)
  OBVIOUS
<1>3. Solves(h, f, T)
  BY <1>1, <1>2, SolutionExists
<1>4. SumFunctionOnSet(f, T) = h[T]
  BY <1>2, SumIs
<1> QED BY <1>1, <1>3, <1>4, SolutionUnique

-----------------------------------------------------------------------------
(* What the models use.                                                    *)

\* The sum over no elements is zero.
LEMMA SumEmpty == \A f : SumFunctionOnSet(f, {}) = 0
<1> TAKE f
<1>1. PICK g : Solves(g, f, {})
  BY SolutionExists, FS_EmptySet
<1>2. g[{}] = 0
  BY <1>1 DEF Solves, SolvesOn, Rec
<1>3. SumFunctionOnSet(f, {}) = g[{}]
  BY <1>1, SumSolves, FS_EmptySet
<1> QED BY <1>2, <1>3

\* One step of the recursion.
LEMMA SumPick ==
  ASSUME NEW f, NEW S, IsFiniteSet(S), S # {}
  PROVE  SumFunctionOnSet(f, S) = f[Pick(S)] + SumFunctionOnSet(f, S \ {Pick(S)})
<1>1. PICK g : Solves(g, f, S)
  BY SolutionExists
<1>2. g[S] = f[Pick(S)] + g[S \ {Pick(S)}]
  BY <1>1 DEF Solves, SolvesOn, Rec
<1>3. S \in SUBSET S /\ S \ {Pick(S)} \in SUBSET S
  OBVIOUS
<1>4. SumFunctionOnSet(f, S) = g[S] /\ SumFunctionOnSet(f, S \ {Pick(S)}) = g[S \ {Pick(S)}]
  BY <1>1, <1>3, SumSolves
<1> QED BY <1>2, <1>4

\* A sum of naturals is a natural.
LEMMA SumType ==
  ASSUME NEW f, NEW S, IsFiniteSet(S), \A x \in S : f[x] \in Nat
  PROVE  SumFunctionOnSet(f, S) \in Nat
<1> DEFINE G == {T \in SUBSET S : SumFunctionOnSet(f, T) \in Nat}
<1>1. ASSUME NEW T \in SUBSET S, \A U \in SUBSET T : U # T => U \in G PROVE T \in G
  <2>1. CASE T = {}
    BY <2>1, SumEmpty
  <2>2. CASE T # {}
    <3>1. IsFiniteSet(T) /\ Pick(T) \in T
      BY <2>2, PickIn, FS_Subset
    <3>2. SumFunctionOnSet(f, T) = f[Pick(T)] + SumFunctionOnSet(f, T \ {Pick(T)})
      BY <2>2, <3>1, SumPick
    <3>3. f[Pick(T)] \in Nat /\ SumFunctionOnSet(f, T \ {Pick(T)}) \in Nat
      BY <1>1, <3>1
    <3> QED BY <3>2, <3>3
  <2> QED BY <2>1, <2>2
<1>2. S \in G
  <2> HIDE DEF G
  <2>1. G \in SUBSET (SUBSET S)
    BY DEF G
  <2> QED BY <1>1, <2>1, SetInduction
<1> QED BY <1>2

\* A sum of integers is an integer, and grows with each of its terms.
LEMMA SumOfIntegers ==
  ASSUME NEW f, NEW g, NEW S, IsFiniteSet(S), \A x \in S : f[x] \in Int /\ g[x] \in Int /\ f[x] <= g[x]
  PROVE  /\ SumFunctionOnSet(f, S) \in Int /\ SumFunctionOnSet(g, S) \in Int
         /\ SumFunctionOnSet(f, S) <= SumFunctionOnSet(g, S)
<1> DEFINE Grows(T) == /\ SumFunctionOnSet(f, T) \in Int /\ SumFunctionOnSet(g, T) \in Int
                       /\ SumFunctionOnSet(f, T) <= SumFunctionOnSet(g, T)
           G == {T \in SUBSET S : Grows(T)}
<1>1. ASSUME NEW T \in SUBSET S, \A U \in SUBSET T : U # T => U \in G PROVE T \in G
  <2>1. CASE T = {}
    BY <2>1, SumEmpty
  <2>2. CASE T # {}
    <3>1. IsFiniteSet(T) /\ Pick(T) \in T
      BY <2>2, PickIn, FS_Subset
    <3>2. /\ SumFunctionOnSet(f, T) = f[Pick(T)] + SumFunctionOnSet(f, T \ {Pick(T)})
          /\ SumFunctionOnSet(g, T) = g[Pick(T)] + SumFunctionOnSet(g, T \ {Pick(T)})
      BY <2>2, <3>1, SumPick
    <3>3. Grows(T \ {Pick(T)})
      BY <1>1, <3>1
    <3>4. f[Pick(T)] \in Int /\ g[Pick(T)] \in Int /\ f[Pick(T)] <= g[Pick(T)]
      BY <3>1
    <3> QED BY <3>2, <3>3, <3>4
  <2> QED BY <2>1, <2>2
<1>2. S \in G
  <2> HIDE DEF G
  <2>1. G \in SUBSET (SUBSET S)
    BY DEF G
  <2> QED BY <1>1, <2>1, SetInduction
<1> QED BY <1>2

\* Any element may be taken out first.
LEMMA SumRemove ==
  ASSUME NEW f, NEW S, IsFiniteSet(S), \A x \in S : f[x] \in Nat, NEW e \in S
  PROVE  SumFunctionOnSet(f, S) = f[e] + SumFunctionOnSet(f, S \ {e})
<1> DEFINE G == {T \in SUBSET S : \A x \in T :
                   SumFunctionOnSet(f, T) = f[x] + SumFunctionOnSet(f, T \ {x})}
<1>1. ASSUME NEW T \in SUBSET S, \A U \in SUBSET T : U # T => U \in G PROVE T \in G
  <2>1. SUFFICES ASSUME NEW x \in T
                 PROVE  SumFunctionOnSet(f, T) = f[x] + SumFunctionOnSet(f, T \ {x})
    OBVIOUS
  <2> DEFINE p == Pick(T)
  <2>2. IsFiniteSet(T) /\ p \in T
    BY PickIn, FS_Subset
  <2>3. SumFunctionOnSet(f, T) = f[p] + SumFunctionOnSet(f, T \ {p})
    BY <2>2, SumPick
  <2> HIDE DEF p
  <2>4. CASE x = p
    BY <2>3, <2>4
  <2>5. CASE x # p
    <3>1. T \ {p} \in G /\ x \in T \ {p} /\ T \ {x} \in G /\ p \in T \ {x}
      BY <1>1, <2>2, <2>5
    <3>2. SumFunctionOnSet(f, T \ {p}) = f[x] + SumFunctionOnSet(f, (T \ {p}) \ {x})
      BY <3>1
    <3>3. SumFunctionOnSet(f, T \ {x}) = f[p] + SumFunctionOnSet(f, (T \ {x}) \ {p})
      BY <3>1
    <3>4. (T \ {p}) \ {x} = (T \ {x}) \ {p}
      OBVIOUS
    <3> DEFINE r == SumFunctionOnSet(f, (T \ {p}) \ {x})
    <3>5. r \in Nat
      BY <2>2, SumType, FS_RemoveElement
    <3>6. f[p] \in Nat /\ f[x] \in Nat
      BY <2>2
    <3> HIDE DEF r
    <3>7. SumFunctionOnSet(f, T) = f[p] + (f[x] + r) /\ SumFunctionOnSet(f, T \ {x}) = f[p] + r
      BY <2>3, <3>2, <3>3, <3>4 DEF r
    <3> QED BY <3>5, <3>6, <3>7
  <2> QED BY <2>4, <2>5
<1>2. S \in G
  <2> HIDE DEF G
  <2>1. G \in SUBSET (SUBSET S)
    BY DEF G
  <2> QED BY <1>1, <2>1, SetInduction
<1> QED BY <1>2

\* Only the values on S matter.
LEMMA SumSame ==
  ASSUME NEW f, NEW g, NEW S, IsFiniteSet(S), \A x \in S : f[x] = g[x]
  PROVE  SumFunctionOnSet(f, S) = SumFunctionOnSet(g, S)
<1> DEFINE G == {T \in SUBSET S : SumFunctionOnSet(f, T) = SumFunctionOnSet(g, T)}
<1>1. ASSUME NEW T \in SUBSET S, \A U \in SUBSET T : U # T => U \in G PROVE T \in G
  <2>1. CASE T = {}
    BY <2>1, SumEmpty
  <2>2. CASE T # {}
    <3>1. IsFiniteSet(T) /\ Pick(T) \in T
      BY <2>2, PickIn, FS_Subset
    <3>2. /\ SumFunctionOnSet(f, T) = f[Pick(T)] + SumFunctionOnSet(f, T \ {Pick(T)})
          /\ SumFunctionOnSet(g, T) = g[Pick(T)] + SumFunctionOnSet(g, T \ {Pick(T)})
      BY <2>2, <3>1, SumPick
    <3>3. T \ {Pick(T)} \in G
      BY <1>1, <3>1
    <3> QED BY <3>1, <3>2, <3>3
  <2> QED BY <2>1, <2>2
<1>2. S \in G
  <2> HIDE DEF G
  <2>1. G \in SUBSET (SUBSET S)
    BY DEF G
  <2> QED BY <1>1, <2>1, SetInduction
<1> QED BY <1>2

\* The sums of disjoint sets add up.
LEMMA SumUnion ==
  ASSUME NEW f, NEW R, IsFiniteSet(R), NEW S, IsFiniteSet(S), R \cap S = {},
         \A x \in R \cup S : f[x] \in Nat
  PROVE  SumFunctionOnSet(f, R \cup S) = SumFunctionOnSet(f, R) + SumFunctionOnSet(f, S)
<1> DEFINE G == {T \in SUBSET S : SumFunctionOnSet(f, R \cup T)
                                    = SumFunctionOnSet(f, R) + SumFunctionOnSet(f, T)}
<1>1. ASSUME NEW T \in SUBSET S, \A U \in SUBSET T : U # T => U \in G PROVE T \in G
  <2>0. SumFunctionOnSet(f, R) \in Nat
    BY SumType
  <2>1. CASE T = {}
    <3>1. R \cup T = R
      BY <2>1
    <3> QED BY <2>0, <2>1, <3>1, SumEmpty
  <2>2. CASE T # {}
    <3>1. PICK x \in T : TRUE
      BY <2>2
    <3>2. IsFiniteSet(T) /\ IsFiniteSet(R \cup T)
      BY FS_Subset, FS_Union
    <3>3. (R \cup T) \ {x} = R \cup (T \ {x}) /\ x \in R \cup T /\ x \in S
      BY <3>1
    <3>4. SumFunctionOnSet(f, R \cup T) = f[x] + SumFunctionOnSet(f, R \cup (T \ {x}))
      BY <3>2, <3>3, SumRemove
    <3>5. SumFunctionOnSet(f, T) = f[x] + SumFunctionOnSet(f, T \ {x})
      BY <3>1, <3>2, SumRemove
    <3>6. SumFunctionOnSet(f, R \cup (T \ {x})) = SumFunctionOnSet(f, R) + SumFunctionOnSet(f, T \ {x})
      BY <1>1, <3>1
    <3>7. SumFunctionOnSet(f, T \ {x}) \in Nat /\ f[x] \in Nat
      BY <3>2, <3>3, SumType, FS_RemoveElement
    <3> QED BY <2>0, <3>4, <3>5, <3>6, <3>7
  <2> QED BY <2>1, <2>2
<1>2. S \in G
  <2> HIDE DEF G
  <2>1. G \in SUBSET (SUBSET S)
    BY DEF G
  <2> QED BY <1>1, <2>1, SetInduction
<1> QED BY <1>2

Class(kind, S, k) == {x \in S : kind[x] = k}
Within(kind, S, K) == {x \in S : kind[x] \in K}

\* Summing by kind and then over the kinds gives the sum.
LEMMA SumByKind ==
  ASSUME NEW f, NEW S, IsFiniteSet(S), \A x \in S : f[x] \in Nat,
         NEW kind, NEW K, IsFiniteSet(K),
         NEW c, \A k \in K : c[k] = SumFunctionOnSet(f, Class(kind, S, k))
  PROVE  SumFunctionOnSet(c, K) = SumFunctionOnSet(f, Within(kind, S, K))
<1> DEFINE G == {T \in SUBSET K : SumFunctionOnSet(c, T) = SumFunctionOnSet(f, Within(kind, S, T))}
<1>0. \A k \in K : IsFiniteSet(Class(kind, S, k)) /\ c[k] \in Nat
  <2>1. ASSUME NEW k \in K PROVE IsFiniteSet(Class(kind, S, k)) /\ c[k] \in Nat
    <3>1. IsFiniteSet(Class(kind, S, k)) /\ Class(kind, S, k) \subseteq S
      BY FS_Subset DEF Class
    <3>2. \A x \in Class(kind, S, k) : f[x] \in Nat
      BY <3>1
    <3> QED BY <3>1, <3>2, SumType
  <2> QED BY <2>1
<1>1. ASSUME NEW T \in SUBSET K, \A U \in SUBSET T : U # T => U \in G PROVE T \in G
  <2>1. CASE T = {}
    <3>1. Within(kind, S, T) = {}
      BY <2>1 DEF Within
    <3> QED BY <2>1, <3>1, SumEmpty
  <2>2. CASE T # {}
    <3>1. PICK k \in T : TRUE
      BY <2>2
    <3>2. IsFiniteSet(T) /\ \A j \in T : c[j] \in Nat
      BY <1>0, FS_Subset
    <3>3. SumFunctionOnSet(c, T) = c[k] + SumFunctionOnSet(c, T \ {k})
      BY <3>1, <3>2, SumRemove
    <3>4. SumFunctionOnSet(c, T \ {k}) = SumFunctionOnSet(f, Within(kind, S, T \ {k}))
      BY <1>1, <3>1
    <3> DEFINE A == Class(kind, S, k)
               B == Within(kind, S, T \ {k})
    <3>5. Within(kind, S, T) = A \cup B /\ A \cap B = {} /\ A \subseteq S /\ B \subseteq S
      BY <3>1 DEF Class, Within
    <3>6. IsFiniteSet(A) /\ IsFiniteSet(B) /\ \A x \in A \cup B : f[x] \in Nat
      BY <3>5, FS_Subset
    <3>7. c[k] = SumFunctionOnSet(f, A)
      BY <3>1
    <3> HIDE DEF A, B
    <3>8. SumFunctionOnSet(f, A \cup B) = SumFunctionOnSet(f, A) + SumFunctionOnSet(f, B)
      BY <3>5, <3>6, SumUnion
    <3> QED BY <3>3, <3>4, <3>5, <3>7, <3>8 DEF B
  <2> QED BY <2>1, <2>2
<1>2. K \in G
  <2> HIDE DEF G
  <2>1. G \in SUBSET (SUBSET K)
    BY DEF G
  <2> QED BY <1>1, <2>1, SetInduction
<1> QED BY <1>2

\* A cardinality is a sum of ones.
LEMMA SumOnes ==
  ASSUME NEW S, IsFiniteSet(S), NEW one, \A x \in S : one[x] = 1
  PROVE  SumFunctionOnSet(one, S) = Cardinality(S)
<1> DEFINE G == {T \in SUBSET S : SumFunctionOnSet(one, T) = Cardinality(T)}
<1>1. ASSUME NEW T \in SUBSET S, \A U \in SUBSET T : U # T => U \in G PROVE T \in G
  <2>1. CASE T = {}
    BY <2>1, SumEmpty, FS_EmptySet
  <2>2. CASE T # {}
    <3>1. IsFiniteSet(T) /\ Pick(T) \in T
      BY <2>2, PickIn, FS_Subset
    <3>2. SumFunctionOnSet(one, T) = one[Pick(T)] + SumFunctionOnSet(one, T \ {Pick(T)})
      BY <2>2, <3>1, SumPick
    <3>3. SumFunctionOnSet(one, T \ {Pick(T)}) = Cardinality(T \ {Pick(T)})
      BY <1>1, <3>1
    <3>4. Cardinality(T) \in Nat /\ Cardinality(T \ {Pick(T)}) = Cardinality(T) - 1
      BY <3>1, FS_CardinalityType, FS_RemoveElement
    <3> QED BY <3>1, <3>2, <3>3, <3>4
  <2> QED BY <2>1, <2>2
<1>2. S \in G
  <2> HIDE DEF G
  <2>1. G \in SUBSET (SUBSET S)
    BY DEF G
  <2> QED BY <1>1, <2>1, SetInduction
<1> QED BY <1>2

\* Counting by kind and summing over the kinds counts everything that has one of them.
LEMMA CountByKind ==
  ASSUME NEW S, IsFiniteSet(S), NEW kind, NEW K, IsFiniteSet(K),
         NEW c, \A k \in K : c[k] = Cardinality(Class(kind, S, k))
  PROVE  SumFunctionOnSet(c, K) = Cardinality(Within(kind, S, K))
<1> DEFINE one == [x \in S |-> 1]
<1>1. \A x \in S : one[x] = 1 /\ one[x] \in Nat
  OBVIOUS
<1> HIDE DEF one
<1>2. ASSUME NEW T \in SUBSET S PROVE SumFunctionOnSet(one, T) = Cardinality(T)
  BY <1>1, SumOnes, FS_Subset
<1>3. \A k \in K : c[k] = SumFunctionOnSet(one, Class(kind, S, k))
  BY <1>2 DEF Class
<1>4. SumFunctionOnSet(c, K) = SumFunctionOnSet(one, Within(kind, S, K))
  BY <1>1, <1>3, SumByKind
<1> QED BY <1>2, <1>4 DEF Within

ImageOf(h, T) == {h[x] : x \in T}

\* A sum grows with its terms, and with terms added: every term of the first sum has one
\* of its own in the second that is no smaller.
LEMMA SumGrows ==
  ASSUME NEW f, NEW g, NEW S, NEW R, IsFiniteSet(S), IsFiniteSet(R),
         \A x \in S : f[x] \in Nat, \A y \in R : g[y] \in Nat,
         NEW h, \A x \in S : h[x] \in R /\ f[x] <= g[h[x]],
         \A x, y \in S : h[x] = h[y] => x = y
  PROVE  SumFunctionOnSet(f, S) <= SumFunctionOnSet(g, R)
<1> DEFINE G == {T \in SUBSET S : SumFunctionOnSet(f, T) <= SumFunctionOnSet(g, ImageOf(h, T))}
<1>0. ASSUME NEW T \in SUBSET S PROVE ImageOf(h, T) \subseteq R /\ IsFiniteSet(ImageOf(h, T)) /\ IsFiniteSet(T)
  <2>1. ImageOf(h, T) \subseteq R
    BY DEF ImageOf
  <2> QED BY <2>1, FS_Subset
<1>1. ASSUME NEW T \in SUBSET S, \A U \in SUBSET T : U # T => U \in G PROVE T \in G
  <2>1. CASE T = {}
    <3>1. ImageOf(h, T) = {}
      BY <2>1 DEF ImageOf
    <3> QED BY <2>1, <3>1, SumEmpty
  <2>2. CASE T # {}
    <3>1. PICK x \in T : TRUE
      BY <2>2
    <3>2. ImageOf(h, T) \ {h[x]} = ImageOf(h, T \ {x}) /\ h[x] \in ImageOf(h, T)
      BY <3>1 DEF ImageOf
    <3>3. SumFunctionOnSet(f, T) = f[x] + SumFunctionOnSet(f, T \ {x})
      BY <1>0, <3>1, SumRemove
    <3>4. \A y \in ImageOf(h, T) : g[y] \in Nat
      BY <1>0
    <3>5. SumFunctionOnSet(g, ImageOf(h, T)) = g[h[x]] + SumFunctionOnSet(g, ImageOf(h, T \ {x}))
      <4>1. IsFiniteSet(ImageOf(h, T))
        BY <1>0
      <4> QED BY <4>1, <3>2, <3>4, SumRemove
    <3>6. SumFunctionOnSet(f, T \ {x}) <= SumFunctionOnSet(g, ImageOf(h, T \ {x}))
      BY <1>1, <3>1
    <3>7. T \ {x} \in SUBSET S /\ \A y \in T \ {x} : f[y] \in Nat
      OBVIOUS
    <3>8. SumFunctionOnSet(f, T \ {x}) \in Nat
      BY <1>0, <3>7, SumType
    <3>9. SumFunctionOnSet(g, ImageOf(h, T \ {x})) \in Nat
      <4>1. IsFiniteSet(ImageOf(h, T \ {x})) /\ \A y \in ImageOf(h, T \ {x}) : g[y] \in Nat
        BY <1>0, <3>7
      <4> QED BY <4>1, SumType
    <3>10. f[x] \in Nat /\ g[h[x]] \in Nat /\ f[x] <= g[h[x]]
      BY <3>1
    <3>11. SumFunctionOnSet(f, T) <= SumFunctionOnSet(g, ImageOf(h, T))
      BY <3>3, <3>5, <3>6, <3>8, <3>9, <3>10
    <3> QED BY <3>11
  <2> QED BY <2>1, <2>2
<1>2. S \in G
  <2> HIDE DEF G
  <2>1. G \in SUBSET (SUBSET S)
    BY DEF G
  <2> QED BY <1>1, <2>1, SetInduction
<1>3. SumFunctionOnSet(f, S) <= SumFunctionOnSet(g, ImageOf(h, S))
  BY <1>2
<1> DEFINE A == ImageOf(h, S)
           B == R \ A
<1>4. R = A \cup B /\ A \cap B = {} /\ IsFiniteSet(A) /\ IsFiniteSet(B)
  BY <1>0, FS_Subset
<1>5. \A y \in A \cup B : g[y] \in Nat
  BY <1>4
<1> HIDE DEF A, B
<1>6. SumFunctionOnSet(g, R) = SumFunctionOnSet(g, A) + SumFunctionOnSet(g, B)
  BY <1>4, <1>5, SumUnion
<1>7. SumFunctionOnSet(g, A) \in Nat /\ SumFunctionOnSet(g, B) \in Nat
  BY <1>4, <1>5, SumType
<1>8. SumFunctionOnSet(f, S) \in Nat
  BY SumType
<1> QED BY <1>3, <1>6, <1>7, <1>8 DEF A

-----------------------------------------------------------------------------
(* Maxima, minima and subsets of a given size.                             *)

\* A finite set of integers has a largest element.
LEMMA MaxExists ==
  ASSUME NEW S, IsFiniteSet(S), S # {}, S \subseteq Int
  PROVE  \E m \in S : \A x \in S : m >= x
<1> DEFINE G == {T \in SUBSET S : T # {} => \E m \in T : \A x \in T : m >= x}
<1>1. ASSUME NEW T \in SUBSET S, \A U \in SUBSET T : U # T => U \in G PROVE T \in G
  <2>1. SUFFICES ASSUME T # {} PROVE \E m \in T : \A x \in T : m >= x
    OBVIOUS
  <2>2. PICK y \in T : TRUE
    BY <2>1
  <2>3. CASE T \ {y} = {}
    BY <2>2, <2>3
  <2>4. CASE T \ {y} # {}
    <3>1. T \ {y} \in SUBSET T /\ T \ {y} # T
      BY <2>2
    <3>2. T \ {y} \in G
      BY <1>1, <3>1
    <3>3. PICK m \in T \ {y} : \A x \in T \ {y} : m >= x
      BY <2>4, <3>2
    <3> QED BY <2>2, <3>3
  <2> QED BY <2>3, <2>4
<1>2. S \in G
  <2> HIDE DEF G
  <2>1. G \in SUBSET (SUBSET S)
    BY DEF G
  <2> QED BY <1>1, <2>1, SetInduction
<1> QED BY <1>2

\* A finite set of integers has a smallest element.
LEMMA MinExists ==
  ASSUME NEW S, IsFiniteSet(S), S # {}, S \subseteq Int
  PROVE  \E m \in S : \A x \in S : m <= x
<1> DEFINE G == {T \in SUBSET S : T # {} => \E m \in T : \A x \in T : m <= x}
<1>1. ASSUME NEW T \in SUBSET S, \A U \in SUBSET T : U # T => U \in G PROVE T \in G
  <2>1. SUFFICES ASSUME T # {} PROVE \E m \in T : \A x \in T : m <= x
    OBVIOUS
  <2>2. PICK y \in T : TRUE
    BY <2>1
  <2>3. CASE T \ {y} = {}
    BY <2>2, <2>3
  <2>4. CASE T \ {y} # {}
    <3>1. T \ {y} \in SUBSET T /\ T \ {y} # T
      BY <2>2
    <3>2. T \ {y} \in G
      BY <1>1, <3>1
    <3>3. PICK m \in T \ {y} : \A x \in T \ {y} : m <= x
      BY <2>4, <3>2
    <3> QED BY <2>2, <3>3
  <2> QED BY <2>3, <2>4
<1>2. S \in G
  <2> HIDE DEF G
  <2>1. G \in SUBSET (SUBSET S)
    BY DEF G
  <2> QED BY <1>1, <2>1, SetInduction
<1> QED BY <1>2

\* A finite set has a subset of every smaller size.
LEMMA SubsetOfSize ==
  ASSUME NEW S, IsFiniteSet(S), NEW k \in 0..Cardinality(S)
  PROVE  \E T \in SUBSET S : Cardinality(T) = k
<1> DEFINE G == {T \in SUBSET S : k <= Cardinality(T) =>
                                    \E U \in SUBSET T : Cardinality(U) = k}
<1>0. Cardinality(S) \in Nat /\ k \in Nat /\ k <= Cardinality(S)
  BY FS_CardinalityType
<1>1. ASSUME NEW T \in SUBSET S, \A U \in SUBSET T : U # T => U \in G PROVE T \in G
  <2>1. SUFFICES ASSUME k <= Cardinality(T) PROVE \E U \in SUBSET T : Cardinality(U) = k
    OBVIOUS
  <2>2. IsFiniteSet(T) /\ Cardinality(T) \in Nat
    BY FS_Subset, FS_CardinalityType
  <2>3. CASE k = Cardinality(T)
    BY <2>3
  <2>4. CASE k # Cardinality(T)
    <3>1. PICK y \in T : TRUE
      BY <1>0, <2>1, <2>2, <2>4, FS_EmptySet
    <3>2. Cardinality(T \ {y}) = Cardinality(T) - 1
      BY <2>2, <3>1, FS_RemoveElement
    <3>3. k <= Cardinality(T \ {y})
      BY <1>0, <2>1, <2>2, <2>4, <3>2
    <3>4. PICK U \in SUBSET (T \ {y}) : Cardinality(U) = k
      BY <1>1, <3>1, <3>3
    <3> QED BY <3>4
  <2> QED BY <2>3, <2>4
<1>2. S \in G
  <2> HIDE DEF G
  <2>1. G \in SUBSET (SUBSET S)
    BY DEF G
  <2> QED BY <1>1, <2>1, SetInduction
<1> QED BY <1>0, <1>2

\* If everything has one of the kinds, the kinds add up to all of it.
LEMMA SumAll ==
  ASSUME NEW f, NEW S, IsFiniteSet(S), \A x \in S : f[x] \in Nat,
         NEW kind, NEW K, IsFiniteSet(K), \A x \in S : kind[x] \in K,
         NEW c, \A k \in K : c[k] = SumFunctionOnSet(f, Class(kind, S, k))
  PROVE  SumFunctionOnSet(c, K) = SumFunctionOnSet(f, S)
<1>1. Within(kind, S, K) = S
  BY DEF Within
<1> QED BY <1>1, SumByKind

\* The same for counts.
LEMMA CountAll ==
  ASSUME NEW S, IsFiniteSet(S), NEW kind, NEW K, IsFiniteSet(K), \A x \in S : kind[x] \in K,
         NEW c, \A k \in K : c[k] = Cardinality(Class(kind, S, k))
  PROVE  SumFunctionOnSet(c, K) = Cardinality(S)
<1>1. Within(kind, S, K) = S
  BY DEF Within
<1> QED BY <1>1, CountByKind

\* The sum of a part is no greater.
LEMMA SumPart ==
  ASSUME NEW f, NEW R, IsFiniteSet(R), \A x \in R : f[x] \in Nat, NEW S \in SUBSET R
  PROVE  SumFunctionOnSet(f, S) <= SumFunctionOnSet(f, R)
<1> DEFINE B == R \ S
<1>1. R = S \cup B /\ S \cap B = {} /\ IsFiniteSet(S) /\ IsFiniteSet(B)
  BY FS_Subset
<1>2. \A x \in S \cup B : f[x] \in Nat
  BY <1>1
<1> HIDE DEF B
<1>3. SumFunctionOnSet(f, R) = SumFunctionOnSet(f, S) + SumFunctionOnSet(f, B)
  BY <1>1, <1>2, SumUnion
<1>4. SumFunctionOnSet(f, S) \in Nat /\ SumFunctionOnSet(f, B) \in Nat
  BY <1>1, <1>2, SumType
<1> QED BY <1>3, <1>4

\* SumFunction over the domain it is written with.
LEMMA SumWritten ==
  ASSUME NEW f, NEW S, DOMAIN f = S
  PROVE  SumFunction(f) = SumFunctionOnSet(f, S)
  BY DEF SumFunction

\* What a finite set is mapped onto is finite and no larger.
LEMMA FiniteImage ==
  ASSUME NEW S, IsFiniteSet(S), NEW h, NEW T, \A y \in T : \E x \in S : y = h[x]
  PROVE  IsFiniteSet(T) /\ Cardinality(T) \in Nat /\ Cardinality(T) <= Cardinality(S)
<1> DEFINE I == ImageOf(h, S)
           f == [x \in S |-> h[x]]
<1>1. f \in Surjection(S, I)
  BY DEF Surjection, ImageOf
<1>2. T \subseteq I
  BY DEF ImageOf
<1> HIDE DEF I, f
<1>3. IsFiniteSet(I) /\ Cardinality(I) <= Cardinality(S)
  BY <1>1, FS_Surjection
<1>4. IsFiniteSet(T) /\ Cardinality(T) <= Cardinality(I)
  BY <1>2, <1>3, FS_Subset
<1> QED BY <1>3, <1>4, FS_CardinalityType

-----------------------------------------------------------------------------
(* Products and quotients.                                                 *)

\* A product grows with its factors.
LEMMA ProductGrows ==
  ASSUME NEW a \in Nat, NEW b \in Nat, NEW c \in Nat, NEW d \in Nat, a <= c, b <= d
  PROVE  a * b \in Nat /\ c * d \in Nat /\ a * b <= c * d
<1>1. PICK x \in Nat : c = a + x
  <2>1. c - a \in Nat /\ c = a + (c - a)
    OBVIOUS
  <2> QED BY <2>1
<1>2. PICK y \in Nat : d = b + y
  <2>1. d - b \in Nat /\ d = b + (d - b)
    OBVIOUS
  <2> QED BY <2>1
<1>3. /\ a * b \in Nat /\ a * y \in Nat /\ x * b \in Nat /\ x * y \in Nat
      /\ (a + x) * (b + y) = a * b + a * y + x * b + x * y
  OBVIOUS
<1> QED BY <1>1, <1>2, <1>3

\* A quotient grows with what is divided.
LEMMA QuotientGrows ==
  ASSUME NEW a \in Nat, NEW b \in Nat, a <= b, NEW n \in Nat \ {0}
  PROVE  a \div n \in Nat /\ b \div n \in Nat /\ a \div n <= b \div n
<1>1. PICK p \in Nat, q \in Nat : p = a \div n /\ q = b \div n
  OBVIOUS
<1>2. n * p <= a /\ b < n * q + n
  BY <1>1
<1>3. CASE p <= q
  BY <1>1, <1>3
<1>4. CASE p > q
  <2>1. n * (q + 1) <= n * p
    BY <1>4, ProductGrows
  <2>2. n * (q + 1) = n * q + n /\ n * q \in Nat /\ n * p \in Nat
    OBVIOUS
  <2> QED BY <1>2, <2>1, <2>2
<1> QED BY <1>3, <1>4

\* Also of integers.
LEMMA IntQuotientGrows ==
  ASSUME NEW a \in Int, NEW b \in Int, a <= b, NEW n \in Nat \ {0}
  PROVE  a \div n \in Int /\ b \div n \in Int /\ a \div n <= b \div n
<1>1. PICK p \in Int, q \in Int : p = a \div n /\ q = b \div n
  OBVIOUS
<1>2. n * p <= a /\ b < n * q + n
  BY <1>1
<1>3. CASE p <= q
  BY <1>1, <1>3
<1>4. CASE p > q
  <2>1. PICK x \in Nat : p = q + 1 + x
    <3>1. p - q - 1 \in Nat /\ p = q + 1 + (p - q - 1)
      BY <1>4
    <3> QED BY <3>1
  <2>2. n * p = n * q + n + n * x /\ n * x \in Nat /\ n * q \in Int
    BY <2>1
  <2> QED BY <1>2, <2>2
<1> QED BY <1>3, <1>4

\* A square is not negative.
LEMMA SquareIs == \A x \in Int : x * x \in Nat
<1> TAKE x \in Int
<1>1. CASE x \in Nat
  BY <1>1, ProductGrows
<1>2. CASE x \notin Nat
  <2>1. PICK y \in Nat : x = -y
    <3>1. -x \in Nat /\ x = -(-x)
      BY <1>2
    <3> QED BY <3>1
  <2>2. y * y \in Nat /\ x * x = y * y
    BY <2>1, ProductGrows
  <2> QED BY <2>2
<1> QED BY <1>1, <1>2

\* A part of a thousand.
LEMMA QuotientBound ==
  ASSUME NEW a \in Nat, NEW m \in Nat, NEW n \in Nat \ {0}, a <= n
  PROVE  (a * m) \div n \in 0..m
<1>1. a * m \in Nat /\ n * m \in Nat /\ a * m <= n * m
  BY ProductGrows
<1>2. PICK p \in Nat : p = (a * m) \div n
  BY <1>1
<1>3. n * p <= a * m
  BY <1>1, <1>2
<1>4. CASE p <= m
  BY <1>2, <1>4
<1>5. CASE p > m
  <2>1. n * (m + 1) <= n * p
    BY <1>5, ProductGrows
  <2>2. n * (m + 1) = n * m + n /\ n * p \in Nat
    OBVIOUS
  <2> QED BY <1>1, <1>3, <2>1, <2>2
<1> QED BY <1>4, <1>5

\* The maximum is one of the elements.
LEMMA MaxIs ==
  ASSUME NEW S, IsFiniteSet(S), S # {}, S \subseteq Int
  PROVE  Max(S) \in S /\ \A x \in S : x <= Max(S)
<1>1. \E m \in S : \A x \in S : m >= x
  BY MaxExists
<1>2. Max(S) \in S /\ \A x \in S : Max(S) >= x
  BY <1>1 DEF Max
<1> QED BY <1>2

\* A maximum grows with the elements.
LEMMA MaxGrows ==
  ASSUME NEW S, IsFiniteSet(S), S # {}, S \subseteq Int,
         NEW R, IsFiniteSet(R), R # {}, R \subseteq Int,
         \A x \in S : \E y \in R : x <= y
  PROVE  Max(S) <= Max(R)
<1>1. Max(S) \in S
  BY MaxIs
<1>2. PICK y \in R : Max(S) <= y
  BY <1>1
<1>3. y <= Max(R) /\ Max(R) \in R
  BY MaxIs
<1>4. Max(S) \in Int /\ y \in Int /\ Max(R) \in Int
  BY <1>1, <1>3
<1> QED BY <1>2, <1>3, <1>4

\* A set of two is finite.
LEMMA TwoFinite == \A a, b : IsFiniteSet({a, b})
<1> TAKE a, b
<1>1. IsFiniteSet({a} \cup {b})
  BY FS_Singleton, FS_AddElement
<1>2. {a} \cup {b} = {a, b}
  OBVIOUS
<1> QED BY <1>1, <1>2
===============================================================================
