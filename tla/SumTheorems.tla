----------------------------- MODULE SumTheorems -----------------------------
(***************************************************************************)
(* What the ledgers' arithmetic rests on: facts about SumFunctionOnSet of   *)
(* the community modules, for sums of integers over a finite set.  The sum  *)
(* is a recursive function on the subsets of the index set, so it has to be *)
(* shown to exist before anything can be said of it.  The inductions are    *)
(* stated on a set Good of index sets, which is a comprehension wherever    *)
(* they are used.                                                           *)
(***************************************************************************)
EXTENDS Functions, FiniteSetTheorems, TLAPS

\* The element that the fold takes out of s first.
Picked(s) == CHOOSE x \in s : TRUE

\* g is the recursive function of the fold, for the subsets of S.
IsSum(g, f, S) ==
  g = [s \in SUBSET S |-> IF s = {} THEN 0 ELSE f[Picked(s)] + g[s \ {Picked(s)}]]

\* The recursive function as the fold refers to it.
SumUpTo(f, S) == CHOOSE g : IsSum(g, f, S)

-----------------------------------------------------------------------------
\* Induction over the subsets of a finite set.
LEMMA SubsetInduction ==
  ASSUME NEW S, IsFiniteSet(S), NEW Good,
         \A s \in SUBSET S : (\A t \in SUBSET s : t # s => t \in Good) => s \in Good
  PROVE  S \in Good
<1> DEFINE R   == StrictSubsetOrdering(S)
           Bad == {s \in SUBSET S : s \notin Good}
<1>1. IsWellFoundedOn(R, SUBSET S)
  BY FS_StrictSubsetOrderingWellFounded, FS_FiniteSubsetsOfFinite
<1>2. SUFFICES ASSUME Bad # {} PROVE FALSE
  OBVIOUS
<1>3. Bad \subseteq SUBSET S
  OBVIOUS
<1> HIDE DEF R
<1>4. PICK s \in Bad : \A t \in Bad : <<t, s>> \notin R
  <2> HIDE DEF Bad
  <2> QED BY <1>1, <1>2, <1>3, WFMin
<1>5. ASSUME NEW t \in SUBSET s, t # s PROVE t \in Good
  <2>1. <<t, s>> \in R
    BY <1>5 DEF R, StrictSubsetOrdering
  <2> QED BY <2>1, <1>4
<1> QED BY <1>4, <1>5

\* The element the fold takes out is one of the set's.
LEMMA PickedIn ==
  ASSUME NEW s, s # {}
  PROVE  Picked(s) \in s
BY DEF Picked

\* Two such functions agree on the finite sets they share.
LEMMA SumUnique ==
  ASSUME NEW f, NEW g, NEW h, NEW S, NEW T, IsSum(g, f, S), IsSum(h, f, T),
         NEW U, IsFiniteSet(U), U \subseteq S, U \subseteq T
  PROVE  g[U] = h[U]
<1> DEFINE Good == {s \in SUBSET U : g[s] = h[s]}
<1>1. ASSUME NEW s \in SUBSET U, \A t \in SUBSET s : t # s => t \in Good
      PROVE  s \in Good
  <2>1. s \in SUBSET S /\ s \in SUBSET T
    OBVIOUS
  <2>2. /\ g[s] = IF s = {} THEN 0 ELSE f[Picked(s)] + g[s \ {Picked(s)}]
        /\ h[s] = IF s = {} THEN 0 ELSE f[Picked(s)] + h[s \ {Picked(s)}]
    BY <2>1 DEF IsSum
  <2>3. CASE s = {}
    BY <2>2, <2>3
  <2>4. CASE s # {}
    <3>1. s \ {Picked(s)} \in SUBSET s /\ s \ {Picked(s)} # s
      BY <2>4, PickedIn
    <3> QED BY <1>1, <2>2, <2>4, <3>1
  <2> QED BY <2>3, <2>4
<1>2. U \in Good
  <2> HIDE DEF Good
  <2> QED BY <1>1, SubsetInduction
<1> QED BY <1>2

\* The recursive function exists for a finite set.
LEMMA SumExists ==
  ASSUME NEW f, NEW S, IsFiniteSet(S)
  PROVE  IsSum(SumUpTo(f, S), f, S)
<1> DEFINE Good == {s \in SUBSET S : \E g : IsSum(g, f, s)}
<1>1. ASSUME NEW s \in SUBSET S, \A t \in SUBSET s : t # s => t \in Good
      PROVE  s \in Good
  <2> DEFINE V(t)   == SumUpTo(f, t)[t]
             Top    == IF s = {} THEN 0 ELSE f[Picked(s)] + V(s \ {Picked(s)})
             g      == [t \in SUBSET s |-> IF t = s THEN Top ELSE V(t)]
  <2>1. ASSUME NEW t \in SUBSET s, t # s
        PROVE  IsSum(SumUpTo(f, t), f, t)
    <3>1. \E k : IsSum(k, f, t)
      BY <1>1, <2>1
    <3> QED BY <3>1 DEF SumUpTo
  <2>2. ASSUME NEW t \in SUBSET s
        PROVE  g[t] = IF t = {} THEN 0 ELSE f[Picked(t)] + g[t \ {Picked(t)}]
    <3>1. CASE t = s
      <4>1. CASE s = {}
        BY <3>1, <4>1
      <4>2. CASE s # {}
        <5>1. s \ {Picked(s)} \in SUBSET s /\ s \ {Picked(s)} # s
          BY <4>2, PickedIn
        <5>2. g[s \ {Picked(s)}] = V(s \ {Picked(s)})
          BY <5>1
        <5> QED BY <3>1, <4>2, <5>2
      <4> QED BY <4>1, <4>2
    <3>2. CASE t # s
      <4>1. g[t] = V(t)
        BY <3>2
      <4> DEFINE k == SumUpTo(f, t)
      <4>2. IsSum(k, f, t)
        BY <2>1, <3>2
      <4>3. k[t] = IF t = {} THEN 0 ELSE f[Picked(t)] + k[t \ {Picked(t)}]
        <5> HIDE DEF k
        <5> QED BY <4>2 DEF IsSum
      <4>4. CASE t = {}
        BY <4>1, <4>3, <4>4
      <4>5. CASE t # {}
        <5> DEFINE u == t \ {Picked(t)}
        <5>1. u \in SUBSET t /\ u \in SUBSET s /\ u # s /\ u # t
          BY <4>5, PickedIn
        <5>2. IsSum(SumUpTo(f, u), f, u) /\ g[u] = V(u)
          BY <5>1, <2>1
        <5>3. IsFiniteSet(u)
          BY <5>1, FS_Subset
        <5>4. k[u] = SumUpTo(f, u)[u]
          <6> HIDE DEF u, k
          <6> QED BY <5>1, <5>2, <5>3, <4>2, SumUnique
        <5> QED BY <4>1, <4>3, <4>5, <5>2, <5>4
      <4> QED BY <4>4, <4>5
    <3> QED BY <3>1, <3>2
  <2>3. IsSum(g, f, s)
    <3>1. g = [t \in SUBSET s |-> g[t]]
      OBVIOUS
    <3>2. g = [t \in SUBSET s |-> IF t = {} THEN 0 ELSE f[Picked(t)] + g[t \ {Picked(t)}]]
      <4> HIDE DEF g
      <4> QED BY <3>1, <2>2
    <3> HIDE DEF g
    <3> QED BY <3>2 DEF IsSum
  <2> HIDE DEF g
  <2> QED BY <2>3
<1>2. S \in Good
  <2> HIDE DEF Good
  <2> QED BY <1>1, SubsetInduction
<1>3. \E g : IsSum(g, f, S)
  BY <1>2
<1> QED BY <1>3 DEF SumUpTo

-----------------------------------------------------------------------------
\* The sum is what the recursive function yields.
LEMMA SumIsFold ==
  ASSUME NEW f, NEW S
  PROVE  SumFunctionOnSet(f, S) = SumUpTo(f, S)[S]
BY DEF SumFunctionOnSet, FoldFunctionOnSet, MapThenFoldSet, SumUpTo, IsSum, Picked

\* The recursion that the fold stands for.
LEMMA SumRecursion ==
  ASSUME NEW f, NEW S, IsFiniteSet(S)
  PROVE  SumFunctionOnSet(f, S) =
           IF S = {} THEN 0 ELSE f[Picked(S)] + SumFunctionOnSet(f, S \ {Picked(S)})
<1> DEFINE g == SumUpTo(f, S)
           T == S \ {Picked(S)}
<1>1. IsSum(g, f, S)
  BY SumExists
<1>2. g[S] = IF S = {} THEN 0 ELSE f[Picked(S)] + g[T]
  <2> HIDE DEF g
  <2> QED BY <1>1 DEF IsSum
<1>3. IsFiniteSet(T) /\ T \subseteq S
  BY FS_Subset
<1>4. IsSum(SumUpTo(f, T), f, T)
  BY <1>3, SumExists
<1>5. g[T] = SumUpTo(f, T)[T]
  <2> HIDE DEF g, T
  <2> QED BY <1>1, <1>3, <1>4, SumUnique
<1> QED BY <1>2, <1>5, SumIsFold

-----------------------------------------------------------------------------
(* What the ledgers' proofs cite. *)

\* An empty sum is 0.
LEMMA SumOfNothing ==
  ASSUME NEW f
  PROVE  SumFunctionOnSet(f, {}) = 0
BY SumRecursion, FS_EmptySet

\* A sum looks at the terms it adds and at nothing else.
LEMMA SumSameTerms ==
  ASSUME NEW S, IsFiniteSet(S), NEW f, NEW g, \A x \in S : f[x] = g[x]
  PROVE  SumFunctionOnSet(f, S) = SumFunctionOnSet(g, S)
<1> DEFINE Good == {s \in SUBSET S : SumFunctionOnSet(f, s) = SumFunctionOnSet(g, s)}
<1>1. ASSUME NEW s \in SUBSET S, \A t \in SUBSET s : t # s => t \in Good
      PROVE  s \in Good
  <2>1. IsFiniteSet(s)
    BY FS_Subset
  <2>2. CASE s = {}
    BY <2>2, SumOfNothing
  <2>3. CASE s # {}
    <3>1. Picked(s) \in s /\ s \ {Picked(s)} \in Good
      BY <1>1, <2>3, PickedIn
    <3>2. f[Picked(s)] = g[Picked(s)]
      BY <3>1
    <3> QED BY <2>1, <2>3, <3>1, <3>2, SumRecursion
  <2> QED BY <2>2, <2>3
<1>2. S \in Good
  <2> HIDE DEF Good
  <2> QED BY <1>1, SubsetInduction
<1> QED BY <1>2

\* A sum of integers is an integer.
LEMMA SumType ==
  ASSUME NEW S, IsFiniteSet(S), NEW f, \A x \in S : f[x] \in Int
  PROVE  SumFunctionOnSet(f, S) \in Int
<1> DEFINE Good == {s \in SUBSET S : SumFunctionOnSet(f, s) \in Int}
<1>1. ASSUME NEW s \in SUBSET S, \A t \in SUBSET s : t # s => t \in Good
      PROVE  s \in Good
  <2>1. IsFiniteSet(s)
    BY FS_Subset
  <2>2. CASE s = {}
    BY <2>2, SumOfNothing
  <2>3. CASE s # {}
    <3>1. Picked(s) \in s /\ s \ {Picked(s)} \in Good
      BY <1>1, <2>3, PickedIn
    <3>2. f[Picked(s)] \in Int /\ SumFunctionOnSet(f, s \ {Picked(s)}) \in Int
      BY <3>1
    <3>3. f[Picked(s)] + SumFunctionOnSet(f, s \ {Picked(s)}) \in Int
      BY <3>2
    <3> QED BY <2>1, <2>3, <3>3, SumRecursion
  <2> QED BY <2>2, <2>3
<1>2. S \in Good
  <2> HIDE DEF Good
  <2> QED BY <1>1, SubsetInduction
<1> QED BY <1>2

\* Any term may be taken out, not only the one that the fold picks.
LEMMA SumTakeOut ==
  ASSUME NEW S, IsFiniteSet(S), NEW f, \A x \in S : f[x] \in Int, NEW y \in S
  PROVE  SumFunctionOnSet(f, S) = f[y] + SumFunctionOnSet(f, S \ {y})
<1> DEFINE Good == {s \in SUBSET S : \A z \in s :
                      SumFunctionOnSet(f, s) = f[z] + SumFunctionOnSet(f, s \ {z})}
<1>1. ASSUME NEW s \in SUBSET S, \A t \in SUBSET s : t # s => t \in Good,
             NEW z \in s
      PROVE  SumFunctionOnSet(f, s) = f[z] + SumFunctionOnSet(f, s \ {z})
  <2> DEFINE p == Picked(s)
  <2>1. IsFiniteSet(s) /\ p \in s
    BY FS_Subset, PickedIn
  <2>2. SumFunctionOnSet(f, s) = f[p] + SumFunctionOnSet(f, s \ {p})
    BY <2>1, SumRecursion
  <2> HIDE DEF p
  <2>3. CASE z = p
    BY <2>2, <2>3
  <2>4. CASE z # p
    <3> DEFINE rest == s \ {p, z}
    <3>1. s \ {p} \in Good /\ s \ {z} \in Good
      BY <1>1, <2>1
    <3>2. SumFunctionOnSet(f, s \ {p}) = f[z] + SumFunctionOnSet(f, (s \ {p}) \ {z})
      BY <3>1, <2>4
    <3>3. SumFunctionOnSet(f, s \ {z}) = f[p] + SumFunctionOnSet(f, (s \ {z}) \ {p})
      BY <3>1, <2>1, <2>4
    <3>4. (s \ {p}) \ {z} = rest /\ (s \ {z}) \ {p} = rest
      OBVIOUS
    <3>5. IsFiniteSet(rest) /\ \A x \in rest : f[x] \in Int
      BY FS_Subset
    <3> HIDE DEF rest
    <3>6. SumFunctionOnSet(f, rest) \in Int
      BY <3>5, SumType
    <3>7. f[p] \in Int /\ f[z] \in Int
      BY <2>1
    <3>8. /\ SumFunctionOnSet(f, s) = f[p] + (f[z] + SumFunctionOnSet(f, rest))
          /\ SumFunctionOnSet(f, s \ {z}) = f[p] + SumFunctionOnSet(f, rest)
      BY <2>2, <3>2, <3>3, <3>4
    <3> QED BY ONLY <3>6, <3>7, <3>8
  <2> QED BY <2>3, <2>4
<1>2. S \in Good
  <2>1. ASSUME NEW s \in SUBSET S, \A t \in SUBSET s : t # s => t \in Good
        PROVE  s \in Good
    BY <1>1, <2>1
  <2> HIDE DEF Good
  <2> QED BY <2>1, SubsetInduction
<1> QED BY <1>2

\* One more index adds its term.
LEMMA SumPutIn ==
  ASSUME NEW S, IsFiniteSet(S), NEW f, NEW y, y \notin S,
         \A x \in S \union {y} : f[x] \in Int
  PROVE  SumFunctionOnSet(f, S \union {y}) = f[y] + SumFunctionOnSet(f, S)
<1>1. IsFiniteSet(S \union {y})
  BY FS_AddElement
<1>2. (S \union {y}) \ {y} = S
  OBVIOUS
<1> QED BY <1>1, <1>2, SumTakeOut

\* One more index, and with it a function that agrees with the old one where that was
\* summed up: what a table does when a row is added to it.
LEMMA SumNewIndex ==
  ASSUME NEW S, IsFiniteSet(S), NEW y, y \notin S, NEW f, NEW g, g[y] \in Int,
         \A x \in S : f[x] \in Int /\ g[x] = f[x]
  PROVE  SumFunctionOnSet(g, S \union {y}) = g[y] + SumFunctionOnSet(f, S)
<1>1. SumFunctionOnSet(g, S \union {y}) = g[y] + SumFunctionOnSet(g, S)
  BY SumPutIn
<1>2. SumFunctionOnSet(g, S) = SumFunctionOnSet(f, S)
  BY SumSameTerms
<1> QED BY <1>1, <1>2

\* Two functions that differ in one term.
LEMMA SumChangeOne ==
  ASSUME NEW S, IsFiniteSet(S), NEW f, NEW g, NEW y \in S,
         \A x \in S : f[x] \in Int /\ g[x] \in Int,
         \A x \in S \ {y} : f[x] = g[x]
  PROVE  SumFunctionOnSet(g, S) = SumFunctionOnSet(f, S) - f[y] + g[y]
<1> DEFINE T == S \ {y}
<1>1. IsFiniteSet(T)
  BY FS_Subset
<1>2. /\ SumFunctionOnSet(f, S) = f[y] + SumFunctionOnSet(f, T)
      /\ SumFunctionOnSet(g, S) = g[y] + SumFunctionOnSet(g, T)
  BY SumTakeOut
<1>3. SumFunctionOnSet(f, T) = SumFunctionOnSet(g, T)
  BY <1>1, SumSameTerms
<1>4. SumFunctionOnSet(f, T) \in Int
  BY <1>1, SumType
<1> HIDE DEF T
<1> QED BY <1>2, <1>3, <1>4

\* Sums are added term by term.
LEMMA SumOfSums ==
  ASSUME NEW S, IsFiniteSet(S), NEW f, NEW g, NEW h,
         \A x \in S : f[x] \in Int /\ g[x] \in Int /\ h[x] = f[x] + g[x]
  PROVE  SumFunctionOnSet(h, S) = SumFunctionOnSet(f, S) + SumFunctionOnSet(g, S)
<1> DEFINE Good == {s \in SUBSET S :
                      SumFunctionOnSet(h, s)
                        = SumFunctionOnSet(f, s) + SumFunctionOnSet(g, s)}
<1>1. ASSUME NEW s \in SUBSET S, \A t \in SUBSET s : t # s => t \in Good
      PROVE  s \in Good
  <2>1. IsFiniteSet(s)
    BY FS_Subset
  <2>2. CASE s = {}
    BY <2>2, SumOfNothing
  <2>3. CASE s # {}
    <3> DEFINE p == Picked(s)
               t == s \ {p}
    <3>1. p \in s /\ t \in Good
      BY <1>1, <2>3, PickedIn
    <3>2. /\ SumFunctionOnSet(f, s) = f[p] + SumFunctionOnSet(f, t)
          /\ SumFunctionOnSet(g, s) = g[p] + SumFunctionOnSet(g, t)
          /\ SumFunctionOnSet(h, s) = h[p] + SumFunctionOnSet(h, t)
      BY <2>1, <2>3, SumRecursion
    <3>3. SumFunctionOnSet(h, t) = SumFunctionOnSet(f, t) + SumFunctionOnSet(g, t)
      BY <3>1
    <3>4. IsFiniteSet(t) /\ \A x \in t : f[x] \in Int /\ g[x] \in Int
      BY FS_Subset
    <3>5. SumFunctionOnSet(f, t) \in Int /\ SumFunctionOnSet(g, t) \in Int
      <4> HIDE DEF t
      <4> QED BY <3>4, SumType
    <3>6. f[p] \in Int /\ g[p] \in Int /\ h[p] = f[p] + g[p]
      BY <3>1
    <3>7. SumFunctionOnSet(h, s) = SumFunctionOnSet(f, s) + SumFunctionOnSet(g, s)
      <4> HIDE DEF t, p
      <4> QED BY ONLY <3>2, <3>3, <3>5, <3>6
    <3> QED BY <3>7
  <2> QED BY <2>2, <2>3
<1>2. S \in Good
  <2> HIDE DEF Good
  <2> QED BY <1>1, SubsetInduction
<1> QED BY <1>2

\* A sum of zeros is 0.
LEMMA SumOfZeros ==
  ASSUME NEW S, IsFiniteSet(S), NEW f, \A x \in S : f[x] = 0
  PROVE  SumFunctionOnSet(f, S) = 0
<1> DEFINE Good == {s \in SUBSET S : SumFunctionOnSet(f, s) = 0}
<1>1. ASSUME NEW s \in SUBSET S, \A t \in SUBSET s : t # s => t \in Good
      PROVE  s \in Good
  <2>1. IsFiniteSet(s)
    BY FS_Subset
  <2>2. CASE s = {}
    BY <2>2, SumOfNothing
  <2>3. CASE s # {}
    <3>1. Picked(s) \in s /\ s \ {Picked(s)} \in Good
      BY <1>1, <2>3, PickedIn
    <3> QED BY <2>1, <2>3, <3>1, SumRecursion
  <2> QED BY <2>2, <2>3
<1>2. S \in Good
  <2> HIDE DEF Good
  <2> QED BY <1>1, SubsetInduction
<1> QED BY <1>2

\* A sum of natural numbers is a natural number.
LEMMA SumNonNegative ==
  ASSUME NEW S, IsFiniteSet(S), NEW f, \A x \in S : f[x] \in Nat
  PROVE  SumFunctionOnSet(f, S) \in Nat
<1> DEFINE Good == {s \in SUBSET S : SumFunctionOnSet(f, s) \in Nat}
<1>1. ASSUME NEW s \in SUBSET S, \A t \in SUBSET s : t # s => t \in Good
      PROVE  s \in Good
  <2>1. IsFiniteSet(s)
    BY FS_Subset
  <2>2. CASE s = {}
    BY <2>2, SumOfNothing
  <2>3. CASE s # {}
    <3>1. Picked(s) \in s /\ s \ {Picked(s)} \in Good
      BY <1>1, <2>3, PickedIn
    <3>2. f[Picked(s)] \in Nat /\ SumFunctionOnSet(f, s \ {Picked(s)}) \in Nat
      BY <3>1
    <3>3. f[Picked(s)] + SumFunctionOnSet(f, s \ {Picked(s)}) \in Nat
      BY <3>2
    <3> QED BY <2>1, <2>3, <3>3, SumRecursion
  <2> QED BY <2>2, <2>3
<1>2. S \in Good
  <2> HIDE DEF Good
  <2> QED BY <1>1, SubsetInduction
<1> QED BY <1>2

\* Terms of at most b make a sum of at most as many times b.
LEMMA SumAtMost ==
  ASSUME NEW S, IsFiniteSet(S), NEW f, NEW b \in Int,
         \A x \in S : f[x] \in Int /\ f[x] <= b
  PROVE  SumFunctionOnSet(f, S) <= Cardinality(S) * b
<1> DEFINE Good == {s \in SUBSET S : SumFunctionOnSet(f, s) <= Cardinality(s) * b}
<1>1. ASSUME NEW s \in SUBSET S, \A t \in SUBSET s : t # s => t \in Good
      PROVE  s \in Good
  <2>1. IsFiniteSet(s)
    BY FS_Subset
  <2>2. CASE s = {}
    BY <2>2, SumOfNothing, FS_EmptySet
  <2>3. CASE s # {}
    <3> DEFINE p == Picked(s)
               t == s \ {p}
    <3>1. p \in s /\ t \in Good
      BY <1>1, <2>3, PickedIn
    <3>2. SumFunctionOnSet(f, s) = f[p] + SumFunctionOnSet(f, t)
      BY <2>1, <2>3, SumRecursion
    <3>3. /\ Cardinality(s) \in Nat /\ Cardinality(t) \in Nat
          /\ Cardinality(s) = Cardinality(t) + 1
      <4>1. IsFiniteSet(t) /\ Cardinality(t) = Cardinality(s) - 1
        BY <2>1, <3>1, FS_RemoveElement
      <4>2. Cardinality(s) \in Nat /\ Cardinality(t) \in Nat
        BY <2>1, <4>1, FS_CardinalityType
      <4> QED BY <4>1, <4>2
    <3>4. \A k \in Nat : (k + 1) * b = k * b + b /\ k * b \in Int
      BY SMT
    <3>5. IsFiniteSet(t) /\ \A x \in t : f[x] \in Int
      BY FS_Subset
    <3>6. SumFunctionOnSet(f, t) \in Int
      <4> HIDE DEF t
      <4> QED BY <3>5, SumType
    <3>7. f[p] \in Int /\ f[p] <= b /\ SumFunctionOnSet(f, t) <= Cardinality(t) * b
      BY <3>1
    <3>8. Cardinality(s) * b = Cardinality(t) * b + b /\ Cardinality(t) * b \in Int
      BY <3>3, <3>4
    <3>9. SumFunctionOnSet(f, s) <= Cardinality(s) * b
      <4> HIDE DEF t, p
      <4> QED BY ONLY <3>2, <3>6, <3>7, <3>8
    <3> QED BY <3>9
  <2> QED BY <2>2, <2>3
<1>2. S \in Good
  <2> HIDE DEF Good
  <2> QED BY <1>1, SubsetInduction
<1> QED BY <1>2
=============================================================================
