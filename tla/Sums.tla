--------------------------------- MODULE Sums ---------------------------------
(***************************************************************************)
(* SumFunction adds up the amounts of an order's lines, and the pieces of  *)
(* a cart.  It is defined by recursion over the subsets of the domain, and *)
(* what it returns for every function is shown by induction over them:     *)
(* an induction about a set of subsets, of which a smallest one outside    *)
(* cannot exist.                                                           *)
(***************************************************************************)
EXTENDS Naturals, FiniteSets, Functions, FiniteSetTheorems, TLAPS

\* A set of subsets that has each of which it has all smaller ones has them all.
LEMMA SubsetInduction ==
    ASSUME NEW S, IsFiniteSet(S), NEW Good,
           \A T \in SUBSET S : (\A U \in SUBSET T : U # T => U \in Good) => T \in Good
    PROVE  SUBSET S \subseteq Good
<1> DEFINE Bad == (SUBSET S) \ Good
<1> SUFFICES ASSUME Bad # {} PROVE FALSE
  OBVIOUS
<1>1. Bad \subseteq FiniteSubsetsOf(S)
  BY FS_Subset DEF FiniteSubsetsOf
<1>2. PICK T \in Bad : \A U \in Bad : <<U, T>> \notin StrictSubsetOrdering(S)
  <2>1. IsWellFoundedOn(StrictSubsetOrdering(S), FiniteSubsetsOf(S))
    BY FS_StrictSubsetOrderingWellFounded
  <2> HIDE DEF Bad
  <2> QED BY <1>1, <2>1, WFMin
<1>3. ASSUME NEW U \in SUBSET T, U # T, U \notin Good
      PROVE  FALSE
  <2>1. U \in Bad /\ T \in SUBSET S
    BY <1>2, <1>3
  <2>2. <<U, T>> \in StrictSubsetOrdering(S)
    BY <1>3, <2>1 DEF StrictSubsetOrdering
  <2> QED BY <1>2, <2>1, <2>2
<1> QED BY <1>2, <1>3

-----------------------------------------------------------------------------
Pick(s) == CHOOSE x \in s : TRUE

\* The recursion of a sum over the subsets of S.
Adds(g, f, S) == g = [s \in SUBSET S |->
                        IF s = {} THEN 0 ELSE f[Pick(s)] + g[s \ {Pick(s)}]]

Iter(f, S) == CHOOSE g : Adds(g, f, S)

LEMMA SumIsIter ==
    ASSUME NEW f
    PROVE  SumFunction(f) = Iter(f, DOMAIN f)[DOMAIN f]
BY DEF SumFunction, SumFunctionOnSet, FoldFunctionOnSet, MapThenFoldSet, Iter, Adds, Pick

LEMMA PickType ==
    ASSUME NEW s, s # {}
    PROVE  Pick(s) \in s
BY DEF Pick

\* There is a function the recursion defines: up to any number of elements, and
\* so up to those of S.
LEMMA AddsExists ==
    ASSUME NEW S, IsFiniteSet(S), NEW f \in [S -> Nat]
    PROVE  \E g : Adds(g, f, S)
<1> DEFINE Turn(g, s) == IF s = {} THEN 0 ELSE f[Pick(s)] + g[s \ {Pick(s)}]
           UpTo(g, n) == \A s \in SUBSET S : Cardinality(s) <= n => g[s] = Turn(g, s)
           Good == {T \in SUBSET S : \E g \in [SUBSET S -> Nat] : UpTo(g, Cardinality(T))}
<1>1. \A s \in SUBSET S : IsFiniteSet(s) /\ Cardinality(s) \in Nat
  BY FS_Subset, FS_CardinalityType
<1>2. \A s \in SUBSET S : s # {} => /\ Pick(s) \in s
                                    /\ s \ {Pick(s)} \in SUBSET S
                                    /\ Cardinality(s \ {Pick(s)}) = Cardinality(s) - 1
  BY <1>1, PickType, FS_RemoveElement
<1>3. \A s \in SUBSET S : Cardinality(s) = 0 <=> s = {}
  BY <1>1, FS_EmptySet
<1>4. ASSUME NEW T \in SUBSET S, \A U \in SUBSET T : U # T => U \in Good
      PROVE  T \in Good
  <2>1. CASE T = {}
    <3> DEFINE g == [s \in SUBSET S |-> 0]
    <3>1. g \in [SUBSET S -> Nat]
      OBVIOUS
    <3>2. UpTo(g, Cardinality(T))
      BY <2>1, <1>1, <1>3
    <3> HIDE DEF g, UpTo
    <3> QED BY <3>1, <3>2
  <2>2. CASE T # {}
    <3>1. PICK n \in Nat : n = Cardinality(T \ {Pick(T)}) /\ Cardinality(T) = n + 1
      BY <2>2, <1>1, <1>2
    <3>2. T \ {Pick(T)} \in Good
      BY <1>2, <1>4, <2>2
    <3>3. PICK g \in [SUBSET S -> Nat] : UpTo(g, n)
      BY <3>1, <3>2
    <3> DEFINE h == [s \in SUBSET S |-> Turn(g, s)]
    <3>4. ASSUME NEW s \in SUBSET S PROVE Turn(g, s) \in Nat
      <4>1. CASE s # {}
        <5>1. f[Pick(s)] \in Nat /\ g[s \ {Pick(s)}] \in Nat
          BY <1>2, <4>1
        <5> QED BY <4>1, <5>1
      <4> QED BY <4>1
    <3>5. h \in [SUBSET S -> Nat]
      BY <3>4
    <3>6. ASSUME NEW s \in SUBSET S, Cardinality(s) <= n + 1, s # {}
          PROVE  h[s \ {Pick(s)}] = g[s \ {Pick(s)}]
      <4>1. s \ {Pick(s)} \in SUBSET S /\ Cardinality(s \ {Pick(s)}) <= n
        BY <1>1, <1>2, <3>6
      <4>2. g[s \ {Pick(s)}] = Turn(g, s \ {Pick(s)})
        BY <3>3, <4>1
      <4> QED BY <4>1, <4>2
    <3>7. UpTo(h, n + 1)
      BY <3>6
    <3> HIDE DEF h, UpTo
    <3> QED BY <3>1, <3>5, <3>7
  <2> QED BY <2>1, <2>2
<1>5. S \in Good
  <2> HIDE DEF Good
  <2> QED BY <1>4, SubsetInduction
<1>6. PICK g \in [SUBSET S -> Nat] : UpTo(g, Cardinality(S))
  BY <1>5
<1>7. \A s \in SUBSET S : g[s] = Turn(g, s)
  BY <1>1, <1>6, FS_Subset
<1>8. g = [s \in SUBSET S |-> Turn(g, s)]
  BY <1>7
<1> QED BY <1>8 DEF Adds

\* The sum of natural numbers over a finite domain is a natural number.
THEOREM SumType ==
    ASSUME NEW S, IsFiniteSet(S), NEW f \in [S -> Nat]
    PROVE  SumFunction(f) \in Nat
<1> DEFINE g == Iter(f, S)
           Good == {T \in SUBSET S : g[T] \in Nat}
<1>1. Adds(g, f, S)
  BY AddsExists DEF Iter
<1> HIDE DEF g
<1>2. ASSUME NEW T \in SUBSET S, \A U \in SUBSET T : U # T => U \in Good
      PROVE  T \in Good
  <2>1. CASE T = {}
    BY <1>1, <2>1 DEF Adds
  <2>2. CASE T # {}
    <3>1. Pick(T) \in T /\ T \ {Pick(T)} \in Good
      BY <1>2, <2>2, PickType
    <3>2. g[T] = f[Pick(T)] + g[T \ {Pick(T)}]
      BY <1>1, <2>2 DEF Adds
    <3> QED BY <3>1, <3>2
  <2> QED BY <2>1, <2>2
<1>3. S \in Good
  <2> HIDE DEF Good
  <2> QED BY <1>2, SubsetInduction
<1> QED BY <1>3, SumIsIter DEF g
=============================================================================
