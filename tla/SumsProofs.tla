----------------------------- MODULE SumsProofs -----------------------------
(***************************************************************************)
(* What the proofs about money need of a sum over a finite set: a term     *)
(* more, a term less, a term changed.  The sum is a recursive function, so *)
(* these take an induction; it is done once, by showing that the sum of f  *)
(* over S counts the pairs <<x, i>> with x in S and i in 1..f[x], its      *)
(* units, and the rest is about cardinalities.                             *)
(***************************************************************************)
EXTENDS Sums, FiniteSetTheorems, TLAPS

Block(x, n) == {x} \X (1..n)

Units(S, f) == {u \in S \X Nat : 1 <= u[2] /\ u[2] <= f[u[1]]}

AmountsOn(S, f) == \A x \in S : f[x] \in Nat

LEMMA BlockSize ==
  ASSUME NEW x, NEW n \in Nat
  PROVE IsFiniteSet(Block(x, n)) /\ Cardinality(Block(x, n)) = n
<1> DEFINE b == [i \in 1..n |-> <<x, i>>]
<1>1. b \in Bijection(1..n, Block(x, n))
  <2>1. b \in [1..n -> Block(x, n)]
    BY DEF Block
  <2>2. \A i, j \in 1..n : b[i] = b[j] => i = j
    OBVIOUS
  <2>3. \A u \in Block(x, n) : \E i \in 1..n : b[i] = u
    <3>1. SUFFICES ASSUME NEW u \in Block(x, n) PROVE \E i \in 1..n : b[i] = u
      OBVIOUS
    <3>2. PICK i \in 1..n : u = <<x, i>>
      BY DEF Block
    <3>3. b[i] = u
      BY <3>2
    <3>4. QED BY <3>3
  <2> HIDE DEF b
  <2>4. QED BY <2>1, <2>2, <2>3 DEF Bijection, Injection, Surjection, IsInjective
<1>2. IsFiniteSet(1..n) /\ Cardinality(1..n) = n
  BY FS_Interval
<1>3. ExistsBijection(1..n, Block(x, n))
  BY <1>1 DEF ExistsBijection
<1>4. QED BY <1>2, <1>3, FS_Bijection

LEMMA UnitsSplit ==
  ASSUME NEW S, NEW x \in S, NEW f, AmountsOn(S, f)
  PROVE /\ Units(S, f) = Units(S \ {x}, f) \cup Block(x, f[x])
        /\ Units(S \ {x}, f) \cap Block(x, f[x]) = {}
BY DEF Units, Block, AmountsOn

\* A property of the finite set's subsets that {} has, and T when T less an
\* element has it, every subset has: the least counterexample has none.
LEMMA SubsetInduction ==
  ASSUME NEW S, IsFiniteSet(S), NEW Good \in SUBSET (SUBSET S),
         {} \in Good,
         \A T \in SUBSET S : (\A x \in T : T \ {x} \in Good) => T \in Good
  PROVE Good = SUBSET S
<1> DEFINE Bad == (SUBSET S) \ Good
<1>1. SUFFICES ASSUME Bad # {} PROVE FALSE
  OBVIOUS
<1>2. IsWellFoundedOn(StrictSubsetOrdering(S), SUBSET S)
  BY FS_StrictSubsetOrderingWellFounded, FS_FiniteSubsetsOfFinite
<1>3. \E T \in Bad : \A U \in Bad : ~(<<U, T>> \in StrictSubsetOrdering(S))
  BY <1>1, <1>2, WFMin
<1>4. PICK T \in Bad : \A U \in Bad : ~(<<U, T>> \in StrictSubsetOrdering(S))
  BY <1>3
<1>5. \A x \in T : T \ {x} \in Good
  <2>1. SUFFICES ASSUME NEW x \in T PROVE T \ {x} \in Good
    OBVIOUS
  <2>2. T \ {x} \in SUBSET S /\ T \ {x} \subseteq T /\ T \ {x} # T
    OBVIOUS
  <2>3. <<T \ {x}, T>> \in StrictSubsetOrdering(S)
    BY <2>2 DEF StrictSubsetOrdering
  <2>4. QED BY <1>4, <2>2, <2>3
<1>6. QED BY <1>5

LEMMA UnitsFinite ==
  ASSUME NEW S, IsFiniteSet(S), NEW f, AmountsOn(S, f)
  PROVE \A T \in SUBSET S : IsFiniteSet(Units(T, f))
<1> DEFINE Good == {T \in SUBSET S : IsFiniteSet(Units(T, f))}
<1>1. {} \in Good
  <2>1. Units({}, f) = {}
    BY DEF Units
  <2>2. QED BY <2>1, FS_EmptySet
<1>2. ASSUME NEW T \in SUBSET S, \A x \in T : T \ {x} \in Good
      PROVE T \in Good
  <2>1. CASE T = {}
    BY <1>1, <2>1
  <2>2. CASE T # {}
    <3>1. PICK x \in T : TRUE
      BY <2>2
    <3>2. Units(T, f) = Units(T \ {x}, f) \cup Block(x, f[x])
      BY UnitsSplit DEF AmountsOn
    <3>3. IsFiniteSet(Units(T \ {x}, f))
      BY <1>2
    <3>4. f[x] \in Nat
      BY DEF AmountsOn
    <3>5. IsFiniteSet(Block(x, f[x]))
      BY <3>4, BlockSize
    <3>6. QED BY <3>2, <3>3, <3>5, FS_Union
  <2>3. QED BY <2>1, <2>2
<1> HIDE DEF Good
<1>3. Good \in SUBSET (SUBSET S)
  BY DEF Good
<1>4. Good = SUBSET S
  BY <1>1, <1>2, <1>3, SubsetInduction
<1>5. QED BY <1>4 DEF Good

\* One element's units more.
LEMMA UnitsStep ==
  ASSUME NEW S, IsFiniteSet(S), NEW f, AmountsOn(S, f), NEW x \in S
  PROVE /\ Cardinality(Units(S \ {x}, f)) \in Nat
        /\ Cardinality(Units(S, f)) = f[x] + Cardinality(Units(S \ {x}, f))
<1>1. IsFiniteSet(Units(S \ {x}, f))
  BY UnitsFinite
<1>2. f[x] \in Nat
  BY DEF AmountsOn
<1>3. IsFiniteSet(Block(x, f[x])) /\ Cardinality(Block(x, f[x])) = f[x]
  BY <1>2, BlockSize
<1>4. /\ Units(S, f) = Units(S \ {x}, f) \cup Block(x, f[x])
      /\ Units(S \ {x}, f) \cap Block(x, f[x]) = {}
  BY UnitsSplit
<1>5. Cardinality(Units(S \ {x}, f)) \in Nat
  BY <1>1, FS_CardinalityType
<1>6. Cardinality(Units(S \ {x}, f) \cup Block(x, f[x]))
      = Cardinality(Units(S \ {x}, f)) + Cardinality(Block(x, f[x]))
        - Cardinality(Units(S \ {x}, f) \cap Block(x, f[x]))
  BY <1>1, <1>3, FS_Union
<1>7. Cardinality(Units(S, f))
      = Cardinality(Units(S \ {x}, f)) + Cardinality(Block(x, f[x])) - Cardinality({})
  BY <1>4, <1>6
<1>8. QED BY <1>2, <1>3, <1>5, <1>7, FS_EmptySet

\* The sum counts the units.
LEMMA SumCountsUnits ==
  ASSUME NEW S, IsFiniteSet(S), NEW f, AmountsOn(S, f)
  PROVE SumOver(S, f) = Cardinality(Units(S, f))
<1> DEFINE pick(T) == CHOOSE x \in T : TRUE
           step(g, T) == IF T = {} THEN 0 ELSE f[pick(T)] + g[T \ {pick(T)}]
           sums(g) == g = [T \in SUBSET S |-> step(g, T)]
           iter == CHOOSE g : sums(g)
           count == [T \in SUBSET S |-> Cardinality(Units(T, f))]
<1>1. SumOver(S, f) = iter[S]
  BY DEF SumOver, MapThenSumSet, MapThenFoldSet
<1>2. \A T \in SUBSET S : T # {} => pick(T) \in T /\ T \ {pick(T)} \in SUBSET S
  OBVIOUS
<1> HIDE DEF pick
<1>3. sums(count)
  <2>1. ASSUME NEW T \in SUBSET S PROVE count[T] = step(count, T)
    <3>1. CASE T = {}
      <4>1. Units({}, f) = {}
        BY DEF Units
      <4>2. QED BY <3>1, <4>1, FS_EmptySet
    <3>2. CASE T # {}
      <4>1. IsFiniteSet(T) /\ AmountsOn(T, f)
        BY FS_Subset DEF AmountsOn
      <4>2. pick(T) \in T /\ T \ {pick(T)} \in SUBSET S
        BY <1>2, <3>2
      <4>3. Cardinality(Units(T, f))
            = f[pick(T)] + Cardinality(Units(T \ {pick(T)}, f))
        BY <4>1, <4>2, UnitsStep
      <4>4. QED BY <3>2, <4>2, <4>3
    <3>3. QED BY <3>1, <3>2
  <2> HIDE DEF step
  <2>2. QED BY <2>1
<1>4. sums(iter)
  <2> HIDE DEF sums
  <2>1. QED BY <1>3
<1> HIDE DEF iter
<1> DEFINE Good == {T \in SUBSET S : iter[T] = count[T]}
<1>5. ASSUME NEW T \in SUBSET S, \A x \in T : T \ {x} \in Good
      PROVE T \in Good
  <2>1. iter[T] = step(iter, T) /\ count[T] = step(count, T)
    <3> HIDE DEF step, count
    <3>1. QED BY <1>3, <1>4
  <2>2. CASE T = {}
    BY <2>1, <2>2
  <2>3. CASE T # {}
    <3>1. T \ {pick(T)} \in Good
      BY <1>2, <1>5, <2>3
    <3>2. QED BY <2>1, <2>3, <3>1
  <2>4. QED BY <2>2, <2>3
<1>6. {} \in Good
  <2>1. {} \in SUBSET S /\ \A x \in {} : {} \ {x} \in Good
    OBVIOUS
  <2> HIDE DEF Good
  <2>2. QED BY <1>5, <2>1
<1>7. Good \in SUBSET (SUBSET S)
  OBVIOUS
<1> HIDE DEF Good
<1>8. Good = SUBSET S
  BY <1>5, <1>6, <1>7, SubsetInduction
<1>9. iter[S] = count[S]
  BY <1>8 DEF Good
<1>10. QED BY <1>1, <1>9

-----------------------------------------------------------------------------
(* What the components' proofs cite.                                         *)

LEMMA SumType ==
  ASSUME NEW S, IsFiniteSet(S), NEW f, AmountsOn(S, f)
  PROVE SumOver(S, f) \in Nat
<1>1. IsFiniteSet(Units(S, f))
  BY UnitsFinite
<1>2. QED BY <1>1, SumCountsUnits, FS_CardinalityType

LEMMA SumEmpty == ASSUME NEW f PROVE SumOver({}, f) = 0
<1>1. Units({}, f) = {} /\ AmountsOn({}, f)
  BY DEF Units, AmountsOn
<1>2. QED BY <1>1, SumCountsUnits, FS_EmptySet

LEMMA SumZero ==
  ASSUME NEW S, IsFiniteSet(S), NEW f, \A x \in S : f[x] = 0
  PROVE SumOver(S, f) = 0
<1>1. Units(S, f) = {} /\ AmountsOn(S, f)
  BY DEF Units, AmountsOn
<1>2. QED BY <1>1, SumCountsUnits, FS_EmptySet

\* A term taken out.
LEMMA SumSplit ==
  ASSUME NEW S, IsFiniteSet(S), NEW f, AmountsOn(S, f), NEW x \in S
  PROVE /\ SumOver(S \ {x}, f) \in Nat
        /\ SumOver(S, f) = f[x] + SumOver(S \ {x}, f)
<1>1. IsFiniteSet(S \ {x}) /\ AmountsOn(S \ {x}, f)
  BY FS_RemoveElement DEF AmountsOn
<1>2. /\ SumOver(S, f) = Cardinality(Units(S, f))
      /\ SumOver(S \ {x}, f) = Cardinality(Units(S \ {x}, f))
  BY <1>1, SumCountsUnits
<1>3. /\ Cardinality(Units(S \ {x}, f)) \in Nat
      /\ Cardinality(Units(S, f)) = f[x] + Cardinality(Units(S \ {x}, f))
  BY UnitsStep
<1>4. QED BY <1>2, <1>3

\* A term put in.
LEMMA SumAdd ==
  ASSUME NEW S, IsFiniteSet(S), NEW f, AmountsOn(S, f), NEW x, x \notin S, f[x] \in Nat
  PROVE SumOver(S \cup {x}, f) = SumOver(S, f) + f[x]
<1>1. IsFiniteSet(S \cup {x}) /\ AmountsOn(S \cup {x}, f)
  BY FS_AddElement DEF AmountsOn
<1>2. (S \cup {x}) \ {x} = S
  OBVIOUS
<1>3. SumOver(S, f) \in Nat
  BY SumType
<1>4. x \in S \cup {x}
  OBVIOUS
<1>5. SumOver(S \cup {x}, f) = f[x] + SumOver((S \cup {x}) \ {x}, f)
  BY <1>1, <1>4, SumSplit
<1>6. SumOver(S \cup {x}, f) = f[x] + SumOver(S, f)
  BY <1>2, <1>5
<1>7. QED BY <1>3, <1>6

\* Sums of one term and of two.
LEMMA SumOfOne ==
  ASSUME NEW f, NEW x, f[x] \in Nat
  PROVE SumOver({x}, f) = f[x]
<1>1. PICK S : S = {x}
  OBVIOUS
<1>2. IsFiniteSet(S) /\ AmountsOn(S, f) /\ x \in S /\ S \ {x} = {}
  BY <1>1, FS_Singleton DEF AmountsOn
<1>3. SumOver(S, f) = f[x] + SumOver(S \ {x}, f)
  BY <1>2, SumSplit
<1>4. SumOver(S \ {x}, f) = 0
  BY <1>2, SumEmpty
<1>5. SumOver(S, f) = f[x] + 0
  BY <1>3, <1>4
<1>6. QED BY <1>1, <1>5

LEMMA SumOfTwo ==
  ASSUME NEW f, NEW x, NEW y, x # y, f[x] \in Nat, f[y] \in Nat
  PROVE SumOver({x, y}, f) = f[x] + f[y]
<1>1. PICK S : S = {x, y}
  OBVIOUS
<1>2. IsFiniteSet(S)
  <2>1. IsFiniteSet({x}) /\ IsFiniteSet({y}) /\ S = {x} \cup {y}
    BY <1>1, FS_Singleton
  <2>2. QED BY <2>1, FS_Union
<1>3. AmountsOn(S, f) /\ x \in S /\ S \ {x} = {y}
  BY <1>1 DEF AmountsOn
<1>4. SumOver(S, f) = f[x] + SumOver(S \ {x}, f)
  BY <1>2, <1>3, SumSplit
<1>5. SumOver({y}, f) = f[y]
  BY SumOfOne
<1>6. SumOver(S, f) = f[x] + f[y]
  BY <1>3, <1>4, <1>5
<1>7. QED BY <1>1, <1>6

\* No term is more than the sum.
LEMMA SumBoundsTerm ==
  ASSUME NEW S, IsFiniteSet(S), NEW f, AmountsOn(S, f), NEW x \in S
  PROVE f[x] <= SumOver(S, f)
<1>1. f[x] \in Nat
  BY DEF AmountsOn
<1>2. SumOver(S \ {x}, f) \in Nat /\ SumOver(S, f) = f[x] + SumOver(S \ {x}, f)
  BY SumSplit
<1>3. QED BY <1>1, <1>2

\* The sum reads f on S only.
LEMMA SumSame ==
  ASSUME NEW S, IsFiniteSet(S), NEW f, NEW g, AmountsOn(S, f),
         \A x \in S : g[x] = f[x]
  PROVE SumOver(S, g) = SumOver(S, f)
<1>1. Units(S, g) = Units(S, f)
  BY DEF Units
<1>2. AmountsOn(S, g)
  BY DEF AmountsOn
<1>3. QED BY <1>1, <1>2, SumCountsUnits

\* One term changed.
LEMMA SumChange ==
  ASSUME NEW S, IsFiniteSet(S), NEW f, NEW g, AmountsOn(S, f), NEW x \in S,
         g[x] \in Nat, \A y \in S \ {x} : g[y] = f[y]
  PROVE SumOver(S, g) = SumOver(S, f) - f[x] + g[x]
<1>1. IsFiniteSet(S \ {x}) /\ AmountsOn(S \ {x}, f) /\ AmountsOn(S, g)
  BY FS_RemoveElement DEF AmountsOn
<1>2. SumOver(S \ {x}, g) = SumOver(S \ {x}, f)
  BY <1>1, SumSame
<1>3. /\ SumOver(S, f) = f[x] + SumOver(S \ {x}, f)
      /\ SumOver(S, g) = g[x] + SumOver(S \ {x}, g)
      /\ SumOver(S \ {x}, f) \in Nat /\ f[x] \in Nat
  BY <1>1, SumSplit DEF AmountsOn
<1>4. QED BY <1>2, <1>3

\* g is f with one term raised, which may not be among those summed.
Raised(S, f, g, x, d) == \A y \in S : g[y] = f[y] + (IF y = x THEN d ELSE 0)

LEMMA SumRaised ==
  ASSUME NEW S, IsFiniteSet(S), NEW f, NEW g, AmountsOn(S, f), NEW x, NEW d \in Nat,
         Raised(S, f, g, x, d)
  PROVE /\ x \in S => SumOver(S, g) = SumOver(S, f) + d
        /\ x \notin S => SumOver(S, g) = SumOver(S, f)
<1>1. SumOver(S, f) \in Nat
  BY SumType
<1>2. \A y \in S \ {x} : g[y] = f[y]
  BY DEF AmountsOn, Raised
<1>3. CASE x \in S
  <2>1. f[x] \in Nat /\ g[x] = f[x] + d
    BY <1>3 DEF AmountsOn, Raised
  <2>2. SumOver(S, g) = SumOver(S, f) - f[x] + g[x]
    BY <1>2, <1>3, <2>1, SumChange
  <2>3. QED BY <1>1, <1>3, <2>1, <2>2
<1>4. CASE x \notin S
  <2>1. SumOver(S, g) = SumOver(S, f)
    BY <1>2, <1>4, SumSame
  <2>2. QED BY <1>1, <1>4, <2>1
<1>5. QED BY <1>3, <1>4
=============================================================================
