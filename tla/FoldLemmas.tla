----------------------------- MODULE FoldLemmas -----------------------------
(***************************************************************************)
(* What the folds of the models compute: the sums of amounts behind the    *)
(* totals of a budget, and that a step can be repeated.  The induction     *)
(* over a number goes through SetInduction, which states the property as   *)
(* the set of the numbers that have it and follows from the least member   *)
(* of what is left.                                                        *)
(***************************************************************************)
EXTENDS Integers, FiniteSets, FiniteSetsExt, FiniteSetTheorems, WellFoundedInduction, TLAPS

\* Every non-empty set of natural numbers has a least element.
LEMMA LeastNumber ==
    ASSUME NEW T \in SUBSET Nat, T # {}
    PROVE  \E x \in T : \A y \in T : x <= y
<1>1. IsWellFoundedOn(OpToRel(<, Nat), Nat)
  BY NatLessThanWellFounded
<1>2. \A x, y \in Nat : x < y => <<x, y>> \in OpToRel(<, Nat)
  BY DEF OpToRel
<1>3. PICK R : R = OpToRel(<, Nat)
  OBVIOUS
<1>4. \A x, y \in Nat : x < y => <<x, y>> \in R
  BY <1>2, <1>3
<1>5. IsWellFoundedOn(R, Nat)
  BY <1>1, <1>3
<1>6. \E x \in T : \A y \in T : ~ (<<y, x>> \in R)
  BY <1>5, WFMin
<1>7. \A x, y \in Nat : ~(y < x) => x <= y
  OBVIOUS
<1>8. \A x \in T : x \in Nat
  OBVIOUS
<1> QED BY <1>4, <1>6, <1>7, <1>8

\* Induction, for a property given as the set of numbers that have it.
LEMMA SetInduction ==
    ASSUME NEW S, 0 \in S, \A n \in Nat : n \in S => n + 1 \in S
    PROVE  Nat \subseteq S
<1> SUFFICES ASSUME Nat \ S # {} PROVE FALSE
  OBVIOUS
<1>1. PICK x \in Nat \ S : \A y \in Nat \ S : x <= y
  BY LeastNumber
<1>2. x # 0 /\ x - 1 \in Nat
  BY <1>1
<1>3. x - 1 \in S
  BY <1>1, <1>2
<1>4. x - 1 + 1 \in S
  BY <1>2, <1>3
<1> QED BY <1>1, <1>4

\* f starts at a and takes a step at each of the places up to n.
Iterates(f, a, step, n) == f[0] = a /\ \A j \in 1 .. n : f[j] = step[f[j - 1]]

\* A step of a set into itself can be repeated from any member of it.
LEMMA IterationExists ==
    ASSUME NEW S, NEW a \in S, NEW step \in [S -> S], NEW n \in Nat
    PROVE  \E f \in [0 .. n -> S] : Iterates(f, a, step, n)
<1> USE DEF Iterates
<1> DEFINE K == {k \in Nat : \E f \in [0 .. k -> S] : Iterates(f, a, step, k)}
<1>1. 0 \in K
  <2>1. PICK f : f = [j \in 0 .. 0 |-> a]
    OBVIOUS
  <2>2. f \in [0 .. 0 -> S] /\ Iterates(f, a, step, 0)
    BY <2>1
  <2> QED BY <2>2
<1>2. ASSUME NEW k \in Nat, k \in K PROVE k + 1 \in K
  <2>1. PICK f \in [0 .. k -> S] : Iterates(f, a, step, k)
    BY <1>2
  <2>2. PICK g : g = [j \in 0 .. k + 1 |-> IF j <= k THEN f[j] ELSE step[f[k]]]
    OBVIOUS
  <2>3. f[k] \in S /\ step[f[k]] \in S
    OBVIOUS
  <2>4. g \in [0 .. k + 1 -> S]
    BY <2>2, <2>3
  <2>5. ASSUME NEW j \in 1 .. k + 1 PROVE g[j] = step[g[j - 1]]
    <3>1. g[j - 1] = f[j - 1]
      BY <2>2
    <3>2. CASE j <= k
      BY <2>1, <2>2, <3>1, <3>2
    <3>3. CASE j = k + 1
      BY <2>2, <3>1, <3>3
    <3> QED BY <3>2, <3>3
  <2>6. g[0] = a
    BY <2>1, <2>2
  <2> QED BY <2>4, <2>5, <2>6
<1> HIDE DEF K
<1>3. n \in K
  BY <1>1, <1>2, SetInduction
<1> QED BY <1>3 DEF K

-----------------------------------------------------------------------------

\* The amounts of the entries S of l, added up.
AmountSum(l, S) == MapThenSumSet(LAMBDA n : l[n].amount, S)

Chosen(s) == CHOOSE x \in s : TRUE

\* g adds up the amounts of the subsets of S, as the fold does.
Adds(l, S, g) ==
    g = [s \in SUBSET S |-> IF s = {} THEN 0 ELSE l[Chosen(s)].amount + g[s \ {Chosen(s)}]]

\* The sum is the value of the fold's function at the whole set.
LEMMA SumIsChosen ==
    ASSUME NEW l, NEW S
    PROVE  AmountSum(l, S) = (CHOOSE g : Adds(l, S, g))[S]
BY DEF AmountSum, MapThenSumSet, MapThenFoldSet, Adds, Chosen

\* What is chosen from a set is in it.
LEMMA ChosenIsMember == ASSUME NEW s, s # {} PROVE Chosen(s) \in s
BY DEF Chosen

\* A member taken out makes the set one smaller.
LEMMA OneLess ==
    ASSUME NEW S, IsFiniteSet(S), NEW x \in S
    PROVE  /\ IsFiniteSet(S \ {x})
           /\ Cardinality(S) \in Nat /\ Cardinality(S) > 0
           /\ Cardinality(S \ {x}) \in Nat
           /\ Cardinality(S \ {x}) = Cardinality(S) - 1
<1>1. IsFiniteSet(S \ {x}) /\ Cardinality(S \ {x}) = Cardinality(S) - 1
  BY FS_RemoveElement
<1>2. Cardinality(S) \in Nat /\ Cardinality(S \ {x}) \in Nat
  BY <1>1, FS_CardinalityType
<1> QED BY <1>1, <1>2

AddStep(l, g, s) == IF s = {} THEN 0 ELSE l[Chosen(s)].amount + g[s \ {Chosen(s)}]

\* There is a function that adds up as the fold does.
LEMMA SumExists ==
    ASSUME NEW l, NEW S, IsFiniteSet(S)
    PROVE  \E g : Adds(l, S, g)
<1> DEFINE Right(g, k) == \A s \in SUBSET S : Cardinality(s) <= k => g[s] = AddStep(l, g, s)
           K == {k \in Nat : \E g : Right(g, k)}
<1>0. \A s \in SUBSET S : IsFiniteSet(s) /\ Cardinality(s) \in Nat
  BY FS_Subset, FS_CardinalityType
<1>1. 0 \in K
  <2>1. PICK g : g = [s \in SUBSET S |-> 0]
    OBVIOUS
  <2>2. \A s \in SUBSET S : Cardinality(s) <= 0 => s = {}
    BY <1>0, FS_EmptySet
  <2> QED BY <2>1, <2>2 DEF AddStep
<1>2. ASSUME NEW n \in Nat, n \in K PROVE n + 1 \in K
  <2>1. PICK g : Right(g, n)
    BY <1>2
  <2>2. PICK h : h = [s \in SUBSET S |-> AddStep(l, g, s)]
    OBVIOUS
  <2>3. ASSUME NEW s \in SUBSET S, Cardinality(s) <= n + 1 PROVE h[s] = AddStep(l, h, s)
    <3>1. CASE s = {}
      BY <2>2, <3>1 DEF AddStep
    <3>2. CASE s # {}
      <4>1. PICK t : t = s \ {Chosen(s)} /\ t \in SUBSET S
        OBVIOUS
      <4>2. Cardinality(t) <= n
        BY <1>0, <2>3, <3>2, <4>1, ChosenIsMember, OneLess
      <4>3. g[t] = AddStep(l, g, t) /\ h[t] = AddStep(l, g, t)
        BY <2>1, <2>2, <4>1, <4>2
      <4> QED BY <2>2, <3>2, <4>1, <4>3 DEF AddStep
    <3> QED BY <3>1, <3>2
  <2> QED BY <2>3
<1>3. Cardinality(S) \in K
  <2> HIDE DEF K
  <2>1. Nat \subseteq K
    BY <1>1, <1>2, SetInduction
  <2> QED BY <1>0, <2>1
<1>4. PICK g : Right(g, Cardinality(S))
  BY <1>3
<1>5. \A s \in SUBSET S : g[s] = AddStep(l, g, s)
  <2>1. \A s \in SUBSET S : Cardinality(s) <= Cardinality(S)
    BY FS_Subset
  <2> QED BY <1>4, <2>1
<1>6. PICK h : h = [s \in SUBSET S |-> AddStep(l, g, s)]
  OBVIOUS
<1>7. \A s \in SUBSET S : AddStep(l, h, s) = AddStep(l, g, s)
  BY <1>5, <1>6 DEF AddStep
<1> QED BY <1>6, <1>7 DEF Adds, AddStep

\* Two sums of the same amounts agree.
LEMMA SumsAgree ==
    ASSUME NEW l, NEW m, NEW S, NEW T, NEW g, NEW h, Adds(l, S, g), Adds(m, T, h),
           NEW U, U \subseteq S, U \subseteq T, IsFiniteSet(U),
           \A n \in U : l[n].amount = m[n].amount
    PROVE  g[U] = h[U]
<1> DEFINE K == {k \in Nat : \A s \in SUBSET U : Cardinality(s) = k => g[s] = h[s]}
<1>0. \A s \in SUBSET U : IsFiniteSet(s) /\ Cardinality(s) \in Nat
  BY FS_Subset, FS_CardinalityType
<1>1. \A s \in SUBSET U : g[s] = AddStep(l, g, s) /\ h[s] = AddStep(m, h, s)
  BY DEF Adds, AddStep
<1>2. 0 \in K
  <2>1. \A s \in SUBSET U : Cardinality(s) = 0 => s = {}
    BY <1>0, FS_EmptySet
  <2> QED BY <1>1, <2>1 DEF AddStep
<1>3. ASSUME NEW n \in Nat, n \in K PROVE n + 1 \in K
  <2>1. ASSUME NEW s \in SUBSET U, Cardinality(s) = n + 1 PROVE g[s] = h[s]
    <3>1. s # {}
      BY <2>1, FS_EmptySet
    <3>2. PICK c \in s : c = Chosen(s)
      BY <3>1, ChosenIsMember
    <3>3. Cardinality(s \ {c}) = n /\ s \ {c} \in SUBSET U
      <4>1. IsFiniteSet(s)
        BY <1>0
      <4>2. Cardinality(s \ {c}) = Cardinality(s) - 1
        BY <4>1, OneLess
      <4> QED BY <2>1, <4>2
    <3>4. g[s \ {c}] = h[s \ {c}]
      BY <1>3, <3>3
    <3> QED BY <1>1, <3>1, <3>2, <3>4 DEF AddStep
  <2> QED BY <2>1
<1> HIDE DEF K
<1>4. Cardinality(U) \in K
  BY <1>0, <1>2, <1>3, SetInduction
<1> QED BY <1>4 DEF K

\* The sum of a set, as the fold takes it apart.
LEMMA SumUnfolds ==
    ASSUME NEW l, NEW S, IsFiniteSet(S)
    PROVE  AmountSum(l, S) = IF S = {} THEN 0
                             ELSE l[Chosen(S)].amount + AmountSum(l, S \ {Chosen(S)})
<1>1. PICK g : Adds(l, S, g) /\ AmountSum(l, S) = g[S]
  BY SumExists, SumIsChosen
<1>2. PICK T : T = S \ {Chosen(S)} /\ IsFiniteSet(T)
  BY FS_Subset
<1>3. PICK h : Adds(l, T, h) /\ AmountSum(l, T) = h[T]
  BY <1>2, SumExists, SumIsChosen
<1>4. g[T] = h[T]
  BY <1>1, <1>2, <1>3, SumsAgree
<1>5. g[S] = IF S = {} THEN 0 ELSE l[Chosen(S)].amount + g[T]
  BY <1>1, <1>2 DEF Adds
<1> QED BY <1>1, <1>2, <1>3, <1>4, <1>5

\* Nothing adds up to nothing.
LEMMA SumOfNone == ASSUME NEW l PROVE AmountSum(l, {}) = 0
BY SumUnfolds, FS_EmptySet

\* A sum depends on the amounts of its own members only.
LEMMA SumDependsOnMembers ==
    ASSUME NEW l, NEW m, NEW S, IsFiniteSet(S), \A n \in S : l[n].amount = m[n].amount
    PROVE  AmountSum(l, S) = AmountSum(m, S)
<1>1. PICK g : Adds(l, S, g) /\ AmountSum(l, S) = g[S]
  BY SumExists, SumIsChosen
<1>2. PICK h : Adds(m, S, h) /\ AmountSum(m, S) = h[S]
  BY SumExists, SumIsChosen
<1> QED BY <1>1, <1>2, SumsAgree

\* A sum of natural numbers is one, and any member can be taken out first.
LEMMA SumTakesOut ==
    ASSUME NEW l, NEW U, IsFiniteSet(U), \A n \in U : l[n].amount \in Nat
    PROVE  \A S \in SUBSET U :
               /\ AmountSum(l, S) \in Nat
               /\ \A x \in S : AmountSum(l, S) = l[x].amount + AmountSum(l, S \ {x})
<1> DEFINE Good(S) == /\ AmountSum(l, S) \in Nat
                      /\ \A x \in S : AmountSum(l, S) = l[x].amount + AmountSum(l, S \ {x})
           K == {k \in Nat : \A S \in SUBSET U : Cardinality(S) <= k => Good(S)}
<1>0. \A S \in SUBSET U : IsFiniteSet(S) /\ Cardinality(S) \in Nat
  BY FS_Subset, FS_CardinalityType
<1>1. 0 \in K
  <2>1. \A S \in SUBSET U : Cardinality(S) <= 0 => S = {}
    BY <1>0, FS_EmptySet
  <2>2. Good({})
    BY SumOfNone
  <2> QED BY <2>1, <2>2
<1>2. ASSUME NEW n \in Nat, n \in K PROVE n + 1 \in K
  <2>1. ASSUME NEW S \in SUBSET U, Cardinality(S) <= n + 1, S # {} PROVE Good(S)
    <3>0. PICK c \in S : c = Chosen(S)
      BY <2>1, ChosenIsMember
    <3>1. \A x \in S : S \ {x} \in SUBSET U /\ Good(S \ {x})
      <4> SUFFICES ASSUME NEW x \in S PROVE S \ {x} \in SUBSET U /\ Good(S \ {x})
        OBVIOUS
      <4>1. IsFiniteSet(S) /\ S \ {x} \in SUBSET U
        BY <1>0
      <4>2. /\ Cardinality(S \ {x}) = Cardinality(S) - 1
            /\ Cardinality(S \ {x}) \in Nat /\ Cardinality(S) \in Nat
        BY <4>1, OneLess
      <4>3. Cardinality(S \ {x}) <= n
        BY <2>1, <4>2
      <4> QED BY <1>2, <4>1, <4>3
    <3>2. AmountSum(l, S) = l[c].amount + AmountSum(l, S \ {c})
      BY <1>0, <2>1, <3>0, SumUnfolds
    <3>3. ASSUME NEW x \in S, x # c PROVE AmountSum(l, S) = l[x].amount + AmountSum(l, S \ {x})
      <4>1. AmountSum(l, S \ {c}) = l[x].amount + AmountSum(l, (S \ {c}) \ {x})
        BY <3>1, <3>3
      <4>2. AmountSum(l, S \ {x}) = l[c].amount + AmountSum(l, (S \ {x}) \ {c})
        BY <3>1, <3>3
      <4>3. (S \ {c}) \ {x} = (S \ {x}) \ {c}
        OBVIOUS
      <4>4. l[x].amount \in Nat /\ l[c].amount \in Nat /\ AmountSum(l, S \ {x}) \in Nat
            /\ AmountSum(l, S \ {c}) \in Nat
        BY <3>1
      <4>5. PICK rest : rest = AmountSum(l, (S \ {c}) \ {x}) /\ rest = AmountSum(l, (S \ {x}) \ {c})
        BY <4>3
      <4>6. rest \in Nat
        <5>1. (S \ {c}) \ {x} \in SUBSET U
          OBVIOUS
        <5>2. Cardinality((S \ {c}) \ {x}) <= n
          <6>1. IsFiniteSet(S) /\ IsFiniteSet(S \ {c}) /\ x \in S \ {c}
            BY <1>0, <3>1, <3>3
          <6>2. /\ Cardinality(S \ {c}) = Cardinality(S) - 1
                /\ Cardinality((S \ {c}) \ {x}) = Cardinality(S \ {c}) - 1
                /\ Cardinality(S) \in Nat
            BY <6>1, OneLess
          <6> QED BY <2>1, <6>2
        <5> QED BY <1>2, <4>5, <5>1, <5>2
      <4> QED BY <3>2, <4>1, <4>2, <4>4, <4>5, <4>6
    <3>4. AmountSum(l, S) \in Nat
      BY <3>1, <3>2
    <3> QED BY <3>2, <3>3, <3>4
  <2>2. Good({})
    BY SumOfNone
  <2> QED BY <2>1, <2>2
<1> HIDE DEF K
<1>3. Nat \subseteq K
  BY <1>1, <1>2, SetInduction
<1> QED BY <1>0, <1>3 DEF K

\* More members add up to no less.
LEMMA SumGrows ==
    ASSUME NEW l, NEW U, IsFiniteSet(U), \A n \in U : l[n].amount \in Nat,
           NEW A, NEW B \in SUBSET U, A \subseteq B
    PROVE  AmountSum(l, A) <= AmountSum(l, B)
<1> DEFINE K == {k \in Nat : \A S \in SUBSET U :
                    A \subseteq S /\ Cardinality(S) <= k => AmountSum(l, A) <= AmountSum(l, S)}
<1>0. \A S \in SUBSET U : IsFiniteSet(S) /\ Cardinality(S) \in Nat
  BY FS_Subset, FS_CardinalityType
<1>a. A \in SUBSET U /\ AmountSum(l, A) \in Nat
  BY SumTakesOut
<1>1. 0 \in K
  <2>1. \A S \in SUBSET U : Cardinality(S) <= 0 /\ A \subseteq S => S = A
    <3> SUFFICES ASSUME NEW S \in SUBSET U, Cardinality(S) <= 0, A \subseteq S PROVE S = A
      OBVIOUS
    <3>1. IsFiniteSet(S) /\ Cardinality(S) = 0
      BY <1>0
    <3>2. S = {}
      BY <3>1, FS_EmptySet
    <3> QED BY <3>2
  <2> QED BY <1>a, <2>1
<1>2. ASSUME NEW n \in Nat, n \in K PROVE n + 1 \in K
  <2>1. ASSUME NEW S \in SUBSET U, A \subseteq S, Cardinality(S) <= n + 1
        PROVE  AmountSum(l, A) <= AmountSum(l, S)
    <3>1. CASE A = S
      BY <1>a, <3>1
    <3>2. CASE A # S
      <4>1. PICK x \in S : x \notin A
        BY <2>1, <3>2
      <4>2. S \ {x} \in SUBSET U /\ A \subseteq S \ {x} /\ Cardinality(S \ {x}) <= n
        BY <1>0, <2>1, <4>1, OneLess
      <4>3. AmountSum(l, A) <= AmountSum(l, S \ {x})
        BY <1>2, <4>2
      <4>4. /\ AmountSum(l, S) = l[x].amount + AmountSum(l, S \ {x})
            /\ AmountSum(l, S \ {x}) \in Nat /\ l[x].amount \in Nat
        BY <4>2, SumTakesOut
      <4> QED BY <1>a, <4>3, <4>4
    <3> QED BY <3>1, <3>2
  <2> QED BY <2>1
<1> HIDE DEF K
<1>3. Cardinality(B) \in K
  BY <1>0, <1>1, <1>2, SetInduction
<1> QED BY <1>3, <1>0 DEF K

-----------------------------------------------------------------------------
(* Sums over the places of a book of entries. *)

\* A set of places is finite, and its amounts add up to a natural number.
LEMMA SumOfPlaces ==
    ASSUME NEW l, NEW N \in Nat, \A n \in 1 .. N : l[n].amount \in Nat,
           NEW S, S \subseteq 1 .. N
    PROVE  IsFiniteSet(S) /\ AmountSum(l, S) \in Nat
<1>1. 1 \in Int /\ N \in Int
  OBVIOUS
<1>2. IsFiniteSet(1 .. N)
  BY <1>1, FS_Interval
<1>3. IsFiniteSet(S)
  BY <1>2, FS_Subset
<1> QED BY <1>2, <1>3, SumTakesOut

\* Fewer places of the same amounts add up to no more.
LEMMA SumOfFewer ==
    ASSUME NEW l, NEW N \in Nat, \A n \in 1 .. N : l[n].amount \in Nat,
           NEW S, S \subseteq 1 .. N, NEW k, NEW R, R \subseteq S,
           \A n \in R : k[n].amount = l[n].amount
    PROVE  AmountSum(k, R) \in Nat /\ AmountSum(k, R) <= AmountSum(l, S)
<1>1. 1 \in Int /\ N \in Int
  OBVIOUS
<1>2. IsFiniteSet(1 .. N) /\ IsFiniteSet(R)
  BY <1>1, FS_Interval, FS_Subset
<1>3. AmountSum(k, R) = AmountSum(l, R)
  BY <1>2, SumDependsOnMembers
<1>4. AmountSum(l, R) \in Nat
  BY <1>2, SumTakesOut
<1>5. AmountSum(l, R) <= AmountSum(l, S)
  BY <1>2, SumGrows
<1> QED BY <1>3, <1>4, <1>5

\* A set of places that is not empty has a last one.
LEMMA LastPlace ==
    ASSUME NEW N \in Nat, NEW S, S \subseteq 1 .. N, S # {}
    PROVE  \E n \in S : \A m \in S : m <= n
<1> DEFINE Above == {k \in Nat : \A m \in S : m <= k}
<1>1. PICK k \in Above : \A j \in Above : k <= j
  <2>1. N \in Above
    OBVIOUS
  <2> QED BY <2>1, LeastNumber
<1>2. k \in S
  <2> SUFFICES ASSUME k \notin S PROVE FALSE
    OBVIOUS
  <2>1. \A m \in S : m \in Nat \ {0} /\ m <= k - 1
    BY <1>1
  <2>2. k \in Nat /\ k - 1 \in Nat
    <3>1. k \in Nat /\ \A m \in S : m <= k - 1
      BY <1>1, <2>1
    <3>2. PICK m \in S : m \in Nat \ {0} /\ m <= k - 1
      BY <2>1, <3>1
    <3> QED BY <3>1, <3>2
  <2>3. k - 1 \in Above
    BY <2>1, <2>2
  <2>4. k <= k - 1
    BY <1>1, <2>3
  <2> QED BY <2>2, <2>4
<1> QED BY <1>1, <1>2

=============================================================================
