--------------------------- MODULE Portfolio_proofs ---------------------------
(* Proofs about what is computed from a tenant's figures: the reports of
   Figures.tla, the runs of SharedCosts.tla and the values of Formulas.tla, for
   any amounts, rows, weights and formulas.  A sum over a finite set is a
   recursion over its subsets; that the recursion is well defined, and that it
   does not depend on the order in which elements are chosen, is proved first.
   At the end, what the search for a cycle is good for, for every set of nodes:
   that the dependencies between initiatives and between milestones stay without
   one; and what holds of the stored scores of milestones. *)
EXTENDS Figures, SharedCosts, Formulas, Dependencies, Milestones, FiniteSetTheorems,
        SequenceTheorems, TLAPS

-------------------------------------------------------------------------------
(* Induction over numbers and over finite sets, for sets instead of predicates *)

LEMMA Induction ==
  ASSUME NEW P, 0 \in P, \A n \in Nat : n \in P => n + 1 \in P
  PROVE  \A n \in Nat : n \in P
<1> DEFINE Less == {ss \in Nat \X Nat : ss[1] < ss[2]}
           Rest == Nat \ P
<1> SUFFICES ASSUME Rest # {} PROVE FALSE
  OBVIOUS
<1>1. IsWellFoundedOn(Less, Nat)
  BY NatLessThanWellFounded DEF OpToRel
<1>2. PICK x \in Rest : \A y \in Rest : ~ (<<y, x>> \in Less)
  <2> HIDE DEF Less
  <2>1. Rest \subseteq Nat
    OBVIOUS
  <2>2. QED
    BY <1>1, <2>1, WFMin
<1>3. x \in Nat /\ x \notin P /\ x # 0
  OBVIOUS
<1>4. x - 1 \in Nat /\ x - 1 < x /\ (x - 1) + 1 = x
  BY <1>3
<1>5. x - 1 \in P
  BY <1>2, <1>3, <1>4
<1>6. QED
  BY <1>3, <1>4, <1>5

\* A set of subsets that holds a subset whenever it holds those with one element
\* less holds them all.
LEMMA RemovalInduction ==
  ASSUME NEW S, IsFiniteSet(S), NEW P,
         \A T \in SUBSET S : (\A x \in T : T \ {x} \in P) => T \in P
  PROVE  \A T \in SUBSET S : T \in P
<1> DEFINE Q == {n \in Nat : \A T \in SUBSET S : Cardinality(T) = n => T \in P}
<1>1. \A T \in SUBSET S : IsFiniteSet(T) /\ Cardinality(T) \in Nat
  BY FS_Subset, FS_CardinalityType
<1>2. 0 \in Q
  <2>1. \A T \in SUBSET S : Cardinality(T) = 0 => T = {}
    BY <1>1, FS_EmptySet
  <2>2. {} \in SUBSET S /\ \A x \in {} : {} \ {x} \in P
    OBVIOUS
  <2>3. {} \in P
    BY <2>2
  <2>4. QED
    BY <2>1, <2>3
<1>3. ASSUME NEW n \in Nat, n \in Q PROVE n + 1 \in Q
  <2>1. SUFFICES ASSUME NEW T \in SUBSET S, Cardinality(T) = n + 1 PROVE T \in P
    OBVIOUS
  <2>2. ASSUME NEW x \in T PROVE T \ {x} \in P
    <3>1. IsFiniteSet(T) /\ T \ {x} \in SUBSET S
      BY <1>1
    <3>2. Cardinality(T \ {x}) = IF x \in T THEN Cardinality(T) - 1 ELSE Cardinality(T)
      BY <3>1, FS_RemoveElement
    <3>3. Cardinality(T \ {x}) = n
      BY <2>1, <3>2
    <3>4. QED
      BY <1>3, <3>1, <3>3
  <2>3. QED
    BY <2>2
<1> HIDE DEF Q
<1>4. \A n \in Nat : n \in Q
  BY <1>2, <1>3, Induction
<1>5. QED
  BY <1>1, <1>4 DEF Q

LEMMA FiniteInduction ==
  ASSUME NEW S, IsFiniteSet(S), NEW P, {} \in P,
         \A T \in SUBSET S : \A x \in S \ T : T \in P => T \cup {x} \in P
  PROVE  \A T \in SUBSET S : T \in P
<1>1. ASSUME NEW T \in SUBSET S, \A x \in T : T \ {x} \in P PROVE T \in P
  <2>1. CASE T = {}
    BY <2>1
  <2>2. CASE T # {}
    <3>1. PICK x \in T : TRUE
      BY <2>2
    <3>2. (T \ {x}) \cup {x} = T /\ T \ {x} \in SUBSET S /\ x \in S \ (T \ {x})
      BY <3>1
    <3>3. QED
      BY <1>1, <3>2
  <2>3. QED
    BY <2>1, <2>2
<1>2. QED
  BY <1>1, RemovalInduction

LEMMA ImageIsFinite ==
  ASSUME NEW S, IsFiniteSet(S), NEW f
  PROVE  IsFiniteSet({f[x] : x \in S})
<1> DEFINE Image(T) == {f[x] : x \in T}
           P == {T \in SUBSET S : IsFiniteSet(Image(T))}
<1>1. {} \in P
  <2>1. Image({}) = {}
    OBVIOUS
  <2>2. QED
    BY <2>1, FS_EmptySet
<1>2. ASSUME NEW T \in SUBSET S, NEW x \in S \ T, T \in P PROVE T \cup {x} \in P
  <2>1. Image(T \cup {x}) = Image(T) \cup {f[x]}
    OBVIOUS
  <2>2. IsFiniteSet(Image(T) \cup {f[x]})
    BY <1>2, FS_AddElement
  <2>3. QED
    BY <2>1, <2>2
<1> HIDE DEF P
<1>3. \A T \in SUBSET S : T \in P
  BY <1>1, <1>2, FiniteInduction
<1>4. QED
  BY <1>3 DEF P

-------------------------------------------------------------------------------
(* Sums over a finite set *)

\* The recursion that a sum of f takes over the subsets of S.
Taken(g, f, T) ==
  IF T = {} THEN 0
  ELSE LET x == CHOOSE x \in T : TRUE IN f[x] + g[T \ {x}]

Adds(g, f, S) == g = [T \in SUBSET S |-> Taken(g, f, T)]

LEMMA TakenAlike ==
  ASSUME NEW T, NEW f, NEW e, NEW g, NEW h,
         \A x \in T : f[x] = e[x] /\ g[T \ {x}] = h[T \ {x}]
  PROVE  Taken(g, f, T) = Taken(h, e, T)
<1>1. CASE T = {}
  BY <1>1 DEF Taken
<1>2. CASE T # {}
  <2> DEFINE c == CHOOSE x \in T : TRUE
  <2>1. c \in T
    BY <1>2
  <2>2. Taken(g, f, T) = f[c] + g[T \ {c}] /\ Taken(h, e, T) = e[c] + h[T \ {c}]
    BY <1>2 DEF Taken
  <2> HIDE DEF c
  <2>3. QED
    BY <2>1, <2>2
<1>3. QED
  BY <1>1, <1>2

LEMMA SumIsChosen ==
  ASSUME NEW S, NEW f
  PROVE  SumFunctionOnSet(f, S) = (CHOOSE g : Adds(g, f, S))[S]
BY DEF SumFunctionOnSet, FoldFunctionOnSet, MapThenFoldSet, Adds, Taken

\* The recursion has a solution.
LEMMA SomethingAdds ==
  ASSUME NEW S, IsFiniteSet(S), NEW f
  PROVE  \E g : Adds(g, f, S)
<1> DEFINE Upto(g, n) == \A T \in SUBSET S : Cardinality(T) <= n => g[T] = Taken(g, f, T)
           Q == {n \in Nat : \E g : Upto(g, n)}
<1>1. \A T \in SUBSET S : IsFiniteSet(T) /\ Cardinality(T) \in Nat
  BY FS_Subset, FS_CardinalityType
<1>2. 0 \in Q
  <2> DEFINE g == [T \in SUBSET S |-> 0]
  <2>1. \A T \in SUBSET S : Cardinality(T) <= 0 => T = {}
    BY <1>1, FS_EmptySet
  <2>2. Upto(g, 0)
    BY <2>1 DEF Taken
  <2>3. QED
    BY <2>2
<1>3. ASSUME NEW n \in Nat, n \in Q PROVE n + 1 \in Q
  <2>1. PICK g : Upto(g, n)
    BY <1>3
  <2> DEFINE h == [T \in SUBSET S |-> IF Cardinality(T) = n + 1 THEN Taken(g, f, T) ELSE g[T]]
  <2>2. ASSUME NEW T \in SUBSET S, Cardinality(T) <= n + 1 PROVE h[T] = Taken(h, f, T)
    <3>1. ASSUME NEW x \in T PROVE h[T \ {x}] = g[T \ {x}]
      <4>1. Cardinality(T \ {x}) = IF x \in T THEN Cardinality(T) - 1 ELSE Cardinality(T)
        BY <1>1, FS_RemoveElement
      <4>2. Cardinality(T \ {x}) # n + 1 /\ T \ {x} \in SUBSET S
        BY <1>1, <2>2, <4>1
      <4>3. QED
        BY <4>2
    <3>2. Taken(h, f, T) = Taken(g, f, T)
      <4> HIDE DEF h
      <4>1. QED
        BY <3>1, TakenAlike
    <3>3. h[T] = Taken(g, f, T)
      <4>1. CASE Cardinality(T) = n + 1
        BY <4>1
      <4>2. CASE Cardinality(T) # n + 1
        <5>1. Cardinality(T) <= n
          BY <1>1, <2>2, <4>2
        <5>2. QED
          BY <2>1, <4>2, <5>1
      <4>3. QED
        BY <4>1, <4>2
    <3>4. QED
      BY <3>2, <3>3
  <2>3. Upto(h, n + 1)
    BY <2>2
  <2> HIDE DEF h, Upto
  <2>4. \E k : Upto(k, n + 1)
    BY <2>3
  <2>5. QED
    BY <2>4
<1> HIDE DEF Q
<1>4. Cardinality(S) \in Q
  <2>1. Cardinality(S) \in Nat
    BY <1>1
  <2>2. QED
    BY <1>2, <1>3, <2>1, Induction
<1>5. PICK g : Upto(g, Cardinality(S))
  BY <1>4 DEF Q
<1> DEFINE h == [T \in SUBSET S |-> g[T]]
<1>6. ASSUME NEW T \in SUBSET S PROVE h[T] = Taken(h, f, T)
  <2>1. Cardinality(T) <= Cardinality(S)
    BY FS_Subset
  <2>2. g[T] = Taken(g, f, T)
    BY <1>5, <2>1
  <2>3. Taken(h, f, T) = Taken(g, f, T)
    <3>1. \A x \in T : h[T \ {x}] = g[T \ {x}]
      OBVIOUS
    <3> HIDE DEF h
    <3>2. QED
      BY <3>1, TakenAlike
  <2>4. QED
    BY <2>2, <2>3
<1>7. Adds(h, f, S)
  BY <1>6 DEF Adds
<1>8. QED
  BY <1>7

LEMMA TheSumAdds ==
  ASSUME NEW S, IsFiniteSet(S), NEW f
  PROVE  \E g : Adds(g, f, S) /\ SumFunctionOnSet(f, S) = g[S]
<1>1. \E g : Adds(g, f, S)
  BY SomethingAdds
<1>2. Adds(CHOOSE g : Adds(g, f, S), f, S)
  BY <1>1
<1>3. QED
  BY <1>2, SumIsChosen

\* Sums over the same elements of functions that agree on them are the same.
LEMMA AddsAlike ==
  ASSUME NEW S, NEW R, NEW f, NEW e, NEW g, NEW h, Adds(g, f, S), Adds(h, e, R),
         NEW T, IsFiniteSet(T), T \subseteq S, T \subseteq R, \A x \in T : f[x] = e[x]
  PROVE  g[T] = h[T]
<1> DEFINE P == {U \in SUBSET T : g[U] = h[U]}
<1>1. ASSUME NEW U \in SUBSET T, \A x \in U : U \ {x} \in P PROVE U \in P
  <2>1. g[U] = Taken(g, f, U) /\ h[U] = Taken(h, e, U)
    <3>1. U \in SUBSET S /\ U \in SUBSET R
      OBVIOUS
    <3>2. QED
      BY <3>1 DEF Adds
  <2>2. \A x \in U : g[U \ {x}] = h[U \ {x}] /\ f[x] = e[x]
    BY <1>1
  <2>3. Taken(g, f, U) = Taken(h, e, U)
    BY <2>2, TakenAlike
  <2>4. QED
    BY <2>1, <2>3
<1> HIDE DEF P
<1>2. T \in P
  <2>1. \A U \in SUBSET T : U \in P
    BY <1>1, RemovalInduction
  <2>2. QED
    BY <2>1
<1>3. QED
  BY <1>2 DEF P

LEMMA SumSame ==
  ASSUME NEW S, IsFiniteSet(S), NEW f, NEW e, \A x \in S : f[x] = e[x]
  PROVE  SumFunctionOnSet(f, S) = SumFunctionOnSet(e, S)
<1>1. PICK g : Adds(g, f, S) /\ SumFunctionOnSet(f, S) = g[S]
  BY TheSumAdds
<1>2. PICK h : Adds(h, e, S) /\ SumFunctionOnSet(e, S) = h[S]
  BY TheSumAdds
<1>3. g[S] = h[S]
  BY <1>1, <1>2, AddsAlike
<1>4. QED
  BY <1>1, <1>2, <1>3

LEMMA SumEmpty ==
  ASSUME NEW f
  PROVE  SumFunctionOnSet(f, {}) = 0
<1>1. IsFiniteSet({})
  BY FS_EmptySet
<1>2. PICK g : Adds(g, f, {}) /\ SumFunctionOnSet(f, {}) = g[{}]
  BY <1>1, TheSumAdds
<1>3. g[{}] = Taken(g, f, {})
  BY <1>2 DEF Adds
<1>4. QED
  BY <1>2, <1>3 DEF Taken

\* Some element comes first.
LEMMA SumFirst ==
  ASSUME NEW S, IsFiniteSet(S), S # {}, NEW f
  PROVE  \E x \in S : SumFunctionOnSet(f, S) = f[x] + SumFunctionOnSet(f, S \ {x})
<1>1. PICK g : Adds(g, f, S) /\ SumFunctionOnSet(f, S) = g[S]
  BY TheSumAdds
<1> DEFINE x == CHOOSE x \in S : TRUE
<1>2. x \in S
  OBVIOUS
<1>3. g[S] = f[x] + g[S \ {x}]
  <2>1. g[S] = Taken(g, f, S)
    BY <1>1 DEF Adds
  <2>2. QED
    BY <2>1 DEF Taken
<1> HIDE DEF x
<1>4. IsFiniteSet(S \ {x})
  BY FS_RemoveElement
<1>5. PICK h : Adds(h, f, S \ {x}) /\ SumFunctionOnSet(f, S \ {x}) = h[S \ {x}]
  BY <1>4, TheSumAdds
<1>6. g[S \ {x}] = h[S \ {x}]
  BY <1>1, <1>4, <1>5, AddsAlike
<1>7. QED
  BY <1>1, <1>2, <1>3, <1>5, <1>6

Summable(f, S) == IsFiniteSet(S) /\ \A x \in S : f[x] \in Int

LEMMA SumIsInteger ==
  ASSUME NEW S, NEW f, Summable(f, S)
  PROVE  SumFunctionOnSet(f, S) \in Int
<1> DEFINE P == {T \in SUBSET S : SumFunctionOnSet(f, T) \in Int}
<1>1. IsFiniteSet(S) /\ \A T \in SUBSET S : IsFiniteSet(T)
  BY FS_Subset DEF Summable
<1>2. ASSUME NEW T \in SUBSET S, \A x \in T : T \ {x} \in P PROVE T \in P
  <2>1. CASE T = {}
    <3>1. SumFunctionOnSet(f, {}) = 0
      BY SumEmpty
    <3>2. QED
      BY <2>1, <3>1
  <2>2. CASE T # {}
    <3>1. PICK x \in T : SumFunctionOnSet(f, T) = f[x] + SumFunctionOnSet(f, T \ {x})
      BY <1>1, <2>2, SumFirst
    <3>2. SumFunctionOnSet(f, T \ {x}) \in Int /\ f[x] \in Int
      BY <1>2 DEF Summable
    <3>3. QED
      BY <3>1, <3>2
  <2>3. QED
    BY <2>1, <2>2
<1> HIDE DEF P
<1>3. \A T \in SUBSET S : T \in P
  BY <1>1, <1>2, RemovalInduction
<1>4. QED
  BY <1>3 DEF P

LEMMA SubSummable ==
  ASSUME NEW S, NEW f, Summable(f, S), NEW T \in SUBSET S
  PROVE  Summable(f, T)
BY FS_Subset DEF Summable

\* Any element may come first.
LEMMA SumWithout ==
  ASSUME NEW S, NEW f, Summable(f, S), NEW y \in S
  PROVE  SumFunctionOnSet(f, S) = f[y] + SumFunctionOnSet(f, S \ {y})
<1> DEFINE Total1(T) == SumFunctionOnSet(f, T)
           P == {T \in SUBSET S : \A z \in T : Total1(T) = f[z] + Total1(T \ {z})}
<1>1. IsFiniteSet(S) /\ \A T \in SUBSET S : IsFiniteSet(T) /\ Total1(T) \in Int
  BY SubSummable, SumIsInteger DEF Summable
<1>2. ASSUME NEW T \in SUBSET S, \A x \in T : T \ {x} \in P PROVE T \in P
  <2>1. SUFFICES ASSUME NEW z \in T PROVE Total1(T) = f[z] + Total1(T \ {z})
    OBVIOUS
  <2>2. PICK x \in T : Total1(T) = f[x] + Total1(T \ {x})
    BY <1>1, SumFirst
  <2>3. CASE x = z
    BY <2>2, <2>3
  <2>4. CASE x # z
    <3>1. Total1(T \ {x}) = f[z] + Total1((T \ {x}) \ {z})
      <4>1. z \in T \ {x} /\ T \ {x} \in P
        BY <1>2, <2>4
      <4>2. QED
        BY <4>1
    <3>2. Total1(T \ {z}) = f[x] + Total1((T \ {z}) \ {x})
      <4>1. x \in T \ {z} /\ T \ {z} \in P
        BY <1>2, <2>4
      <4>2. QED
        BY <4>1
    <3>3. (T \ {z}) \ {x} = (T \ {x}) \ {z} /\ (T \ {x}) \ {z} \in SUBSET S
      OBVIOUS
    <3>4. Total1((T \ {z}) \ {x}) = Total1((T \ {x}) \ {z})
      BY <3>3
    <3>5. f[x] \in Int /\ f[z] \in Int /\ Total1((T \ {x}) \ {z}) \in Int
      BY <1>1, <3>3 DEF Summable
    <3> HIDE DEF Total1
    <3>6. QED
      BY <2>2, <3>1, <3>2, <3>4, <3>5
  <2>5. QED
    BY <2>3, <2>4
<1> HIDE DEF P
<1>3. S \in P
  <2>1. \A T \in SUBSET S : T \in P
    BY <1>1, <1>2, RemovalInduction
  <2>2. QED
    BY <2>1
<1>4. QED
  BY <1>3 DEF P

LEMMA SumWith ==
  ASSUME NEW S, NEW f, NEW x, x \notin S, Summable(f, S \cup {x})
  PROVE  SumFunctionOnSet(f, S \cup {x}) = f[x] + SumFunctionOnSet(f, S)
<1>1. x \in S \cup {x} /\ (S \cup {x}) \ {x} = S
  OBVIOUS
<1>2. QED
  BY <1>1, SumWithout

\* Sums are linear.
Combines(h, a, f, b, g, S) == \A x \in S : h[x] = a * f[x] + b * g[x]

LEMMA SumLinear ==
  ASSUME NEW S, NEW f, NEW g, NEW h, Summable(f, S), Summable(g, S),
         NEW a \in Int, NEW b \in Int, Combines(h, a, f, b, g, S)
  PROVE  SumFunctionOnSet(h, S) = a * SumFunctionOnSet(f, S) + b * SumFunctionOnSet(g, S)
<1> DEFINE F(T) == SumFunctionOnSet(f, T)
           G(T) == SumFunctionOnSet(g, T)
           H(T) == SumFunctionOnSet(h, T)
           P == {T \in SUBSET S : H(T) = a * F(T) + b * G(T)}
<1>1. \A x \in S : f[x] \in Int /\ g[x] \in Int /\ h[x] \in Int
  BY DEF Summable, Combines
<1>2. IsFiniteSet(S) /\ Summable(h, S)
  BY <1>1 DEF Summable
<1>3. \A T \in SUBSET S : Summable(f, T) /\ Summable(g, T) /\ Summable(h, T)
  BY <1>2, SubSummable
<1>4. \A T \in SUBSET S : F(T) \in Int /\ G(T) \in Int
  BY <1>3, SumIsInteger
<1>5. {} \in P
  <2>1. F({}) = 0 /\ G({}) = 0 /\ H({}) = 0
    BY SumEmpty
  <2>2. QED
    BY <2>1
<1>6. ASSUME NEW T \in SUBSET S, NEW x \in S \ T, T \in P PROVE T \cup {x} \in P
  <2>1. T \cup {x} \in SUBSET S
    OBVIOUS
  <2>2. F(T \cup {x}) = f[x] + F(T)
    BY <1>3, <2>1, SumWith
  <2>3. G(T \cup {x}) = g[x] + G(T)
    BY <1>3, <2>1, SumWith
  <2>4. H(T \cup {x}) = h[x] + H(T)
    BY <1>3, <2>1, SumWith
  <2>5. H(T) = a * F(T) + b * G(T) /\ h[x] = a * f[x] + b * g[x]
    BY <1>6 DEF Combines
  <2>6. \A i, j, k, l \in Int : a * (i + j) + b * (k + l) = (a * i + b * k) + (a * j + b * l)
    OBVIOUS
  <2> HIDE DEF F, G, H
  <2>7. H(T \cup {x}) = a * F(T \cup {x}) + b * G(T \cup {x})
    <3>1. a * (f[x] + F(T)) + b * (g[x] + G(T)) = (a * f[x] + b * g[x]) + (a * F(T) + b * G(T))
      BY <1>1, <1>4, <2>6
    <3>2. QED
      BY <2>2, <2>3, <2>4, <2>5, <3>1
  <2>8. QED
    BY <2>1, <2>7
<1> HIDE DEF P
<1>7. S \in P
  <2>1. \A T \in SUBSET S : T \in P
    BY <1>2, <1>5, <1>6, FiniteInduction
  <2>2. QED
    BY <2>1
<1>8. QED
  BY <1>7 DEF P

LEMMA SumPlus ==
  ASSUME NEW S, NEW f, NEW g, NEW h, Summable(f, S), Summable(g, S),
         \A x \in S : h[x] = f[x] + g[x]
  PROVE  SumFunctionOnSet(h, S) = SumFunctionOnSet(f, S) + SumFunctionOnSet(g, S)
<1>1. Combines(h, 1, f, 1, g, S)
  BY DEF Summable, Combines
<1>2. SumFunctionOnSet(h, S) = 1 * SumFunctionOnSet(f, S) + 1 * SumFunctionOnSet(g, S)
  BY <1>1, SumLinear
<1>3. QED
  BY <1>2, SumIsInteger

LEMMA SumMinus ==
  ASSUME NEW S, NEW f, NEW g, NEW h, Summable(f, S), Summable(g, S),
         \A x \in S : h[x] = f[x] - g[x]
  PROVE  SumFunctionOnSet(h, S) = SumFunctionOnSet(f, S) - SumFunctionOnSet(g, S)
<1>1. Combines(h, 1, f, -1, g, S)
  BY DEF Summable, Combines
<1>2. SumFunctionOnSet(h, S) = 1 * SumFunctionOnSet(f, S) + (-1) * SumFunctionOnSet(g, S)
  BY <1>1, SumLinear
<1>3. QED
  BY <1>2, SumIsInteger

\* A sum of terms between -c and c.
LEMMA SumBounded ==
  ASSUME NEW S, NEW f, Summable(f, S), NEW c \in Int,
         \A x \in S : f[x] <= c /\ -c <= f[x]
  PROVE  /\ SumFunctionOnSet(f, S) <= c * Cardinality(S)
         /\ -(c * Cardinality(S)) <= SumFunctionOnSet(f, S)
<1> DEFINE F(T) == SumFunctionOnSet(f, T)
           P == {T \in SUBSET S : F(T) <= c * Cardinality(T) /\ -(c * Cardinality(T)) <= F(T)}
<1>1. IsFiniteSet(S)
  BY DEF Summable
<1>2. \A T \in SUBSET S : Summable(f, T) /\ F(T) \in Int
  BY SubSummable, SumIsInteger
<1>3. \A T \in SUBSET S : IsFiniteSet(T) /\ Cardinality(T) \in Nat
  BY <1>1, FS_Subset, FS_CardinalityType
<1>4. {} \in P
  <2>1. F({}) = 0 /\ Cardinality({}) = 0
    BY SumEmpty, FS_EmptySet
  <2>2. QED
    BY <2>1
<1>5. ASSUME NEW T \in SUBSET S, NEW x \in S \ T, T \in P PROVE T \cup {x} \in P
  <2>1. T \cup {x} \in SUBSET S
    OBVIOUS
  <2>2. F(T \cup {x}) = f[x] + F(T)
    BY <1>2, <2>1, SumWith
  <2>3. Cardinality(T \cup {x}) = Cardinality(T) + 1
    <3>1. Cardinality(T \cup {x}) = IF x \in T THEN Cardinality(T) ELSE Cardinality(T) + 1
      BY <1>3, FS_AddElement
    <3>2. QED
      BY <3>1
  <2>4. c * (Cardinality(T) + 1) = c * Cardinality(T) + c
    BY <1>3
  <2>5. c * Cardinality(T) \in Int
    BY <1>3
  <2>6. f[x] \in Int /\ F(T) \in Int /\ f[x] <= c /\ -c <= f[x]
    BY <1>2 DEF Summable
  <2>7. F(T) <= c * Cardinality(T) /\ -(c * Cardinality(T)) <= F(T)
    BY <1>5
  <2> HIDE DEF F
  <2>8. /\ F(T \cup {x}) <= c * Cardinality(T \cup {x})
        /\ -(c * Cardinality(T \cup {x})) <= F(T \cup {x})
    <3> DEFINE m == c * Cardinality(T)
    <3>1. c * Cardinality(T \cup {x}) = m + c
      BY <2>3, <2>4
    <3> HIDE DEF m
    <3>2. m \in Int /\ F(T) <= m /\ -m <= F(T)
      BY <2>5, <2>7 DEF m
    <3>3. QED
      BY <2>2, <2>6, <3>1, <3>2
  <2>9. QED
    BY <2>1, <2>8
<1> HIDE DEF P
<1>6. S \in P
  <2>1. \A T \in SUBSET S : T \in P
    BY <1>1, <1>4, <1>5, FiniteInduction
  <2>2. QED
    BY <2>1
<1>7. QED
  BY <1>6 DEF P

\* Changing one term.
LEMMA SumChanged ==
  ASSUME NEW S, NEW f, NEW g, Summable(f, S), NEW k \in S, NEW d \in Int,
         g[k] = f[k] + d, \A x \in S \ {k} : g[x] = f[x]
  PROVE  SumFunctionOnSet(g, S) = SumFunctionOnSet(f, S) + d
<1>1. f[k] \in Int /\ Summable(g, S)
  BY DEF Summable
<1>2. SumFunctionOnSet(f, S) = f[k] + SumFunctionOnSet(f, S \ {k})
  BY SumWithout
<1>3. SumFunctionOnSet(g, S) = g[k] + SumFunctionOnSet(g, S \ {k})
  BY <1>1, SumWithout
<1>4. Summable(f, S \ {k})
  BY SubSummable
<1>5. SumFunctionOnSet(g, S \ {k}) = SumFunctionOnSet(f, S \ {k})
  BY <1>4, SumSame DEF Summable
<1>6. SumFunctionOnSet(f, S \ {k}) \in Int
  BY <1>4, SumIsInteger
<1>7. QED
  BY <1>1, <1>2, <1>3, <1>5, <1>6

\* A sum may be taken by parts: the elements of S by their key in K.
LEMMA SumByParts ==
  ASSUME NEW S, NEW f, Summable(f, S), NEW K, IsFiniteSet(K),
         NEW key, \A x \in S : key[x] \in K
  PROVE  SumFunctionOnSet([k \in K |-> SumFunctionOnSet(f, {x \in S : key[x] = k})], K)
           = SumFunctionOnSet(f, S)
<1> DEFINE F(T) == SumFunctionOnSet(f, T)
           Part(T, k) == {x \in T : key[x] = k}
           Parts(T) == [k \in K |-> F(Part(T, k))]
           P == {T \in SUBSET S : SumFunctionOnSet(Parts(T), K) = F(T)}
<1>1. IsFiniteSet(S)
  BY DEF Summable
<1>2. \A T \in SUBSET S : Summable(f, T) /\ F(T) \in Int
  BY SubSummable, SumIsInteger
<1>3. \A T \in SUBSET S : Summable(Parts(T), K)
  <2>1. \A T \in SUBSET S, k \in K : Part(T, k) \in SUBSET S
    OBVIOUS
  <2>2. \A T \in SUBSET S, k \in K : Parts(T)[k] \in Int
    BY <1>2, <2>1
  <2>3. QED
    BY <2>2 DEF Summable
<1>4. {} \in P
  <2> DEFINE zero == [k \in K |-> 0]
  <2>1. \A k \in K : Part({}, k) = {}
    OBVIOUS
  <2>2. F({}) = 0
    BY SumEmpty
  <2>3. \A k \in K : Parts({})[k] = 0
    BY <2>1, <2>2
  <2>4. Summable(zero, K)
    BY DEF Summable
  <2>5. SumFunctionOnSet(Parts({}), K) = 0 * SumFunctionOnSet(zero, K) + 0 * SumFunctionOnSet(zero, K)
    <3>1. Combines(Parts({}), 0, zero, 0, zero, K)
      BY <2>3 DEF Combines
    <3> HIDE DEF Parts, zero
    <3>2. QED
      BY <2>4, <3>1, SumLinear
  <2>6. SumFunctionOnSet(zero, K) \in Int
    BY <2>4, SumIsInteger
  <2>7. SumFunctionOnSet(Parts({}), K) = 0
    <3> HIDE DEF Parts, zero
    <3>1. QED
      BY <2>5, <2>6
  <2>8. QED
    BY <2>2, <2>7
<1>5. ASSUME NEW T \in SUBSET S, NEW x \in S \ T, T \in P PROVE T \cup {x} \in P
  <2>1. T \cup {x} \in SUBSET S /\ key[x] \in K /\ f[x] \in Int
    BY DEF Summable
  <2>2. F(T \cup {x}) = f[x] + F(T)
    BY <1>2, <2>1, SumWith
  <2>3. Parts(T \cup {x})[key[x]] = Parts(T)[key[x]] + f[x]
    <3>1. Part(T \cup {x}, key[x]) = Part(T, key[x]) \cup {x} /\ x \notin Part(T, key[x])
      OBVIOUS
    <3>2. Part(T, key[x]) \cup {x} \in SUBSET S /\ Part(T, key[x]) \in SUBSET S
      OBVIOUS
    <3>3. F(Part(T, key[x]) \cup {x}) = f[x] + F(Part(T, key[x]))
      BY <1>2, <3>1, <3>2, SumWith
    <3>4. F(Part(T, key[x])) \in Int
      BY <1>2, <3>2
    <3> HIDE DEF F
    <3>5. Parts(T \cup {x})[key[x]] = F(Part(T, key[x]) \cup {x}) /\ Parts(T)[key[x]] = F(Part(T, key[x]))
      BY <2>1, <3>1
    <3>6. QED
      BY <2>1, <3>3, <3>4, <3>5
  <2>4. ASSUME NEW k \in K \ {key[x]} PROVE Parts(T \cup {x})[k] = Parts(T)[k]
    <3>1. Part(T \cup {x}, k) = Part(T, k)
      OBVIOUS
    <3>2. QED
      BY <3>1
  <2>5. SumFunctionOnSet(Parts(T \cup {x}), K) = SumFunctionOnSet(Parts(T), K) + f[x]
    <3>1. Summable(Parts(T), K)
      BY <1>3
    <3> DEFINE l == key[x]
               before == Parts(T)
               after == Parts(T \cup {x})
    <3>2. l \in K /\ f[x] \in Int /\ Summable(before, K)
      BY <2>1, <3>1
    <3>3. after[l] = before[l] + f[x]
      BY <2>3
    <3>4. \A k \in K \ {l} : after[k] = before[k]
      BY <2>4
    <3> HIDE DEF l, before, after
    <3>5. SumFunctionOnSet(after, K) = SumFunctionOnSet(before, K) + f[x]
      BY <3>2, <3>3, <3>4, SumChanged
    <3>6. QED
      BY <3>5 DEF before, after
  <2>6. SumFunctionOnSet(Parts(T), K) = F(T) /\ F(T) \in Int
    BY <1>2, <1>5
  <2>7. SumFunctionOnSet(Parts(T \cup {x}), K) = F(T \cup {x})
    <3> HIDE DEF Parts, F
    <3>1. QED
      BY <2>1, <2>2, <2>5, <2>6
  <2>8. QED
    BY <2>1, <2>7
<1> HIDE DEF P
<1>6. S \in P
  <2>1. \A T \in SUBSET S : T \in P
    BY <1>1, <1>4, <1>5, FiniteInduction
  <2>2. QED
    BY <2>1
<1>7. QED
  BY <1>6 DEF P

-------------------------------------------------------------------------------
(* Rounded shares *)

LEMMA Division ==
  ASSUME NEW n \in Int, NEW d \in Nat \ {0}
  PROVE  n = d * (n \div d) + (n % d) /\ n % d \in 0 .. d - 1 /\ n \div d \in Int
<1>1. n \div d \in Int
  OBVIOUS
<1>2. n % d \in 0 .. d - 1
  OBVIOUS
<1>3. n = d * (n \div d) + (n % d)
  OBVIOUS
<1>4. QED
  BY <1>1, <1>2, <1>3

LEMMA QuotientRounds ==
  ASSUME NEW a \in Int, NEW b \in Int, b # 0
  PROVE  /\ Quotient(a, b) \in Int
         /\ 2 * Magnitude(Quotient(a, b) * b - a) <= Magnitude(b)
<1> DEFINE d == Magnitude(b)
           n == IF b < 0 THEN -a ELSE a
           q == n \div d
           m == n % d
           r == Quotient(a, b)
<1>1. d \in Nat \ {0} /\ n \in Int
  BY DEF Magnitude
<1>2. r = IF 2 * m > d \/ (2 * m = d /\ q % 2 = 1) THEN q + 1 ELSE q
  BY DEF Quotient
<1>3. (b = d /\ a = n) \/ (b = -d /\ a = -n)
  BY DEF Magnitude
<1> HIDE DEF d, n
<1>4. n = d * q + m /\ m \in 0 .. d - 1 /\ q \in Int
  BY <1>1, Division
<1> HIDE DEF q, m, r
<1>5. r = q \/ r = q + 1
  BY <1>2
<1>6. r \in Int /\ r * d \in Int
  BY <1>1, <1>4, <1>5
<1>7. 2 * (r * d - n) <= d /\ -d <= 2 * (r * d - n)
  <2>1. CASE r = q + 1
    <3>1. r * d = d * q + d
      BY <1>1, <1>4, <2>1
    <3>2. 2 * m >= d
      BY <1>1, <1>2, <1>4, <2>1
    <3> DEFINE k == d * q
    <3>3. k \in Int
      BY <1>1, <1>4
    <3>4. r * d = k + d /\ n = k + m
      BY <1>4, <3>1
    <3> HIDE DEF k
    <3>5. QED
      BY <1>1, <1>4, <3>2, <3>3, <3>4
  <2>2. CASE r = q
    <3>1. r * d = d * q
      BY <1>1, <1>4, <2>2
    <3>2. 2 * m <= d
      BY <1>1, <1>2, <1>4, <2>2
    <3> DEFINE k == d * q
    <3>3. k \in Int
      BY <1>1, <1>4
    <3>4. r * d = k /\ n = k + m
      BY <1>4, <3>1
    <3> HIDE DEF k
    <3>5. QED
      BY <1>1, <1>4, <3>2, <3>3, <3>4
  <2>3. QED
    BY <1>5, <2>1, <2>2
<1>8. r * b = r * d \/ r * b = -(r * d)
  BY <1>1, <1>3, <1>6
<1>9. Magnitude(r * b - a) = Magnitude(r * d - n)
  <2>1. (r * b = r * d /\ a = n) \/ (r * b = -(r * d) /\ a = -n)
    BY <1>1, <1>3, <1>6
  <2> DEFINE u == r * d
             v == r * b
  <2>2. u \in Int
    BY <1>6
  <2>3. (v = u /\ a = n) \/ (v = -u /\ a = -n)
    BY <2>1
  <2> HIDE DEF u, v
  <2>4. Magnitude(v - a) = Magnitude(u - n)
    BY <1>1, <2>2, <2>3 DEF Magnitude
  <2>5. QED
    BY <2>4 DEF u, v
<1>10. 2 * Magnitude(r * d - n) <= d
  <2> DEFINE u == r * d
  <2>1. u \in Int /\ 2 * (u - n) <= d /\ -d <= 2 * (u - n)
    BY <1>6, <1>7
  <2> HIDE DEF u
  <2>2. 2 * Magnitude(u - n) <= d
    BY <1>1, <2>1 DEF Magnitude
  <2>3. QED
    BY <2>2 DEF u
<1>11. QED
  BY <1>6, <1>9, <1>10 DEF d, r

\* Shares rounded to the unit, the last of which is what is left: none is further
\* from its proportion than half a unit for every share.
Rounded(P, value, base, s, C) ==
  \A i \in C : s[i] = Quotient(P * value[i], base)

LeftOver(P, s, C, last) == P - SumFunctionOnSet(s, C \ {last})

LEMMA SharesInProportion ==
  ASSUME NEW C, IsFiniteSet(C), NEW last \in C, NEW P \in Int,
         NEW value, Summable(value, C), NEW base, base = SumFunctionOnSet(value, C), base # 0,
         NEW s, Rounded(P, value, base, s, C)
  PROVE  /\ LeftOver(P, s, C, last) \in Int
         /\ \A i \in C : s[i] \in Int
         /\ 2 * Magnitude(LeftOver(P, s, C, last) * base - P * value[last])
              <= Magnitude(base) * Cardinality(C)
         /\ \A i \in C : 2 * Magnitude(s[i] * base - P * value[i]) <= Magnitude(base) * Cardinality(C)
<1> DEFINE R == C \ {last}
           b == Magnitude(base)
           left == LeftOver(P, s, C, last)
           SV == SumFunctionOnSet(value, R)
           SS == SumFunctionOnSet(s, R)
           twice == [i \in R |-> (2 * P) * value[i] + (-(2 * base)) * s[i]]
           ST == SumFunctionOnSet(twice, R)
<1>1. base \in Int /\ b \in Nat
  <2>1. base \in Int
    BY SumIsInteger
  <2>2. QED
    BY <2>1 DEF Magnitude
<1>2. ASSUME NEW i \in C
      PROVE  value[i] \in Int /\ s[i] \in Int /\ 2 * Magnitude(s[i] * base - P * value[i]) <= b
  <2>1. value[i] \in Int
    BY DEF Summable
  <2>2. P * value[i] \in Int /\ s[i] = Quotient(P * value[i], base)
    BY <2>1 DEF Rounded
  <2>3. QED
    BY <1>1, <2>1, <2>2, QuotientRounds
<1>3. Cardinality(C) \in Nat /\ Cardinality(C) >= 1 /\ Cardinality(R) = Cardinality(C) - 1
      /\ IsFiniteSet(R)
  <2>1. Cardinality(R) = IF last \in C THEN Cardinality(C) - 1 ELSE Cardinality(C)
    BY FS_RemoveElement
  <2>2. IsFiniteSet(R) /\ Cardinality(C) \in Nat /\ Cardinality(R) \in Nat
    BY FS_RemoveElement, FS_CardinalityType
  <2> HIDE DEF R
  <2>3. QED
    BY <2>1, <2>2
<1>4. Summable(value, R) /\ Summable(s, R)
  BY <1>2, <1>3 DEF Summable
<1>5. SV \in Int /\ SS \in Int
  BY <1>4, SumIsInteger
<1>6. base = value[last] + SV
  BY SumWithout
<1>7. left = P - SS
  BY DEF LeftOver
<1>8. ST = (2 * P) * SV + (-(2 * base)) * SS
  <2> DEFINE m == 2 * P
             k == -(2 * base)
  <2>1. m \in Int /\ k \in Int
    BY <1>1
  <2>2. Combines(twice, m, value, k, s, R)
    BY DEF Combines
  <2> HIDE DEF twice, R, m, k
  <2>3. SumFunctionOnSet(twice, R) = m * SumFunctionOnSet(value, R) + k * SumFunctionOnSet(s, R)
    BY <1>4, <2>1, <2>2, SumLinear
  <2>4. QED
    BY <2>3 DEF m, k
<1>9. ST <= b * Cardinality(R) /\ -(b * Cardinality(R)) <= ST
  <2>1. ASSUME NEW i \in R PROVE twice[i] \in Int /\ twice[i] <= b /\ -b <= twice[i]
    <3> DEFINE u == s[i] * base
               w == P * value[i]
    <3>1. u \in Int /\ w \in Int /\ 2 * Magnitude(u - w) <= b
      BY <1>1, <1>2
    <3>2. twice[i] = 2 * w - 2 * u
      <4>1. (2 * P) * value[i] = 2 * w
        BY <1>2
      <4>2. (-(2 * base)) * s[i] = -(2 * u)
        BY <1>1, <1>2
      <4>3. twice[i] = (2 * P) * value[i] + (-(2 * base)) * s[i]
        OBVIOUS
      <4> HIDE DEF u, w, twice
      <4>4. QED
        BY <3>1, <4>1, <4>2, <4>3
    <3> HIDE DEF u, w, twice
    <3>3. QED
      BY <1>1, <3>1, <3>2 DEF Magnitude
  <2>2. Summable(twice, R)
    BY <1>3, <2>1 DEF Summable
  <2> HIDE DEF twice, R
  <2>3. b \in Int
    BY <1>1
  <2> HIDE DEF b
  <2>4. QED
    BY <2>1, <2>2, <2>3, SumBounded
<1> HIDE DEF R, SV, SS, ST, twice, left
<1>10. left \in Int
  BY <1>5, <1>7
<1>11. 2 * (left * base - P * value[last]) = ST
  <2>1. value[last] \in Int
    BY <1>2
  <2>2. left * base = P * base - SS * base
    BY <1>1, <1>5, <1>7
  <2>3. P * base = P * value[last] + P * SV
    BY <1>1, <1>5, <1>6, <2>1
  <2> DEFINE pv == P * value[last]
             ps == P * SV
             sb == SS * base
  <2>4. pv \in Int /\ ps \in Int /\ sb \in Int
    BY <1>1, <1>5, <2>1
  <2>5. ST = 2 * ps - 2 * sb
    <3>1. (2 * P) * SV = 2 * ps
      BY <1>5
    <3>2. (-(2 * base)) * SS = -(2 * sb)
      BY <1>1, <1>5
    <3> HIDE DEF ps, sb
    <3>3. QED
      BY <1>8, <2>4, <3>1, <3>2
  <2>6. left * base = pv + ps - sb
    <3> DEFINE pb == P * base
    <3>1. pb \in Int /\ left * base = pb - sb /\ pb = pv + ps
      BY <1>1, <2>2, <2>3
    <3> HIDE DEF pb, pv, ps, sb
    <3>2. QED
      BY <2>4, <3>1
  <2> HIDE DEF pv, ps, sb
  <2>7. QED
    BY <2>4, <2>5, <2>6 DEF pv
<1>12. b * Cardinality(C) = b * Cardinality(R) + b /\ b * Cardinality(R) \in Nat
  <2> DEFINE m == Cardinality(R)
  <2>1. m \in Nat /\ Cardinality(C) = m + 1
    BY <1>3
  <2> HIDE DEF m, b
  <2>2. b * (m + 1) = b * m + b /\ b * m \in Nat
    BY <1>1, <2>1
  <2>3. QED
    BY <2>1, <2>2 DEF m
<1>13. 2 * Magnitude(left * base - P * value[last]) <= b * Cardinality(C)
  <2> DEFINE z == left * base - P * value[last]
             m == b * Cardinality(R)
  <2>1. z \in Int /\ 2 * z = ST
    BY <1>1, <1>2, <1>10, <1>11
  <2>2. 2 * z <= m /\ -m <= 2 * z /\ m \in Nat /\ b * Cardinality(C) = m + b
    BY <1>9, <1>12, <2>1
  <2> HIDE DEF z, m, b
  <2>3. 2 * Magnitude(z) <= m + b
    BY <1>1, <2>1, <2>2 DEF Magnitude
  <2>4. QED
    BY <2>2, <2>3 DEF z
<1>14. ASSUME NEW i \in C PROVE 2 * Magnitude(s[i] * base - P * value[i]) <= b * Cardinality(C)
  <2> DEFINE z == 2 * Magnitude(s[i] * base - P * value[i])
             m == b * Cardinality(R)
  <2>1. z \in Int
    <3>1. s[i] * base \in Int /\ P * value[i] \in Int
      BY <1>1, <1>2
    <3>2. QED
      BY <3>1 DEF Magnitude
  <2>2. z <= b /\ m \in Nat /\ b * Cardinality(C) = m + b
    BY <1>2, <1>12
  <2> HIDE DEF z, m, b
  <2>3. z <= m + b
    BY <1>1, <2>1, <2>2
  <2>4. QED
    BY <2>2, <2>3 DEF z
<1>15. QED
  BY <1>2, <1>10, <1>13, <1>14 DEF left, b

-------------------------------------------------------------------------------
(* Shared costs *)

RowType == [basis : Int, plan : Int, actual : Int, adjust : Int]

\* Numbers for the candidates, and perhaps for others.
BasisOver(value, S, C) ==
  S \in SUBSET Initiatives /\ C \subseteq S /\ value \in [S -> Int] /\ IsFiniteSet(S)

LEMMA SubsetsAreFinite == \A S \in SUBSET Initiatives : IsFiniteSet(S)
BY SharedCostsAssumption, FS_Subset

LEMMA DriverType ==
  ASSUME SharedCostsTypeOK, NEW rule \in Rules, NEW default \in Int
  PROVE  BasisOver(Driver(rule, default), active \cup DOMAIN rule.drive, Candidates(rule))
<1>1. rule.drive \in Drive
  BY DEF Rules
<1>2. PICK S \in SUBSET Initiatives : rule.drive \in [S -> Drivers]
  BY <1>1 DEF Drive
<1>3. active \cup DOMAIN rule.drive \in SUBSET Initiatives
  BY <1>2 DEF SharedCostsTypeOK
<1>4. \A i \in DOMAIN rule.drive : rule.drive[i] \in Int
  BY <1>2, SharedCostsAssumption
<1>5. Driver(rule, default) \in [active \cup DOMAIN rule.drive -> Int]
  BY <1>4 DEF Driver
<1>6. Candidates(rule) \subseteq active
  BY DEF Candidates
<1>7. QED
  BY <1>3, <1>5, <1>6, SubsetsAreFinite DEF BasisOver

LEMMA EffectiveType ==
  ASSUME SharedCostsTypeOK, NEW rule \in Rules
  PROVE  /\ BasisOver(Effective(rule), DOMAIN Effective(rule), Candidates(rule))
         /\ rule.method \in {"metric_weighted", "equal_split"} =>
              DOMAIN Effective(rule) = Candidates(rule)
<1> DEFINE C == Candidates(rule)
           one == [i \in C |-> 1]
<1>1. C \in SUBSET Initiatives /\ C \subseteq active
  BY DEF Candidates, SharedCostsTypeOK
<1>2. BasisOver(one, C, C) /\ DOMAIN one = C
  BY <1>1, SubsetsAreFinite DEF BasisOver
<1>3. rule.method \in Methods
  BY DEF Rules
<1>4. /\ BasisOver(Basis(rule), DOMAIN Basis(rule), C)
      /\ rule.method \in {"metric_weighted", "equal_split"} => DOMAIN Basis(rule) = C
  <2>1. CASE rule.method = "equal_split"
    <3>1. Basis(rule) = one
      BY <2>1 DEF Basis
    <3>2. QED
      BY <1>2, <3>1
  <2>2. CASE rule.method = "headcount_weighted"
    <3>1. Basis(rule) = Driver(rule, 1)
      BY <2>2 DEF Basis
    <3>2. BasisOver(Driver(rule, 1), DOMAIN Driver(rule, 1), C)
      BY DriverType DEF Driver
    <3>3. QED
      BY <2>2, <3>1, <3>2
  <2>3. CASE rule.method = "metric_weighted"
    <3> DEFINE value == [i \in C |-> Driver(rule, 0)[i]]
    <3>1. Basis(rule) = value
      BY <2>3 DEF Basis
    <3>2. \A i \in C : Driver(rule, 0)[i] \in Int
      <4>1. BasisOver(Driver(rule, 0), active \cup DOMAIN rule.drive, C)
        BY DriverType
      <4>2. QED
        BY <4>1 DEF BasisOver
    <3>3. BasisOver(value, C, C) /\ DOMAIN value = C
      BY <1>1, <3>2, SubsetsAreFinite DEF BasisOver
    <3>4. QED
      BY <3>1, <3>3
  <2>4. CASE rule.method \in {"fixed_percentage", "manual_amount"}
    <3>1. Basis(rule) = Driver(rule, 0)
      BY <2>4 DEF Basis
    <3>2. BasisOver(Driver(rule, 0), DOMAIN Driver(rule, 0), C)
      BY DriverType DEF Driver
    <3>3. QED
      BY <2>4, <3>1, <3>2
  <2>5. QED
    BY <1>3, <2>1, <2>2, <2>3, <2>4 DEF Methods
<1>5. Effective(rule) = one \/ Effective(rule) = Basis(rule)
  BY DEF Effective
<1> HIDE DEF one, C
<1>6. QED
  BY <1>2, <1>4, <1>5 DEF C

\* A basis may be summed, over the candidates alone too.
LEMMA BasisSummable ==
  ASSUME NEW value, NEW S, NEW C, BasisOver(value, S, C)
  PROVE  Summable(value, S) /\ Summable(value, C) /\ SumFunctionOnSet(value, S) \in Int
<1>1. Summable(value, S) /\ C \in SUBSET S
  BY DEF Summable, BasisOver
<1>2. QED
  BY <1>1, SumIsInteger, SubSummable

\* What the rows of a split are made of.
Base(rule) == IF rule.method = "fixed_percentage" THEN Percent ELSE SumFunction(Effective(rule))

ShareOf(amount, rule, C) ==
  [i \in C |-> IF Base(rule) = 0 THEN 0 ELSE Quotient(amount * Effective(rule)[i], Base(rule))]

Given(amount, rule, C, last) ==
  [i \in C |-> IF i = last THEN LeftOver(amount, ShareOf(amount, rule, C), C, last)
               ELSE ShareOf(amount, rule, C)[i]]

LEMMA ShareType ==
  ASSUME SharedCostsTypeOK, NEW rule \in Rules, NEW amount \in Int, NEW last
  PROVE  LET C == Candidates(rule)
         IN  /\ IsFiniteSet(C) /\ Base(rule) \in Int
             /\ ShareOf(amount, rule, C) \in [C -> Int]
             /\ Given(amount, rule, C, last) \in [C -> Int]
<1> DEFINE C == Candidates(rule)
           value == Effective(rule)
           D == DOMAIN value
           s == ShareOf(amount, rule, C)
<1>1. BasisOver(value, D, C)
  BY EffectiveType
<1>2. Base(rule) \in Int
  <2>1. SumFunction(value) = SumFunctionOnSet(value, D)
    BY DEF SumFunction
  <2>2. SumFunctionOnSet(value, D) \in Int
    BY <1>1, BasisSummable
  <2>3. QED
    BY <2>1, <2>2, SharedCostsAssumption DEF Base
<1>3. IsFiniteSet(C) /\ \A i \in C : value[i] \in Int
  BY <1>1, FS_Subset DEF BasisOver
<1>4. s \in [C -> Int]
  <2>1. ASSUME NEW i \in C, Base(rule) # 0 PROVE Quotient(amount * value[i], Base(rule)) \in Int
    <3>1. amount * value[i] \in Int
      BY <1>3
    <3>2. QED
      BY <1>2, <2>1, <3>1, QuotientRounds
  <2>2. QED
    BY <2>1 DEF ShareOf
<1> HIDE DEF C, value, s
<1>5. LeftOver(amount, s, C, last) \in Int
  <2>1. Summable(s, C \ {last})
    BY <1>3, <1>4, FS_RemoveElement DEF Summable
  <2>2. SumFunctionOnSet(s, C \ {last}) \in Int
    BY <2>1, SumIsInteger
  <2>3. QED
    BY <2>2 DEF LeftOver
<1>6. Given(amount, rule, C, last) \in [C -> Int]
  BY <1>4, <1>5 DEF Given, s
<1>7. QED
  BY <1>2, <1>3, <1>4, <1>6 DEF C, s

\* The rows of a split, and that they are typed.
LEMMA SplitRows ==
  ASSUME SharedCostsTypeOK, NEW rule \in Rules, NEW last
  PROVE  LET C == Candidates(rule)
             rows == Split(rule, last)
         IN  /\ rows \in [C -> RowType]
             /\ \A i \in C : /\ rows[i].basis = Effective(rule)[i]
                             /\ rows[i].plan = Given(pool.plan, rule, C, last)[i]
                             /\ rows[i].actual = Given(pool.actual, rule, C, last)[i]
<1> DEFINE C == Candidates(rule)
           value == Effective(rule)
           R == C \ {last}
           base == IF rule.method = "fixed_percentage" THEN Percent ELSE SumFunction(value)
           share(amount, i) == IF base = 0 THEN 0 ELSE Quotient(amount * value[i], base)
           rest(amount) == amount - SumFunction([i \in R |-> share(amount, i)])
           row(i, plan, actual) == [basis |-> value[i], plan |-> plan, actual |-> actual,
                                    adjust |-> plan - share(pool.plan, i)]
<1>1. Split(rule, last) = [i \in C |-> IF i = last THEN row(i, rest(pool.plan), rest(pool.actual))
                                       ELSE row(i, share(pool.plan, i), share(pool.actual, i))]
  BY DEF Split
<1>2. base = Base(rule)
  BY DEF Base
<1>3. \A amount \in Int : /\ IsFiniteSet(C) /\ ShareOf(amount, rule, C) \in [C -> Int]
                          /\ Given(amount, rule, C, last) \in [C -> Int]
  BY ShareType
<1>4. \A amount \in Int, i \in C : share(amount, i) = ShareOf(amount, rule, C)[i]
  BY <1>2 DEF ShareOf
<1>5. ASSUME NEW amount \in Int
      PROVE  rest(amount) = LeftOver(amount, ShareOf(amount, rule, C), C, last)
  <2> DEFINE f == [i \in R |-> share(amount, i)]
             e == ShareOf(amount, rule, C)
  <2>1. SumFunction(f) = SumFunctionOnSet(f, R)
    BY DEF SumFunction
  <2>2. IsFiniteSet(R) /\ \A i \in R : f[i] = e[i]
    BY <1>3, <1>4, FS_RemoveElement
  <2>3. SumFunctionOnSet(f, R) = SumFunctionOnSet(e, R)
    <3> HIDE DEF f, e, R
    <3>1. QED
      BY <2>2, SumSame
  <2>4. QED
    BY <2>1, <2>3 DEF LeftOver
<1>6. pool.plan \in Int /\ pool.actual \in Int
  BY SharedCostsAssumption DEF SharedCostsTypeOK, Pools
<1> HIDE DEF base, share, rest
<1>7. \A i \in C : Split(rule, last)[i] = row(i, Given(pool.plan, rule, C, last)[i],
                                                 Given(pool.actual, rule, C, last)[i])
  BY <1>1, <1>4, <1>5, <1>6 DEF Given
<1>8. \A i \in C : value[i] \in Int
  <2>1. BasisOver(value, DOMAIN value, C)
    BY EffectiveType
  <2>2. QED
    BY <2>1 DEF BasisOver
<1>9. \A i \in C : share(pool.plan, i) \in Int
  BY <1>3, <1>4, <1>6
<1>10. ASSUME NEW i \in C PROVE Split(rule, last)[i] \in RowType
  <2>1. Given(pool.plan, rule, C, last)[i] \in Int /\ Given(pool.actual, rule, C, last)[i] \in Int
    BY <1>3, <1>6
  <2> DEFINE p == Given(pool.plan, rule, C, last)[i]
             a == Given(pool.actual, rule, C, last)[i]
             d == p - share(pool.plan, i)
  <2>2. p \in Int /\ a \in Int /\ d \in Int /\ value[i] \in Int
    BY <1>8, <1>9, <2>1
  <2>3. Split(rule, last)[i] = [basis |-> value[i], plan |-> p, actual |-> a, adjust |-> d]
    BY <1>7
  <2> HIDE DEF p, a, d, value
  <2>4. QED
    BY <2>2, <2>3 DEF RowType
<1>11. Split(rule, last) \in [C -> RowType]
  <2>1. DOMAIN Split(rule, last) = C /\ Split(rule, last) = [i \in C |-> Split(rule, last)[i]]
    BY <1>1
  <2>2. QED
    BY <1>10, <2>1
<1>12. QED
  BY <1>7, <1>11

LEMMA RowsType ==
  ASSUME SharedCostsTypeOK, NEW rule \in Rules, NEW last
  PROVE  AllocationRows(rule, last) \in [Candidates(rule) -> RowType]
<1>1. CASE rule.method = "manual_amount"
  <2>1. ASSUME NEW i \in Candidates(rule) PROVE Manual(i, rule) \in RowType
    <3>1. BasisOver(Driver(rule, 0), active \cup DOMAIN rule.drive, Candidates(rule))
      BY DriverType
    <3>2. Driver(rule, 0)[i] \in Int
      BY <3>1 DEF BasisOver
    <3>3. pool.plan \in Int /\ pool.actual \in Int
      BY SharedCostsAssumption DEF SharedCostsTypeOK, Pools
    <3>4. pool.plan # 0 => Quotient(pool.actual * Driver(rule, 0)[i], pool.plan) \in Int
      <4>1. pool.actual * Driver(rule, 0)[i] \in Int
        BY <3>2, <3>3
      <4>2. QED
        BY <3>3, <4>1, QuotientRounds
    <3>5. QED
      BY <3>2, <3>4 DEF Manual, RowType
  <2>2. QED
    BY <1>1, <2>1 DEF AllocationRows
<1>2. CASE rule.method # "manual_amount"
  BY <1>2, SplitRows DEF AllocationRows
<1>3. QED
  BY <1>1, <1>2

\* Rows split by a metric, or equally, are in proportion.
InProportion(rows, amounts) ==
  LET base == SumFunction([i \in DOMAIN rows |-> rows[i].basis])
      gap(i) == rows[i].plan * base - amounts.plan * rows[i].basis
  IN  base # 0 =>
        \A i \in DOMAIN rows : 2 * Magnitude(gap(i)) <= Magnitude(base) * Cardinality(DOMAIN rows)

LEMMA SplitInProportion ==
  ASSUME SharedCostsTypeOK, NEW rule \in Rules, NEW last \in Candidates(rule),
         rule.method \in {"metric_weighted", "equal_split"}
  PROVE  InProportion(AllocationRows(rule, last), pool)
<1> DEFINE C == Candidates(rule)
           value == Effective(rule)
           rows == AllocationRows(rule, last)
           base == SumFunction([i \in DOMAIN rows |-> rows[i].basis])
           P == pool.plan
           s == ShareOf(P, rule, C)
<1>1. rows = Split(rule, last)
  BY DEF AllocationRows
<1>2. rows \in [C -> RowType] /\ \A i \in C : rows[i].basis = value[i] /\ rows[i].plan = Given(P, rule, C, last)[i]
  BY <1>1, SplitRows
<1>3. DOMAIN rows = C /\ DOMAIN value = C /\ BasisOver(value, C, C)
  BY <1>2, EffectiveType
<1>4. Summable(value, C) /\ IsFiniteSet(C)
  BY <1>3, BasisSummable DEF Summable
<1>5. base = SumFunctionOnSet(value, C) /\ Base(rule) = SumFunctionOnSet(value, C)
  <2> DEFINE f == [i \in DOMAIN rows |-> rows[i].basis]
  <2>1. base = SumFunctionOnSet(f, C)
    BY <1>3 DEF SumFunction
  <2>2. \A i \in C : f[i] = value[i]
    BY <1>2, <1>3
  <2>3. SumFunctionOnSet(f, C) = SumFunctionOnSet(value, C)
    <3> HIDE DEF f, C, value
    <3>1. QED
      BY <1>4, <2>2, SumSame
  <2>4. Base(rule) = SumFunction(value)
    BY DEF Base
  <2>5. QED
    BY <1>3, <2>1, <2>3, <2>4 DEF SumFunction
<1>6. P \in Int /\ last \in C
  BY SharedCostsAssumption DEF SharedCostsTypeOK, Pools
<1>7. ASSUME base # 0
      PROVE  \A i \in C : 2 * Magnitude(Given(P, rule, C, last)[i] * base - P * value[i])
                            <= Magnitude(base) * Cardinality(C)
  <2>1. Rounded(P, value, base, s, C)
    BY <1>5, <1>7 DEF Rounded, ShareOf
  <2> HIDE DEF C, value, rows, base, P, s
  <2>2. /\ 2 * Magnitude(LeftOver(P, s, C, last) * base - P * value[last])
              <= Magnitude(base) * Cardinality(C)
        /\ \A i \in C : 2 * Magnitude(s[i] * base - P * value[i]) <= Magnitude(base) * Cardinality(C)
    BY <1>4, <1>5, <1>6, <1>7, <2>1, SharesInProportion
  <2>3. \A i \in C : Given(P, rule, C, last)[i] = IF i = last THEN LeftOver(P, s, C, last) ELSE s[i]
    BY DEF Given, s
  <2>4. QED
    BY <2>2, <2>3
<1> HIDE DEF C, value, base, P, rows
<1>8. QED
  BY <1>2, <1>3, <1>7 DEF InProportion, base, P, rows

Reconciles(run) ==
  run.complete => Sums(run.rows, [plan |-> run.of.plan - run.lost.plan,
                                  actual |-> run.of.actual - run.lost.actual])

Proportional(run) ==
  run.method \in {"metric_weighted", "equal_split"} /\ run.lost.rows = 0 =>
    InProportion(run.rows, run.of)

SoundRun(run) == run \in Runs /\ Reconciles(run) /\ Proportional(run)

SharedCostsInv ==
  pool \in Pools /\ active \subseteq Initiatives /\ \A run \in runs : SoundRun(run)

LEMMA InvariantSaysIt == SharedCostsInv => SharedCostsTypeOK /\ RunsAreSound
BY DEF SharedCostsInv, SoundRun, SharedCostsTypeOK, RunsAreSound, RunsReconcile, RowsInProportion,
       Reconciles, Proportional, InProportion

\* What is stored of an accepted run.
LEMMA NewRunIsSound ==
  ASSUME SharedCostsInv, NEW rule \in Rules, NEW last \in Candidates(rule),
         NEW status \in {"preview", "locked"}, NEW complete \in BOOLEAN,
         ~ Refused(rule, AllocationRows(rule, last))
  PROVE  SoundRun([method |-> rule.method, of |-> pool, complete |-> complete,
                   lost |-> [rows |-> 0, plan |-> 0, actual |-> 0], status |-> status,
                   rows |-> IF complete THEN AllocationRows(rule, last) ELSE << >>])
<1> DEFINE C == Candidates(rule)
           rows == AllocationRows(rule, last)
           held == IF complete THEN rows ELSE << >>
           run == [method |-> rule.method, of |-> pool, complete |-> complete,
                   lost |-> [rows |-> 0, plan |-> 0, actual |-> 0], status |-> status,
                   rows |-> held]
<1>1. SharedCostsTypeOK
  BY InvariantSaysIt
<1>2. rows \in [C -> RowType] /\ C \in SUBSET Initiatives
  BY <1>1, RowsType DEF Candidates, SharedCostsTypeOK
<1>3. << >> \in [{} -> RowType] /\ {} \in SUBSET Initiatives
  OBVIOUS
<1>4. held \in UNION {[S -> RowType] : S \in SUBSET Initiatives}
  BY <1>2, <1>3
<1>5. pool \in Pools /\ pool.plan \in Int /\ pool.actual \in Int /\ rule.method \in Methods
  BY <1>1, SharedCostsAssumption DEF SharedCostsTypeOK, Pools, Rules
<1>6. Sums(rows, pool)
  BY DEF Refused
<1>7. run \in Runs
  <2> HIDE DEF held
  <2>1. QED
    BY <1>4, <1>5 DEF Runs, RowType
<1>8. Reconciles(run)
  <2>1. ASSUME complete PROVE Sums(rows, [plan |-> pool.plan - 0, actual |-> pool.actual - 0])
    <3> HIDE DEF rows
    <3>1. QED
      BY <1>5, <1>6 DEF Sums
  <2>2. complete => held = rows
    OBVIOUS
  <2> HIDE DEF held, rows
  <2>3. QED
    BY <2>1, <2>2 DEF Reconciles
<1>9. Proportional(run)
  <2>1. SUFFICES ASSUME rule.method \in {"metric_weighted", "equal_split"}
                 PROVE  InProportion(held, pool)
    <3> HIDE DEF held
    <3>1. QED
      BY DEF Proportional
  <2>2. CASE complete
    BY <1>1, <2>1, <2>2, SplitInProportion
  <2>3. CASE ~ complete
    <3>1. held = << >> /\ DOMAIN << >> = {}
      BY <2>3
    <3> HIDE DEF held
    <3>2. DOMAIN held = {}
      BY <3>1, Zenon
    <3>3. QED
      BY <3>2 DEF InProportion
  <2>4. QED
    BY <2>2, <2>3
<1>10. QED
  BY <1>7, <1>8, <1>9 DEF SoundRun

\* A status says nothing of the amounts.
LEMMA StatusIsNoAmount ==
  ASSUME NEW run, SoundRun(run), NEW status \in {"approved", "locked", "voided"}
  PROVE  SoundRun([run EXCEPT !.status = status])
<1> DEFINE new == [run EXCEPT !.status = status]
<1>1. new \in Runs
  BY DEF SoundRun, Runs
<1>2. /\ new.method = run.method /\ new.of = run.of /\ new.complete = run.complete
      /\ new.lost = run.lost /\ new.rows = run.rows
  BY DEF SoundRun, Runs
<1> HIDE DEF new
<1>3. Reconciles(new) /\ Proportional(new)
  BY <1>2 DEF SoundRun, Reconciles, Proportional
<1>4. QED
  BY <1>1, <1>3 DEF SoundRun, new

\* A run without the row of a deleted initiative, and with what it took along.
CutRows(rows, i) == [j \in DOMAIN rows \ {i} |-> rows[j]]

TakenAlong(run, i) ==
  IF i \in DOMAIN run.rows
  THEN [rows |-> run.lost.rows + 1, plan |-> run.lost.plan + run.rows[i].plan,
        actual |-> run.lost.actual + run.rows[i].actual]
  ELSE run.lost

Without(run, i) == [run EXCEPT !.rows = CutRows(run.rows, i), !.lost = TakenAlong(run, i)]

LEMMA SumOfRows ==
  ASSUME NEW D, IsFiniteSet(D), NEW rows \in [D -> RowType], NEW i \in D
  PROVE  /\ SumFunction([j \in DOMAIN CutRows(rows, i) |-> CutRows(rows, i)[j].plan])
              = SumFunction([j \in DOMAIN rows |-> rows[j].plan]) - rows[i].plan
         /\ SumFunction([j \in DOMAIN CutRows(rows, i) |-> CutRows(rows, i)[j].actual])
              = SumFunction([j \in DOMAIN rows |-> rows[j].actual]) - rows[i].actual
<1> DEFINE rest == CutRows(rows, i)
<1>1. DOMAIN rest = D \ {i} /\ DOMAIN rows = D /\ \A j \in D \ {i} : rest[j] = rows[j]
  BY DEF CutRows
<1>2. SumFunction([j \in D \ {i} |-> rest[j].plan]) = SumFunction([j \in D |-> rows[j].plan]) - rows[i].plan
  <2> DEFINE f == [j \in D |-> rows[j].plan]
             e == [j \in D \ {i} |-> rest[j].plan]
  <2>1. Summable(f, D)
    BY DEF Summable, RowType
  <2>2. \A j \in D \ {i} : e[j] = f[j]
    BY <1>1
  <2>3. f[i] = rows[i].plan /\ f[i] \in Int
    BY <2>1 DEF Summable
  <2>4. SumFunction(f) = SumFunctionOnSet(f, D) /\ SumFunction(e) = SumFunctionOnSet(e, D \ {i})
    BY DEF SumFunction
  <2> HIDE DEF f, e
  <2>5. SumFunctionOnSet(f, D) = f[i] + SumFunctionOnSet(f, D \ {i})
    BY <2>1, SumWithout
  <2>6. Summable(f, D \ {i})
    BY <2>1, SubSummable
  <2>7. SumFunctionOnSet(e, D \ {i}) = SumFunctionOnSet(f, D \ {i})
    BY <2>2, <2>6, SumSame DEF Summable
  <2>8. SumFunctionOnSet(f, D \ {i}) \in Int
    BY <2>6, SumIsInteger
  <2>9. SumFunction(e) = SumFunction(f) - rows[i].plan
    BY <2>3, <2>4, <2>5, <2>7, <2>8
  <2>10. QED
    BY <2>9 DEF e, f
<1>3. SumFunction([j \in D \ {i} |-> rest[j].actual]) = SumFunction([j \in D |-> rows[j].actual]) - rows[i].actual
  <2> DEFINE f == [j \in D |-> rows[j].actual]
             e == [j \in D \ {i} |-> rest[j].actual]
  <2>1. Summable(f, D)
    BY DEF Summable, RowType
  <2>2. \A j \in D \ {i} : e[j] = f[j]
    BY <1>1
  <2>3. f[i] = rows[i].actual /\ f[i] \in Int
    BY <2>1 DEF Summable
  <2>4. SumFunction(f) = SumFunctionOnSet(f, D) /\ SumFunction(e) = SumFunctionOnSet(e, D \ {i})
    BY DEF SumFunction
  <2> HIDE DEF f, e
  <2>5. SumFunctionOnSet(f, D) = f[i] + SumFunctionOnSet(f, D \ {i})
    BY <2>1, SumWithout
  <2>6. Summable(f, D \ {i})
    BY <2>1, SubSummable
  <2>7. SumFunctionOnSet(e, D \ {i}) = SumFunctionOnSet(f, D \ {i})
    BY <2>2, <2>6, SumSame DEF Summable
  <2>8. SumFunctionOnSet(f, D \ {i}) \in Int
    BY <2>6, SumIsInteger
  <2>9. SumFunction(e) = SumFunction(f) - rows[i].actual
    BY <2>3, <2>4, <2>5, <2>7, <2>8
  <2>10. QED
    BY <2>9 DEF e, f
<1>4. QED
  BY <1>1, <1>2, <1>3

LEMMA WithoutIsSound ==
  ASSUME NEW run, SoundRun(run), NEW i
  PROVE  SoundRun(Without(run, i))
<1> DEFINE new == Without(run, i)
           cut == CutRows(run.rows, i)
           lost == TakenAlong(run, i)
<1>1. run \in Runs /\ Reconciles(run) /\ Proportional(run)
  BY DEF SoundRun
<1>2. /\ run = [method |-> run.method, of |-> run.of, complete |-> run.complete,
               lost |-> run.lost, status |-> run.status, rows |-> run.rows]
      /\ run.method \in Methods /\ run.of \in Pools /\ run.complete \in BOOLEAN
      /\ run.lost \in [rows : Nat, plan : Int, actual : Int]
      /\ run.status \in {"preview", "approved", "locked", "voided"}
      /\ run.rows \in UNION {[S -> RowType] : S \in SUBSET Initiatives}
  BY <1>1 DEF Runs, RowType
<1>3. PICK D \in SUBSET Initiatives : run.rows \in [D -> RowType]
  BY <1>2
<1>4. IsFiniteSet(D) /\ DOMAIN run.rows = D
  BY <1>3, SubsetsAreFinite
<1>6. cut \in [D \ {i} -> RowType] /\ D \ {i} \in SUBSET Initiatives
  BY <1>3, <1>4 DEF CutRows
<1>7. lost \in [rows : Nat, plan : Int, actual : Int]
  <2>1. CASE i \in DOMAIN run.rows
    <3>1. run.rows[i] \in RowType
      BY <1>3, <2>1
    <3>2. QED
      BY <1>2, <2>1, <3>1 DEF RowType, TakenAlong
  <2>2. CASE i \notin DOMAIN run.rows
    BY <1>2, <2>2 DEF TakenAlong
  <2>3. QED
    BY <2>1, <2>2
<1>8. /\ new.method = run.method /\ new.of = run.of /\ new.complete = run.complete
      /\ new.lost = lost /\ new.rows = cut
  BY <1>1 DEF Without, Runs
<1>9. new \in Runs
  <2>1. cut \in UNION {[S -> RowType] : S \in SUBSET Initiatives}
    BY <1>6
  <2> HIDE DEF cut, lost
  <2>2. QED
    BY <1>1, <1>7, <2>1 DEF Without, Runs, RowType, cut, lost
<1>10. CASE i \notin D
  <2>1. cut = run.rows /\ lost = run.lost
    BY <1>3, <1>4, <1>10 DEF CutRows, TakenAlong
  <2> HIDE DEF cut, lost, new
  <2>2. Reconciles(new) /\ Proportional(new)
    BY <1>1, <1>8, <2>1 DEF Reconciles, Proportional
  <2>3. QED
    BY <1>9, <2>2 DEF SoundRun, new
<1>11. CASE i \in D
  <2>1. Proportional(new)
    <3>1. new.lost.rows # 0
      BY <1>2, <1>4, <1>8, <1>11 DEF TakenAlong
    <3>2. QED
      BY <3>1 DEF Proportional
  <2>2. Reconciles(new)
    <3>1. SUFFICES ASSUME run.complete
                   PROVE  Sums(cut, [plan |-> run.of.plan - lost.plan, actual |-> run.of.actual - lost.actual])
      <4> HIDE DEF new, cut, lost
      <4>1. QED
        BY <1>8 DEF Reconciles
    <3>2. /\ SumFunction([j \in DOMAIN run.rows |-> run.rows[j].plan]) = run.of.plan - run.lost.plan
          /\ SumFunction([j \in DOMAIN run.rows |-> run.rows[j].actual]) = run.of.actual - run.lost.actual
      BY <1>1, <3>1 DEF Reconciles, Sums
    <3>4. /\ SumFunction([j \in DOMAIN cut |-> cut[j].plan])
               = SumFunction([j \in DOMAIN run.rows |-> run.rows[j].plan]) - run.rows[i].plan
          /\ SumFunction([j \in DOMAIN cut |-> cut[j].actual])
               = SumFunction([j \in DOMAIN run.rows |-> run.rows[j].actual]) - run.rows[i].actual
      BY <1>3, <1>4, <1>11, SumOfRows
    <3>5. lost.plan = run.lost.plan + run.rows[i].plan /\ lost.actual = run.lost.actual + run.rows[i].actual
      BY <1>4, <1>11 DEF TakenAlong
    <3>6. /\ run.of.plan \in Int /\ run.of.actual \in Int /\ run.lost.plan \in Int /\ run.lost.actual \in Int
          /\ run.rows[i].plan \in Int /\ run.rows[i].actual \in Int
      <4>1. run.rows[i] \in RowType
        BY <1>3, <1>11
      <4>2. QED
        BY <1>2, <4>1, SharedCostsAssumption DEF RowType, Pools
    <3> HIDE DEF cut, lost
    <3>7. /\ SumFunction([j \in DOMAIN cut |-> cut[j].plan]) = run.of.plan - lost.plan
          /\ SumFunction([j \in DOMAIN cut |-> cut[j].actual]) = run.of.actual - lost.actual
      BY <3>2, <3>4, <3>5, <3>6
    <3>8. QED
      BY <3>7 DEF Sums
  <2>3. QED
    BY <1>9, <2>1, <2>2 DEF SoundRun
<1>12. QED
  BY <1>10, <1>11

LEMMA SharedCostsStep == SharedCostsInv /\ [SharedCostsNext]_sharedCostVars => SharedCostsInv'
<1> SUFFICES ASSUME SharedCostsInv, [SharedCostsNext]_sharedCostVars PROVE SharedCostsInv'
  OBVIOUS
<1>1. ASSUME NEW p \in Pools, UpdatePool(p) PROVE SharedCostsInv'
  BY <1>1 DEF UpdatePool, SharedCostsInv
<1>2. ASSUME NEW rule \in Rules, NEW last \in Candidates(rule), NEW status \in {"preview", "locked"},
             NEW complete \in BOOLEAN, CreateAllocationRun(rule, last, status, complete)
      PROVE  SharedCostsInv'
  <2> DEFINE run == [method |-> rule.method, of |-> pool, complete |-> complete,
                     lost |-> [rows |-> 0, plan |-> 0, actual |-> 0], status |-> status,
                     rows |-> IF complete THEN AllocationRows(rule, last) ELSE << >>]
  <2>1. ~ Refused(rule, AllocationRows(rule, last)) /\ runs' = runs \cup {run}
        /\ pool' = pool /\ active' = active
    BY <1>2 DEF CreateAllocationRun
  <2>2. SoundRun(run)
    BY <2>1, NewRunIsSound
  <2> HIDE DEF run
  <2>3. QED
    BY <2>1, <2>2 DEF SharedCostsInv
<1>3. ASSUME NEW run \in runs, NEW status \in {"approved", "locked", "voided"}, SetRunStatus(run, status)
      PROVE  SharedCostsInv'
  <2>1. SoundRun([run EXCEPT !.status = status])
    BY StatusIsNoAmount DEF SharedCostsInv
  <2>2. QED
    BY <1>3, <2>1 DEF SetRunStatus, SharedCostsInv
<1>4. ASSUME NEW i \in active, ArchiveCandidate(i) PROVE SharedCostsInv'
  BY <1>4 DEF ArchiveCandidate, SharedCostsInv
<1>5. ASSUME NEW i \in active, DeleteCandidate(i) PROVE SharedCostsInv'
  <2>1. runs' = {Without(run, i) : run \in runs} /\ pool' = pool /\ active' = active \ {i}
    BY <1>5 DEF DeleteCandidate, Without, CutRows, TakenAlong
  <2>2. \A run \in runs : SoundRun(Without(run, i))
    BY WithoutIsSound DEF SharedCostsInv
  <2>3. QED
    BY <2>1, <2>2 DEF SharedCostsInv
<1>6. CASE UNCHANGED sharedCostVars
  BY <1>6 DEF sharedCostVars, SharedCostsInv
<1>7. QED
  BY <1>1, <1>2, <1>3, <1>4, <1>5, <1>6 DEF SharedCostsNext

LEMMA SharedCostsStart == SharedCostsInit => SharedCostsInv
BY DEF SharedCostsInit, SharedCostsInv

LEMMA SharedCostsInvariant == SharedCostsSpec => []SharedCostsInv
BY SharedCostsStart, SharedCostsStep, PTL DEF SharedCostsSpec

\* A pool, its initiatives and its runs keep their types.
THEOREM SharedCostsTyped == SharedCostsSpec => []SharedCostsTypeOK
<1>1. SharedCostsInv => SharedCostsTypeOK
  BY InvariantSaysIt
<1>2. QED
  BY <1>1, SharedCostsInvariant, PTL

\* A run that was accepted is the pool, divided as its rule says: by any method,
\* weights, percentages and amounts, of either sign, whoever comes last, and after
\* any deletion of initiatives (_allocation_preview, create_allocation_run).
THEOREM RunsSound == SharedCostsSpec => []RunsAreSound
<1>1. SharedCostsInv => RunsAreSound
  BY InvariantSaysIt
<1>2. QED
  BY <1>1, SharedCostsInvariant, PTL

-------------------------------------------------------------------------------
(* The reports *)

\* The rows, as functions to sum.
Amount == [v \in Values |-> v.amount]
SpentOn(s) == [c \in Costs |-> Spent(c, s)]

Rows(vs, cs) == vs \subseteq Values /\ cs \subseteq Costs /\ IsFiniteSet(vs) /\ IsFiniteSet(cs)

Parted(vs, key, k) == {v \in vs : key[v] = k}

Keyed(vs, key, K) == IsFiniteSet(K) /\ \A v \in vs : key[v] \in K

LEMMA RowsSummable ==
  ASSUME NEW vs, NEW cs, Rows(vs, cs), NEW s
  PROVE  Summable(Amount, vs) /\ Summable(SpentOn(s), cs)
<1>1. \A v \in vs : Amount[v] \in Int
  BY FiguresAssumption DEF Rows, Amount, Values
<1>2. \A c \in cs : SpentOn(s)[c] \in Int
  BY FiguresAssumption DEF Rows, SpentOn, Spent, Costs
<1>3. QED
  BY <1>1, <1>2 DEF Summable, Rows

LEMMA SubRows ==
  ASSUME NEW vs, NEW cs, Rows(vs, cs), NEW us \in SUBSET vs, NEW ds \in SUBSET cs
  PROVE  Rows(us, ds)
BY FS_Subset DEF Rows

\* What the reports add up.
Gaining(vs, s) == {v \in vs : v.scenario = s /\ InCase(v)}
Repeated(cs) == {c \in cs : c.recurring}
Once(cs) == {c \in cs : ~ c.recurring}

LEMMA AsSums ==
  ASSUME NEW vs, NEW cs, Rows(vs, cs), NEW s
  PROVE  /\ Benefits(vs, s) = SumFunctionOnSet(Amount, Gaining(vs, s))
         /\ Recurring(cs, s) = SumFunctionOnSet(SpentOn(s), Repeated(cs))
         /\ OneOff(cs, s) = SumFunctionOnSet(SpentOn(s), Once(cs))
<1>1. IsFiniteSet(Gaining(vs, s)) /\ IsFiniteSet(Repeated(cs)) /\ IsFiniteSet(Once(cs))
  <2>1. Gaining(vs, s) \in SUBSET vs /\ Repeated(cs) \in SUBSET cs /\ Once(cs) \in SUBSET cs
    BY DEF Gaining, Repeated, Once
  <2>2. QED
    BY <2>1, FS_Subset DEF Rows
<1>2. Benefits(vs, s) = SumFunctionOnSet(Amount, Gaining(vs, s))
  <2> DEFINE f == [v \in Gaining(vs, s) |-> v.amount]
  <2>1. Benefits(vs, s) = SumFunctionOnSet(f, Gaining(vs, s))
    BY DEF Benefits, SumFunction, Gaining
  <2>2. \A v \in Gaining(vs, s) : f[v] = Amount[v]
    BY DEF Gaining, Amount, Rows
  <2> HIDE DEF f
  <2>3. QED
    BY <1>1, <2>1, <2>2, SumSame
<1>3. Recurring(cs, s) = SumFunctionOnSet(SpentOn(s), Repeated(cs))
  <2> DEFINE f == [c \in Repeated(cs) |-> Spent(c, s)]
  <2>1. Recurring(cs, s) = SumFunctionOnSet(f, Repeated(cs))
    BY DEF Recurring, SumFunction, Repeated
  <2>2. \A c \in Repeated(cs) : f[c] = SpentOn(s)[c]
    BY DEF Repeated, SpentOn, Rows
  <2> HIDE DEF f
  <2>3. QED
    BY <1>1, <2>1, <2>2, SumSame
<1>4. OneOff(cs, s) = SumFunctionOnSet(SpentOn(s), Once(cs))
  <2> DEFINE f == [c \in Once(cs) |-> Spent(c, s)]
  <2>1. OneOff(cs, s) = SumFunctionOnSet(f, Once(cs))
    BY DEF OneOff, SumFunction, Once
  <2>2. \A c \in Once(cs) : f[c] = SpentOn(s)[c]
    BY DEF Once, SpentOn, Rows
  <2> HIDE DEF f
  <2>3. QED
    BY <1>1, <2>1, <2>2, SumSame
<1>5. QED
  BY <1>2, <1>3, <1>4

LEMMA FigureType ==
  ASSUME NEW vs, NEW cs, Rows(vs, cs), NEW s
  PROVE  Benefits(vs, s) \in Int /\ Recurring(cs, s) \in Int /\ OneOff(cs, s) \in Int
<1>1. Summable(Amount, vs) /\ Summable(SpentOn(s), cs)
  BY RowsSummable
<1>2. Gaining(vs, s) \in SUBSET vs /\ Repeated(cs) \in SUBSET cs /\ Once(cs) \in SUBSET cs
  BY DEF Gaining, Repeated, Once
<1>3. /\ SumFunctionOnSet(Amount, Gaining(vs, s)) \in Int
      /\ SumFunctionOnSet(SpentOn(s), Repeated(cs)) \in Int
      /\ SumFunctionOnSet(SpentOn(s), Once(cs)) \in Int
  BY <1>1, <1>2, SubSummable, SumIsInteger
<1>4. QED
  BY <1>3, AsSums

\* A sum of f over the elements of a set by their key.
LEMMA SumByKey ==
  ASSUME NEW S, NEW f, Summable(f, S), NEW K, NEW key, Keyed(S, key, K),
         NEW h, \A k \in K : h[k] = SumFunctionOnSet(f, Parted(S, key, k))
  PROVE  SumFunctionOnSet(h, K) = SumFunctionOnSet(f, S)
<1> DEFINE e == [k \in K |-> SumFunctionOnSet(f, {x \in S : key[x] = k})]
<1>1. SumFunctionOnSet(e, K) = SumFunctionOnSet(f, S)
  BY SumByParts DEF Keyed
<1>2. \A k \in K : h[k] = e[k]
  BY DEF Parted
<1> HIDE DEF e
<1>3. SumFunctionOnSet(h, K) = SumFunctionOnSet(e, K)
  BY <1>2, SumSame DEF Keyed
<1>4. QED
  BY <1>1, <1>3

LEMMA BenefitsByKey ==
  ASSUME NEW vs, Rows(vs, {}), NEW s, NEW K, NEW key, Keyed(vs, key, K),
         NEW h, \A k \in K : h[k] = Benefits(Parted(vs, key, k), s)
  PROVE  SumFunctionOnSet(h, K) = Benefits(vs, s)
<1> DEFINE G == Gaining(vs, s)
<1>1. G \in SUBSET vs /\ Summable(Amount, vs)
  BY RowsSummable DEF Gaining
<1>2. Summable(Amount, G) /\ Keyed(G, key, K)
  BY <1>1, SubSummable DEF Keyed
<1>3. ASSUME NEW k \in K PROVE h[k] = SumFunctionOnSet(Amount, Parted(G, key, k))
  <2>1. Parted(vs, key, k) \in SUBSET vs
    BY DEF Parted
  <2>2. Rows(Parted(vs, key, k), {})
    BY <2>1, SubRows
  <2>3. Gaining(Parted(vs, key, k), s) = Parted(G, key, k)
    BY DEF Gaining, Parted
  <2>4. QED
    BY <2>2, <2>3, AsSums
<1> HIDE DEF G
<1>4. SumFunctionOnSet(h, K) = SumFunctionOnSet(Amount, G)
  BY <1>2, <1>3, SumByKey
<1>5. QED
  BY <1>4, AsSums DEF G

AllRecurring(h, K, cs, key, s) == \A k \in K : h[k] = Recurring(Parted(cs, key, k), s)
AllOneOff(h, K, cs, key, s) == \A k \in K : h[k] = OneOff(Parted(cs, key, k), s)

LEMMA CostsByKey ==
  ASSUME NEW cs, Rows({}, cs), NEW s, NEW K, NEW key, Keyed(cs, key, K), NEW h
  PROVE  /\ AllRecurring(h, K, cs, key, s) => SumFunctionOnSet(h, K) = Recurring(cs, s)
         /\ AllOneOff(h, K, cs, key, s) => SumFunctionOnSet(h, K) = OneOff(cs, s)
<1> DEFINE R == Repeated(cs)
           O == Once(cs)
<1>1. R \in SUBSET cs /\ O \in SUBSET cs /\ Summable(SpentOn(s), cs)
  BY RowsSummable DEF Repeated, Once
<1>2. Summable(SpentOn(s), R) /\ Keyed(R, key, K) /\ Summable(SpentOn(s), O) /\ Keyed(O, key, K)
  BY <1>1, SubSummable DEF Keyed
<1>3. ASSUME NEW k \in K
      PROVE  /\ Recurring(Parted(cs, key, k), s) = SumFunctionOnSet(SpentOn(s), Parted(R, key, k))
             /\ OneOff(Parted(cs, key, k), s) = SumFunctionOnSet(SpentOn(s), Parted(O, key, k))
  <2>1. Parted(cs, key, k) \in SUBSET cs
    BY DEF Parted
  <2>2. Rows({}, Parted(cs, key, k))
    BY <2>1, SubRows
  <2>3. Repeated(Parted(cs, key, k)) = Parted(R, key, k) /\ Once(Parted(cs, key, k)) = Parted(O, key, k)
    BY DEF Repeated, Once, Parted
  <2>4. QED
    BY <2>2, <2>3, AsSums
<1> HIDE DEF R, O
<1>4. ASSUME AllRecurring(h, K, cs, key, s)
      PROVE  SumFunctionOnSet(h, K) = Recurring(cs, s)
  <2>1. \A k \in K : h[k] = SumFunctionOnSet(SpentOn(s), Parted(R, key, k))
    BY <1>3, <1>4 DEF AllRecurring
  <2>2. SumFunctionOnSet(h, K) = SumFunctionOnSet(SpentOn(s), R)
    BY <1>2, <2>1, SumByKey
  <2>3. QED
    BY <2>2, AsSums DEF R
<1>5. ASSUME AllOneOff(h, K, cs, key, s)
      PROVE  SumFunctionOnSet(h, K) = OneOff(cs, s)
  <2>1. \A k \in K : h[k] = SumFunctionOnSet(SpentOn(s), Parted(O, key, k))
    BY <1>3, <1>5 DEF AllOneOff
  <2>2. SumFunctionOnSet(h, K) = SumFunctionOnSet(SpentOn(s), O)
    BY <1>2, <2>1, SumByKey
  <2>3. QED
    BY <2>2, AsSums DEF O
<1>6. QED
  BY <1>4, <1>5

LEMMA NetByKey ==
  ASSUME NEW vs, NEW cs, Rows(vs, cs), NEW s, NEW K,
         NEW kv, NEW kc, Keyed(vs, kv, K), Keyed(cs, kc, K),
         NEW h, \A k \in K : h[k] = Net(Parted(vs, kv, k), Parted(cs, kc, k), s)
  PROVE  SumFunctionOnSet(h, K) = Net(vs, cs, s)
<1> DEFINE B == [k \in K |-> Benefits(Parted(vs, kv, k), s)]
           R == [k \in K |-> Recurring(Parted(cs, kc, k), s)]
<1>1. Rows(vs, {}) /\ Rows({}, cs)
  BY FS_EmptySet DEF Rows
<1>2. \A k \in K : Rows(Parted(vs, kv, k), Parted(cs, kc, k))
  <2>1. \A k \in K : Parted(vs, kv, k) \in SUBSET vs /\ Parted(cs, kc, k) \in SUBSET cs
    BY DEF Parted
  <2>2. QED
    BY <2>1, SubRows
<1>3. Summable(B, K) /\ Summable(R, K)
  <2>1. \A k \in K : B[k] \in Int /\ R[k] \in Int
    BY <1>2, FigureType
  <2>2. QED
    BY <2>1 DEF Summable, Keyed
<1>4. \A k \in K : h[k] = B[k] - R[k]
  BY DEF Net
<1>5. \A k \in K : B[k] = Benefits(Parted(vs, kv, k), s) /\ R[k] = Recurring(Parted(cs, kc, k), s)
  OBVIOUS
<1> HIDE DEF B, R
<1>6. SumFunctionOnSet(h, K) = SumFunctionOnSet(B, K) - SumFunctionOnSet(R, K)
  BY <1>3, <1>4, SumMinus
<1>7. SumFunctionOnSet(B, K) = Benefits(vs, s)
  BY <1>1, <1>5, BenefitsByKey
<1>8. SumFunctionOnSet(R, K) = Recurring(cs, s)
  <2>1. AllRecurring(R, K, cs, kc, s)
    BY <1>5 DEF AllRecurring
  <2>2. QED
    BY <1>1, <2>1, CostsByKey
<1>9. QED
  BY <1>6, <1>7, <1>8 DEF Net

\* Rows by their key in a granularity, by their initiative, by their year.
ValueKeyed(g) == [v \in Values |-> ValueKey(v, g)]
CostKeyed(g) == [c \in Costs |-> CostKey(c, g)]
OfValue == [v \in Values |-> v.of]
OfCost == [c \in Costs |-> c.of]
YearOfValue == [v \in Values |-> v.at[1]]
YearOfCost == [c \in Costs |-> c.at[1]]

\* The periods of a report.
KeysOf(vs, cs, g) == {ValueKey(v, g) : v \in vs} \cup {CostKey(c, g) : c \in cs}

LEMMA KeysAreKeys ==
  ASSUME NEW vs, NEW cs, Rows(vs, cs), NEW g
  PROVE  /\ IsFiniteSet(KeysOf(vs, cs, g))
         /\ Keyed(vs, ValueKeyed(g), KeysOf(vs, cs, g))
         /\ Keyed(cs, CostKeyed(g), KeysOf(vs, cs, g))
         /\ \A k : Parted(vs, ValueKeyed(g), k) = {v \in vs : ValueKey(v, g) = k}
         /\ \A k : Parted(cs, CostKeyed(g), k) = {c \in cs : CostKey(c, g) = k}
<1>1. \A v \in vs : ValueKeyed(g)[v] = ValueKey(v, g)
  BY DEF Rows, ValueKeyed
<1>2. \A c \in cs : CostKeyed(g)[c] = CostKey(c, g)
  BY DEF Rows, CostKeyed
<1>3. KeysOf(vs, cs, g) = {ValueKeyed(g)[v] : v \in vs} \cup {CostKeyed(g)[c] : c \in cs}
  BY <1>1, <1>2 DEF KeysOf
<1>4. IsFiniteSet(KeysOf(vs, cs, g))
  <2>1. IsFiniteSet({ValueKeyed(g)[v] : v \in vs}) /\ IsFiniteSet({CostKeyed(g)[c] : c \in cs})
    BY ImageIsFinite DEF Rows
  <2>2. QED
    BY <1>3, <2>1, FS_Union
<1>5. QED
  BY <1>1, <1>2, <1>4 DEF Keyed, Parted, KeysOf

\* A key says its year.
LEMMA KeySaysYear == \A year, month, quarter, g : PeriodKey(year, month, quarter, g)[1] = year
BY DEF PeriodKey

LEMMA ChosenRows ==
  ASSUME Rows(values, costs), NEW ps, NEW y
  PROVE  /\ Rows(ValuesOf(ps), CostsOf(ps))
         /\ Rows(InYear(ValuesOf(ps), y), InYear(CostsOf(ps), y))
<1>1. /\ ValuesOf(ps) \in SUBSET values /\ CostsOf(ps) \in SUBSET costs
      /\ InYear(ValuesOf(ps), y) \in SUBSET values /\ InYear(CostsOf(ps), y) \in SUBSET costs
  BY DEF ValuesOf, CostsOf, InYear
<1>2. QED
  BY <1>1, SubRows

\* A period of the report.
LEMMA PeriodIs ==
  ASSUME NEW ps, NEW y, NEW g, NEW s \in Scenarios
  PROVE  LET vs == InYear(ValuesOf(ps), y)
             cs == InYear(CostsOf(ps), y)
             periods == PortfolioPeriods(ps, y, g)
         IN  /\ DOMAIN periods = KeysOf(vs, cs, g)
             /\ \A k \in KeysOf(vs, cs, g) :
                  LET pvs == {v \in vs : ValueKey(v, g) = k}
                      pcs == {c \in cs : CostKey(c, g) = k}
                  IN  periods[k][s] = [benefits |-> Benefits(pvs, s), recurring |-> Recurring(pcs, s),
                                       oneOff |-> OneOff(pcs, s), net |-> Net(pvs, pcs, s)]
BY DEF PortfolioPeriods, KeysOf

\* The totals of the periods are those of the year.
LEMMA TotalsOfPeriods ==
  ASSUME Rows(values, costs), NEW ps, NEW y, NEW g, NEW s \in Scenarios
  PROVE  LET vs == InYear(ValuesOf(ps), y)
             cs == InYear(CostsOf(ps), y)
             periods == PortfolioPeriods(ps, y, g)
         IN  /\ Total(periods, s, "benefits") = Benefits(vs, s)
             /\ Total(periods, s, "recurring") = Recurring(cs, s)
             /\ Total(periods, s, "oneOff") = OneOff(cs, s)
             /\ Total(periods, s, "net") = Net(vs, cs, s)
<1> DEFINE vs == InYear(ValuesOf(ps), y)
           cs == InYear(CostsOf(ps), y)
           periods == PortfolioPeriods(ps, y, g)
           K == KeysOf(vs, cs, g)
           kv == ValueKeyed(g)
           kc == CostKeyed(g)
           column(field) == [k \in DOMAIN periods |-> periods[k][s][field]]
<1>1. Rows(vs, cs) /\ Rows(vs, {}) /\ Rows({}, cs)
  BY ChosenRows, FS_EmptySet DEF Rows
<1>2. Keyed(vs, kv, K) /\ Keyed(cs, kc, K)
  BY <1>1, KeysAreKeys
<1>3. DOMAIN periods = K
  BY PeriodIs
<1>4. ASSUME NEW k \in K
      PROVE  periods[k][s] = [benefits |-> Benefits(Parted(vs, kv, k), s),
                              recurring |-> Recurring(Parted(cs, kc, k), s),
                              oneOff |-> OneOff(Parted(cs, kc, k), s),
                              net |-> Net(Parted(vs, kv, k), Parted(cs, kc, k), s)]
  <2>1. Parted(vs, kv, k) = {v \in vs : ValueKey(v, g) = k}
        /\ Parted(cs, kc, k) = {c \in cs : CostKey(c, g) = k}
    BY <1>1, KeysAreKeys
  <2>2. QED
    BY <2>1, PeriodIs
<1>5. \A field : Total(periods, s, field) = SumFunctionOnSet(column(field), K)
  BY <1>3 DEF Total, SumFunction
<1>6. \A k \in K : /\ column("benefits")[k] = Benefits(Parted(vs, kv, k), s)
                   /\ column("recurring")[k] = Recurring(Parted(cs, kc, k), s)
                   /\ column("oneOff")[k] = OneOff(Parted(cs, kc, k), s)
                   /\ column("net")[k] = Net(Parted(vs, kv, k), Parted(cs, kc, k), s)
  <2>1. SUFFICES ASSUME NEW k \in K
                 PROVE  /\ column("benefits")[k] = Benefits(Parted(vs, kv, k), s)
                        /\ column("recurring")[k] = Recurring(Parted(cs, kc, k), s)
                        /\ column("oneOff")[k] = OneOff(Parted(cs, kc, k), s)
                        /\ column("net")[k] = Net(Parted(vs, kv, k), Parted(cs, kc, k), s)
    OBVIOUS
  <2>2. \A field : column(field)[k] = periods[k][s][field]
    BY <1>3
  <2> DEFINE row == periods[k][s]
             b == Benefits(Parted(vs, kv, k), s)
             r == Recurring(Parted(cs, kc, k), s)
             o == OneOff(Parted(cs, kc, k), s)
             n == Net(Parted(vs, kv, k), Parted(cs, kc, k), s)
  <2>3. row = [benefits |-> b, recurring |-> r, oneOff |-> o, net |-> n]
    BY <1>4
  <2>4. row["benefits"] = b /\ row["recurring"] = r /\ row["oneOff"] = o /\ row["net"] = n
    <3> HIDE DEF row, b, r, o, n
    <3>1. QED
      BY <2>3
  <2> HIDE DEF column
  <2>5. QED
    BY <2>2, <2>4
<1> HIDE DEF vs, cs, periods, K, kv, kc, column
<1>7. SumFunctionOnSet(column("benefits"), K) = Benefits(vs, s)
  BY <1>1, <1>2, <1>6, BenefitsByKey
<1>8. SumFunctionOnSet(column("recurring"), K) = Recurring(cs, s)
  <2>1. AllRecurring(column("recurring"), K, cs, kc, s)
    BY <1>6 DEF AllRecurring
  <2>2. QED
    BY <1>1, <1>2, <2>1, CostsByKey
<1>9. SumFunctionOnSet(column("oneOff"), K) = OneOff(cs, s)
  <2>1. AllOneOff(column("oneOff"), K, cs, kc, s)
    BY <1>6 DEF AllOneOff
  <2>2. QED
    BY <1>1, <1>2, <2>1, CostsByKey
<1>10. SumFunctionOnSet(column("net"), K) = Net(vs, cs, s)
  BY <1>1, <1>2, <1>6, NetByKey
<1>11. QED
  BY <1>5, <1>7, <1>8, <1>9, <1>10 DEF vs, cs, periods


\* The contributors of a period, by initiative.
ContributorSum(ps, k, g, s, field) == SumFunction([p \in ps |-> Contributor(p, k, g, s)[field]])

LEMMA Contributors ==
  ASSUME Rows(values, costs), NEW ps \in SUBSET Projects, NEW y, NEW g, NEW s \in Scenarios,
         NEW k \in DOMAIN PortfolioPeriods(ps, y, g),
         Parses(k, g), NEW field \in {"benefits", "recurring", "oneOff"}
  PROVE  ContributorSum(ps, k, g, s, field) = PortfolioPeriods(ps, y, g)[k][s][field]
<1> DEFINE vs == InYear(ValuesOf(ps), y)
           cs == InYear(CostsOf(ps), y)
           pvs == {v \in vs : ValueKey(v, g) = k}
           pcs == {c \in cs : CostKey(c, g) = k}
           row == PortfolioPeriods(ps, y, g)[k][s]
           h == [p \in ps |-> Contributor(p, k, g, s)[field]]
<1>1. k \in KeysOf(vs, cs, g)
      /\ row = [benefits |-> Benefits(pvs, s), recurring |-> Recurring(pcs, s),
                oneOff |-> OneOff(pcs, s), net |-> Net(pvs, pcs, s)]
  BY PeriodIs
<1>2. k[1] = y
  <2>1. \A v \in vs : ValueKey(v, g)[1] = y
    BY KeySaysYear DEF ValueKey, InYear
  <2>2. \A c \in cs : CostKey(c, g)[1] = y
    BY KeySaysYear DEF CostKey, InYear
  <2> HIDE DEF vs, cs
  <2>3. QED
    BY <1>1, <2>1, <2>2 DEF KeysOf
<1>3. Rows(vs, cs)
  BY ChosenRows
<1>4. Rows(pvs, pcs) /\ Rows(pvs, {}) /\ Rows({}, pcs)
  <2>1. pvs \in SUBSET vs /\ pcs \in SUBSET cs /\ {} \in SUBSET vs /\ {} \in SUBSET cs
    OBVIOUS
  <2> HIDE DEF vs, cs, pvs, pcs
  <2>2. QED
    BY <1>3, <2>1, SubRows
<1>5. Keyed(pvs, OfValue, ps) /\ Keyed(pcs, OfCost, ps)
  <2>1. IsFiniteSet(ps)
    BY FiguresAssumption, FS_Subset
  <2>2. \A v \in pvs : v \in Values /\ v.of \in ps
    BY <1>4 DEF Rows, InYear, ValuesOf
  <2>3. \A c \in pcs : c \in Costs /\ c.of \in ps
    BY <1>4 DEF Rows, InYear, CostsOf
  <2> HIDE DEF pvs, pcs
  <2>4. QED
    BY <2>1, <2>2, <2>3 DEF Keyed, OfValue, OfCost
<1>6. ASSUME NEW p \in ps
      PROVE  /\ {v \in ValuesOf({p}) : ValueKey(v, g) = k} = Parted(pvs, OfValue, p)
             /\ {c \in CostsOf({p}) : CostKey(c, g) = k} = Parted(pcs, OfCost, p)
  <2>1. \A v \in values : ValueKey(v, g) = k => v.at[1] = y
    BY <1>2, KeySaysYear DEF ValueKey
  <2>2. \A c \in costs : CostKey(c, g) = k => c.at[1] = y
    BY <1>2, KeySaysYear DEF CostKey
  <2>3. /\ \A v \in pvs : OfValue[v] = v.of
        /\ \A c \in pcs : OfCost[c] = c.of
    BY <1>4 DEF Rows, OfValue, OfCost
  <2>4. {v \in ValuesOf({p}) : ValueKey(v, g) = k} = Parted(pvs, OfValue, p)
    BY <2>1, <2>3 DEF Parted, InYear, ValuesOf
  <2>5. {c \in CostsOf({p}) : CostKey(c, g) = k} = Parted(pcs, OfCost, p)
    BY <2>2, <2>3 DEF Parted, InYear, CostsOf
  <2>6. QED
    BY <2>4, <2>5
<1>7. ASSUME NEW p \in ps
      PROVE  Contributor(p, k, g, s) = [benefits |-> Benefits(Parted(pvs, OfValue, p), s),
                                        recurring |-> Recurring(Parted(pcs, OfCost, p), s),
                                        oneOff |-> OneOff(Parted(pcs, OfCost, p), s)]
  BY <1>6 DEF Contributor
<1>8. SumFunction(h) = SumFunctionOnSet(h, ps)
  BY DEF SumFunction
<1> USE DEF ContributorSum
<1>9. \A p \in ps : h[p] = Contributor(p, k, g, s)[field]
  OBVIOUS
<1> HIDE DEF vs, cs, pvs, pcs, row, h
<1>10. CASE field = "benefits"
  <2>1. \A p \in ps : h[p] = Benefits(Parted(pvs, OfValue, p), s)
    BY <1>7, <1>9, <1>10
  <2>2. SumFunctionOnSet(h, ps) = Benefits(pvs, s)
    BY <1>4, <1>5, <2>1, BenefitsByKey
  <2>3. row[field] = Benefits(pvs, s)
    BY <1>1, <1>10
  <2>4. QED
    BY <1>8, <2>2, <2>3 DEF h, row
<1>11. CASE field = "recurring"
  <2>1. \A p \in ps : h[p] = Recurring(Parted(pcs, OfCost, p), s)
    BY <1>7, <1>9, <1>11
  <2>2. AllRecurring(h, ps, pcs, OfCost, s)
    BY <2>1 DEF AllRecurring
  <2>3. SumFunctionOnSet(h, ps) = Recurring(pcs, s)
    BY <1>4, <1>5, <2>2, CostsByKey
  <2>4. row[field] = Recurring(pcs, s)
    BY <1>1, <1>11
  <2>5. QED
    BY <1>8, <2>3, <2>4 DEF h, row
<1>12. CASE field = "oneOff"
  <2>1. \A p \in ps : h[p] = OneOff(Parted(pcs, OfCost, p), s)
    BY <1>7, <1>9, <1>12
  <2>2. AllOneOff(h, ps, pcs, OfCost, s)
    BY <2>1 DEF AllOneOff
  <2>3. SumFunctionOnSet(h, ps) = OneOff(pcs, s)
    BY <1>4, <1>5, <2>2, CostsByKey
  <2>4. row[field] = OneOff(pcs, s)
    BY <1>1, <1>12
  <2>5. QED
    BY <1>8, <2>3, <2>4 DEF h, row
<1>13. QED
  BY <1>10, <1>11, <1>12

LEMMA PeriodsTell == ASSUME Rows(values, costs) PROVE PeriodsTellTheYear
<1>1. SUFFICES ASSUME NEW ps \in SUBSET Projects, NEW y \in Years, NEW g \in Granularities,
                      NEW s \in Scenarios
               PROVE  LET periods == PortfolioPeriods(ps, y, g)
                          summary == PortfolioSummary(ps, y)
                      IN  /\ Total(periods, s, "net") = summary.net[s]
                          /\ Total(periods, s, "recurring") + Total(periods, s, "oneOff") = summary.costs[s]
                          /\ InYearCards(ps, y, g, s).net = summary.net[s]
                          /\ \A key \in DOMAIN periods : Parses(key, g) => \A field \in {"benefits", "recurring", "oneOff"} :
                               SumFunction([p \in ps |-> Contributor(p, key, g, s)[field]])
                                 = periods[key][s][field]
  BY DEF PeriodsTellTheYear
<1> DEFINE vs == InYear(ValuesOf(ps), y)
           cs == InYear(CostsOf(ps), y)
           periods == PortfolioPeriods(ps, y, g)
           summary == PortfolioSummary(ps, y)
<1>2. /\ Total(periods, s, "benefits") = Benefits(vs, s)
      /\ Total(periods, s, "recurring") = Recurring(cs, s)
      /\ Total(periods, s, "oneOff") = OneOff(cs, s)
      /\ Total(periods, s, "net") = Net(vs, cs, s)
  BY TotalsOfPeriods
<1>3. summary.net[s] = Net(vs, cs, s) /\ summary.costs[s] = Recurring(cs, s) + OneOff(cs, s)
  BY DEF PortfolioSummary
<1>4. InYearCards(ps, y, g, s).net = Total(periods, s, "benefits") - Total(periods, s, "recurring")
  BY DEF InYearCards
<1>5. Net(vs, cs, s) = Benefits(vs, s) - Recurring(cs, s)
  BY DEF Net
<1>6. \A key \in DOMAIN periods : Parses(key, g) => \A field \in {"benefits", "recurring", "oneOff"} :
        SumFunction([p \in ps |-> Contributor(p, key, g, s)[field]]) = periods[key][s][field]
  <2>1. SUFFICES ASSUME NEW key \in DOMAIN PortfolioPeriods(ps, y, g),
                        Parses(key, g), NEW field \in {"benefits", "recurring", "oneOff"}
                 PROVE  ContributorSum(ps, key, g, s, field) = PortfolioPeriods(ps, y, g)[key][s][field]
    BY DEF ContributorSum
  <2>2. Rows(values, costs) /\ ps \in SUBSET Projects /\ s \in Scenarios
    OBVIOUS
  <2> HIDE DEF vs, cs, periods, summary
  <2>3. QED
    BY <2>1, <2>2, Contributors
<1> HIDE DEF vs, cs
<1>7. Total(periods, s, "net") = summary.net[s]
  BY <1>2, <1>3
<1>8. Total(periods, s, "recurring") + Total(periods, s, "oneOff") = summary.costs[s]
  BY <1>2, <1>3
<1>9. InYearCards(ps, y, g, s).net = summary.net[s]
  BY <1>2, <1>3, <1>4, <1>5
<1>10. QED
  BY <1>6, <1>7, <1>8, <1>9


\* A report of initiatives, of a set of rows, adds up to that of the set.
LEMMA NetByInitiative ==
  ASSUME NEW vs, NEW cs, Rows(vs, cs), NEW s,
         NEW h, \A p \in Projects : h[p] = Net({v \in vs : v.of = p}, {c \in cs : c.of = p}, s)
  PROVE  SumFunctionOnSet(h, Projects) = Net(vs, cs, s)
<1>1. /\ \A v \in vs : OfValue[v] = v.of /\ v.of \in Projects
      /\ \A c \in cs : OfCost[c] = c.of /\ c.of \in Projects
  BY DEF Rows, OfValue, OfCost, Values, Costs
<1>2. Keyed(vs, OfValue, Projects) /\ Keyed(cs, OfCost, Projects)
  BY <1>1, FiguresAssumption DEF Keyed
<1>3. \A p \in Projects : /\ Parted(vs, OfValue, p) = {v \in vs : v.of = p}
                          /\ Parted(cs, OfCost, p) = {c \in cs : c.of = p}
  BY <1>1 DEF Parted
<1>4. \A p \in Projects : h[p] = Net(Parted(vs, OfValue, p), Parted(cs, OfCost, p), s)
  BY <1>3
<1>5. QED
  BY <1>2, <1>4, NetByKey

\* With plain metrics, what the portfolio counts are the benefits.
LEMMA PlainGains ==
  ASSUME measure \in [Measures -> AllKinds], Plain, NEW vs, NEW cs, Rows(vs, cs), NEW s
  PROVE  {v \in vs : v.scenario = s /\ InPortfolio(v)} = Gaining(vs, s)
<1>1. ASSUME NEW v \in vs PROVE InPortfolio(v) <=> InCase(v)
  <2>1. v.measure \in Measures
    BY DEF Rows, Values
  <2>2. /\ measure[v.measure].class \in {"revenue", "margin", "savings", "cogs"}
        /\ measure[v.measure].isBenefit \in BOOLEAN /\ measure[v.measure].active \in BOOLEAN
    BY <2>1 DEF AllKinds, Classes
  <2>3. measure[v.measure].active /\ (measure[v.measure].isBenefit <=> measure[v.measure].class # "cogs")
    BY <2>1 DEF Plain
  <2>4. QED
    BY <2>2, <2>3 DEF InPortfolio, InCase
<1>2. QED
  BY <1>1 DEF Gaining


\* By initiative, in a year.
LEMMA RowsTellTheYear ==
  ASSUME measure \in [Measures -> AllKinds], Rows(values, costs), Plain,
         NEW y, NEW s \in Scenarios
  PROVE  SumFunction([p \in Projects |-> InitiativeRow(p, y, s).net])
           = PortfolioSummary(Projects, y).net[s]
<1> DEFINE vs == InYear(ValuesOf(Projects), y)
           cs == InYear(CostsOf(Projects), y)
           h == [p \in Projects |-> InitiativeRow(p, y, s).net]
<1>1. Rows(vs, cs)
  BY ChosenRows
<1>2. ASSUME NEW p \in Projects
      PROVE  h[p] = Net({v \in vs : v.of = p}, {c \in cs : c.of = p}, s)
  <2> DEFINE pvs == InYear(ValuesOf({p}), y)
             pcs == InYear(CostsOf({p}), y)
             counted == {v \in pvs : v.scenario = s /\ InPortfolio(v)}
             f == [v \in counted |-> v.amount]
  <2>1. pvs = {v \in vs : v.of = p} /\ pcs = {c \in cs : c.of = p}
    BY DEF InYear, ValuesOf, CostsOf
  <2>2. Rows(pvs, pcs)
    BY ChosenRows
  <2>3. counted = Gaining(pvs, s)
    <3> HIDE DEF pvs, pcs
    <3>1. QED
      BY <2>2, PlainGains
  <2>4. h[p] = SumFunctionOnSet(f, counted) - Recurring(pcs, s)
    BY DEF InitiativeRow, SumFunction
  <2>5. SumFunctionOnSet(f, counted) = SumFunctionOnSet(Amount, counted)
    <3>1. \A v \in counted : f[v] = Amount[v]
      BY <2>2 DEF Amount, Rows
    <3>2. counted \in SUBSET pvs
      OBVIOUS
    <3>3. IsFiniteSet(counted)
      BY <2>2, <3>2, FS_Subset DEF Rows
    <3> HIDE DEF f, counted
    <3>4. QED
      BY <3>1, <3>3, SumSame
  <2> HIDE DEF f, counted, pvs, pcs, h
  <2>6. Benefits(pvs, s) = SumFunctionOnSet(Amount, Gaining(pvs, s))
    BY <2>2, AsSums
  <2>7. h[p] = Net(pvs, pcs, s)
    BY <2>3, <2>4, <2>5, <2>6 DEF Net
  <2>8. QED
    BY <2>1, <2>7
<1>3. SumFunction(h) = SumFunctionOnSet(h, Projects)
  BY DEF SumFunction
<1>4. PortfolioSummary(Projects, y).net[s] = Net(vs, cs, s)
  BY DEF PortfolioSummary
<1>5. SumFunctionOnSet(h, Projects) = Net(vs, cs, s)
  <2> HIDE DEF vs, cs, h
  <2>1. QED
    BY <1>1, <1>2, NetByInitiative
<1>6. QED
  BY <1>3, <1>4, <1>5

\* By initiative, all years.
LEMMA ScenariosTell ==
  ASSUME Rows(values, costs), NEW s
  PROVE  SumFunction([p \in Projects |-> ScenarioNet(p, s)]) = PortfolioNet(s)
<1> DEFINE h == [p \in Projects |-> ScenarioNet(p, s)]
<1>1. \A p \in Projects : h[p] = Net({v \in values : v.of = p}, {c \in costs : c.of = p}, s)
  <2>1. \A p : ValuesOf({p}) = {v \in values : v.of = p} /\ CostsOf({p}) = {c \in costs : c.of = p}
    BY DEF ValuesOf, CostsOf
  <2>2. QED
    BY <2>1 DEF ScenarioNet
<1>2. SumFunction(h) = SumFunctionOnSet(h, Projects)
  BY DEF SumFunction
<1> HIDE DEF h
<1>3. SumFunctionOnSet(h, Projects) = Net(values, costs, s)
  BY <1>1, NetByInitiative
<1>4. QED
  BY <1>2, <1>3 DEF PortfolioNet, h

\* By year.
LEMMA YearsTell ==
  ASSUME Rows(values, costs), NEW s \in Scenarios
  PROVE  SumFunction([y \in Years |-> PortfolioSummary(Projects, y).net[s]]) = PortfolioNet(s)
<1> DEFINE h == [y \in Years |-> PortfolioSummary(Projects, y).net[s]]
<1>1. /\ \A v \in values : YearOfValue[v] = v.at[1]
      /\ \A c \in costs : YearOfCost[c] = c.at[1]
  BY DEF Rows, YearOfValue, YearOfCost
<1>2. IsFiniteSet(Years)
  <2>1. Years = {YearOfValue[v] : v \in values} \cup {YearOfCost[c] : c \in costs}
    BY <1>1 DEF Years
  <2>2. IsFiniteSet({YearOfValue[v] : v \in values}) /\ IsFiniteSet({YearOfCost[c] : c \in costs})
    BY ImageIsFinite DEF Rows
  <2>3. QED
    BY <2>1, <2>2, FS_Union
<1>3. Keyed(values, YearOfValue, Years) /\ Keyed(costs, YearOfCost, Years)
  BY <1>1, <1>2 DEF Keyed, Years
<1>4. ValuesOf(Projects) = values /\ CostsOf(Projects) = costs
  BY DEF ValuesOf, CostsOf, Rows, Values, Costs
<1>5. \A y : /\ InYear(values, y) = Parted(values, YearOfValue, y)
             /\ InYear(costs, y) = Parted(costs, YearOfCost, y)
  BY <1>1 DEF InYear, Parted
<1>6. \A y \in Years :
        h[y] = Net(Parted(values, YearOfValue, y), Parted(costs, YearOfCost, y), s)
  BY <1>4, <1>5 DEF PortfolioSummary
<1>7. SumFunction(h) = SumFunctionOnSet(h, Years)
  BY DEF SumFunction
<1> HIDE DEF h
<1>8. SumFunctionOnSet(h, Years) = Net(values, costs, s)
  BY <1>3, <1>6, NetByKey
<1>9. QED
  BY <1>7, <1>8 DEF PortfolioNet, h


\* Rows by their period of the break-even.
PeriodOfValue == [v \in Values |-> <<v.at[1], 0, v.at[2]>>]
PeriodOfCost == [c \in Costs |-> <<c.at[1], c.quarter, c.at[2]>>]

LEMMA BreakEvenKeys ==
  ASSUME Rows(values, costs), NEW p
  PROVE  /\ Keyed(ValuesOf({p}), PeriodOfValue, BreakEvenPeriods(p))
         /\ Keyed(CostsOf({p}), PeriodOfCost, BreakEvenPeriods(p))
<1> DEFINE vs == ValuesOf({p})
           cs == CostsOf({p})
<1>1. Rows(vs, cs)
  BY ChosenRows
<1>2. /\ \A v \in vs : PeriodOfValue[v] = <<v.at[1], 0, v.at[2]>>
      /\ \A c \in cs : PeriodOfCost[c] = <<c.at[1], c.quarter, c.at[2]>>
  BY <1>1 DEF Rows, PeriodOfValue, PeriodOfCost
<1>3. BreakEvenPeriods(p) = {PeriodOfValue[v] : v \in vs} \cup {PeriodOfCost[c] : c \in cs}
  <2>1. {<<v.at[1], 0, v.at[2]>> : v \in vs} = {PeriodOfValue[v] : v \in vs}
    BY <1>2
  <2>2. {<<c.at[1], c.quarter, c.at[2]>> : c \in cs} = {PeriodOfCost[c] : c \in cs}
    BY <1>2
  <2>3. QED
    BY <2>1, <2>2 DEF BreakEvenPeriods
<1> HIDE DEF vs, cs
<1>4. IsFiniteSet({PeriodOfValue[v] : v \in vs}) /\ IsFiniteSet({PeriodOfCost[c] : c \in cs})
  BY <1>1, ImageIsFinite DEF Rows
<1>5. IsFiniteSet(BreakEvenPeriods(p))
  BY <1>3, <1>4, FS_Union
<1>6. QED
  BY <1>3, <1>5 DEF Keyed, vs, cs

\* At the end of the curve everything is in.
LEMMA BreakEvenTells ==
  ASSUME Rows(values, costs), NEW p, NEW s, \A c \in CostsOf({p}) : c.quarter = 0
  PROVE  /\ Cumulated(p, s).benefits = Benefits(ValuesOf({p}), s)
         /\ Cumulated(p, s).costs = Recurring(CostsOf({p}), s) + OneOff(CostsOf({p}), s)
<1> DEFINE vs == ValuesOf({p})
           cs == CostsOf({p})
           K == BreakEvenPeriods(p)
           gained == [k \in K |-> RunRate(p, s, k).benefits]
           spent == [k \in K |-> RunRate(p, s, k).costs]
           repeated == [k \in K |-> Recurring(Parted(cs, PeriodOfCost, k), s)]
           once == [k \in K |-> OneOff(Parted(cs, PeriodOfCost, k), s)]
<1>1. Rows(vs, cs) /\ Rows(vs, {}) /\ Rows({}, cs)
  BY ChosenRows, FS_EmptySet DEF Rows
<1>2. Keyed(vs, PeriodOfValue, K) /\ Keyed(cs, PeriodOfCost, K)
  BY BreakEvenKeys
<1>3. /\ \A v \in vs : PeriodOfValue[v] = <<v.at[1], 0, v.at[2]>>
      /\ \A c \in cs : PeriodOfCost[c] = <<c.at[1], c.quarter, c.at[2]>>
  BY <1>1 DEF Rows, PeriodOfValue, PeriodOfCost
<1>4. \A k \in K : \E a, b : k = <<a, 0, b>>
  BY DEF BreakEvenPeriods
<1>5. \A v \in vs : v.at = <<v.at[1], v.at[2]>>
  <2>1. \A v \in vs : v.at \in Int \X Int
    BY <1>1, FiguresAssumption DEF Rows, Values
  <2>2. QED
    BY <2>1
<1>6. ASSUME NEW k \in K
      PROVE  /\ {v \in vs : v.at = <<k[1], k[3]>>} = Parted(vs, PeriodOfValue, k)
             /\ {c \in cs : <<c.at[1], c.quarter, c.at[2]>> = k} = Parted(cs, PeriodOfCost, k)
  <2>1. PICK a, b : k = <<a, 0, b>>
    BY <1>4
  <2>2. k[1] = a /\ k[3] = b
    BY <2>1
  <2>3. ASSUME NEW v \in vs PROVE v.at = <<k[1], k[3]>> <=> PeriodOfValue[v] = k
    <3> DEFINE c == v.at[1]
               d == v.at[2]
    <3>1. v.at = <<c, d>> /\ PeriodOfValue[v] = <<c, 0, d>>
      BY <1>3, <1>5
    <3> HIDE DEF c, d
    <3>2. QED
      BY <2>1, <2>2, <3>1
  <2> HIDE DEF vs, cs, K
  <2>4. QED
    BY <1>3, <2>3 DEF Parted
<1>7. \A k \in K : gained[k] = Benefits(Parted(vs, PeriodOfValue, k), s)
  BY <1>6 DEF RunRate
<1>8. \A k \in K : spent[k] = repeated[k] + once[k]
  BY <1>6 DEF RunRate
<1>9. /\ Cumulated(p, s).benefits = SumFunctionOnSet(gained, K)
      /\ Cumulated(p, s).costs = SumFunctionOnSet(spent, K)
  BY DEF Cumulated, SumFunction
<1>10. Summable(repeated, K) /\ Summable(once, K)
  <2>1. \A k \in K : Rows({}, Parted(cs, PeriodOfCost, k))
    <3>1. \A k \in K : Parted(cs, PeriodOfCost, k) \in SUBSET cs /\ {} \in SUBSET {}
      BY DEF Parted
    <3> HIDE DEF cs, K
    <3>2. QED
      BY <1>1, <3>1, SubRows
  <2>2. \A k \in K : repeated[k] \in Int /\ once[k] \in Int
    BY <2>1, FigureType
  <2> HIDE DEF cs, K, repeated, once
  <2>3. QED
    BY <1>2, <2>2 DEF Summable, Keyed
<1>11. AllRecurring(repeated, K, cs, PeriodOfCost, s) /\ AllOneOff(once, K, cs, PeriodOfCost, s)
  BY DEF AllRecurring, AllOneOff
<1> HIDE DEF vs, cs, K, gained, spent, repeated, once
<1>12. SumFunctionOnSet(gained, K) = Benefits(vs, s)
  BY <1>1, <1>2, <1>7, BenefitsByKey
<1>13. SumFunctionOnSet(spent, K) = SumFunctionOnSet(repeated, K) + SumFunctionOnSet(once, K)
  BY <1>8, <1>10, SumPlus
<1>14. SumFunctionOnSet(repeated, K) = Recurring(cs, s) /\ SumFunctionOnSet(once, K) = OneOff(cs, s)
  BY <1>1, <1>2, <1>11, CostsByKey
<1>15. QED
  BY <1>9, <1>12, <1>13, <1>14 DEF vs, cs

LEMMA ReportsDoAgree ==
  ASSUME measure \in [Measures -> AllKinds], Rows(values, costs)
  PROVE  ReportsAgree
BY RowsTellTheYear, ScenariosTell, YearsTell, BreakEvenTells DEF ReportsAgree

-------------------------------------------------------------------------------
(* The rows are of their type and finitely many, whatever is saved. *)

FiguresInv == measure \in [Measures -> AllKinds] /\ Rows(values, costs)

LEMMA FiguresStart == FiguresInit => FiguresInv
BY FiguresAssumption, FS_EmptySet DEF FiguresInit, FiguresInv, Rows

LEMMA FiguresStep == FiguresInv /\ [FiguresNext]_figureVars => FiguresInv'
<1> SUFFICES ASSUME FiguresInv, [FiguresNext]_figureVars PROVE FiguresInv'
  OBVIOUS
<1> USE DEF FiguresInv, Rows
<1>1. ASSUME NEW v \in Values, SaveMetricValue(v) PROVE FiguresInv'
  BY <1>1, FS_AddElement DEF SaveMetricValue
<1>2. ASSUME NEW c \in Costs, SaveCostLine(c) PROVE FiguresInv'
  BY <1>2, FS_AddElement DEF SaveCostLine
<1>3. CASE UNCHANGED figureVars
  BY <1>3 DEF figureVars
<1>4. QED
  BY <1>1, <1>2, <1>3 DEF FiguresNext

LEMMA FiguresInvariant == FiguresSpec => []FiguresInv
BY FiguresStart, FiguresStep, PTL DEF FiguresSpec

\* The rows keep their type.
THEOREM FiguresTyped == FiguresSpec => []FiguresTypeOK
<1>1. FiguresInv => FiguresTypeOK
  BY DEF FiguresInv, Rows, FiguresTypeOK
<1>2. QED
  BY <1>1, FiguresInvariant, PTL

\* Whatever values and costs a tenant saves, and however many: the periods, the
\* contributors, the initiatives, the years and the break-even add up to the
\* portfolio's net value (services/financial.py), with the metrics it has; by
\* initiative when these are configured as the guide says.
THEOREM ReportsTallied == FiguresSpec => []ReportsTally
<1>1. FiguresInv => ReportsTally
  BY PeriodsTell, ReportsDoAgree DEF FiguresInv, ReportsTally
<1>2. QED
  BY <1>1, FiguresInvariant, PTL


-------------------------------------------------------------------------------
(* The order of the formulas *)

Formulae == ActiveFormulas(definition)

LEMMA KeysAreFinite ==
  /\ IsFiniteSet(Formulae) /\ Formulae \subseteq MetricKeys
  /\ Cardinality(Formulae) \in Nat /\ Cardinality(Formulae) <= Displayed
<1>1. IsFiniteSet(MetricKeys) /\ Cardinality(MetricKeys) = Displayed
  BY FormulasAssumption, FS_Interval DEF MetricKeys
<1>2. Formulae \subseteq MetricKeys
  BY DEF Formulae, ActiveFormulas
<1>3. QED
  BY <1>1, <1>2, FS_Subset, FS_CardinalityType

\* A rank of some formulas: whatever one names has a smaller one.
Ranking(T, r) ==
  /\ r \in [T -> Nat]
  /\ \A k \in T : r[k] < Cardinality(T)
  /\ \A k \in T : \A n \in definition[k].names \cap T : r[n] < r[k]

LEMMA Ranked ==
  ASSUME NeverLoops(definition)
  PROVE  \E r : Ranking(Formulae, r)
<1> DEFINE P == {T \in SUBSET Formulae : \E r : Ranking(T, r)}
<1>1. ASSUME NEW T \in SUBSET Formulae, \A x \in T : T \ {x} \in P PROVE T \in P
  <2>0. IsFiniteSet(T) /\ Cardinality(T) \in Nat
    BY KeysAreFinite, FS_Subset, FS_CardinalityType
  <2>1. CASE T = {}
    <3>1. Ranking(T, [k \in T |-> 0])
      BY <2>1 DEF Ranking
    <3>2. QED
      BY <3>1
  <2>2. CASE T # {}
    <3>1. PICK k \in T : definition[k].names \cap T = {}
      BY <2>2 DEF NeverLoops, Formulae
    <3> DEFINE S == T \ {k}
    <3>2. PICK q : Ranking(S, q)
      BY <1>1, <3>1
    <3>3. Cardinality(S) = Cardinality(T) - 1
      BY <2>0, <3>1, FS_RemoveElement
    <3> DEFINE r == [x \in T |-> IF x = k THEN 0 ELSE q[x] + 1]
    <3>4. \A x \in S : q[x] \in Nat /\ q[x] < Cardinality(S)
      BY <3>2 DEF Ranking
    <3>5. Cardinality(T) > 0
      BY <2>0, <2>2, FS_EmptySet
    <3>6. r \in [T -> Nat] /\ \A x \in T : r[x] < Cardinality(T)
      <4>1. ASSUME NEW x \in T PROVE r[x] \in Nat /\ r[x] < Cardinality(T)
        <5>1. CASE x = k
          BY <3>5, <5>1
        <5>2. CASE x # k
          <6>1. q[x] \in Nat /\ q[x] < Cardinality(S) /\ r[x] = q[x] + 1
            BY <3>4, <5>2
          <6> HIDE DEF r, S
          <6>2. QED
            BY <6>1, <3>3, <2>0
        <5>3. QED
          BY <5>1, <5>2
      <4>2. QED
        BY <4>1
    <3>7. ASSUME NEW x \in T, NEW n \in definition[x].names \cap T PROVE r[n] < r[x]
      <4>1. x # k
        BY <3>1
      <4>2. r[x] = q[x] + 1 /\ q[x] \in Nat
        BY <3>4, <4>1
      <4>3. CASE n = k
        BY <4>2, <4>3
      <4>4. CASE n # k
        <5>1. n \in S /\ x \in S /\ n \in definition[x].names \cap S
          BY <4>1, <4>4
        <5>2. q[n] < q[x]
          BY <3>2, <5>1 DEF Ranking
        <5>3. r[n] = q[n] + 1 /\ q[n] \in Nat
          BY <3>4, <4>4
        <5> HIDE DEF r
        <5>4. QED
          BY <4>2, <5>2, <5>3
      <4>5. QED
        BY <4>3, <4>4
    <3>8. Ranking(T, r)
      BY <3>6, <3>7 DEF Ranking
    <3>9. QED
      BY <3>8
  <2>3. QED
    BY <2>1, <2>2
<1> HIDE DEF P
<1>2. \A T \in SUBSET Formulae : T \in P
  BY <1>1, KeysAreFinite, RemovalInduction
<1>3. Formulae \in P
  BY <1>2
<1>4. QED
  BY <1>3 DEF P

\* A recursion over 0 .. n whose steps stay in a set.
Steps(n, V) == [1 .. n -> [V -> V]]

Takes(F, n, V, b, h) ==
  F \in [0 .. n -> V] /\ F[0] = b /\ \A m \in 1 .. n : F[m] = h[m][F[m - 1]]

LEMMA Recursion ==
  ASSUME NEW top \in Nat, NEW V, NEW b \in V, NEW h \in Steps(top, V)
  PROVE  \E F : Takes(F, top, V, b, h)
<1> DEFINE Q == {n \in Nat : n <= top => \E F : Takes(F, n, V, b, h)}
<1>1. 0 \in Q
  <2> DEFINE F == [m \in 0 .. 0 |-> b]
  <2>1. F \in [0 .. 0 -> V] /\ F[0] = b /\ \A m \in 1 .. 0 : FALSE
    OBVIOUS
  <2> HIDE DEF F
  <2>2. Takes(F, 0, V, b, h)
    BY <2>1 DEF Takes
  <2>3. QED
    BY <2>2
<1>2. ASSUME NEW n \in Nat, n \in Q PROVE n + 1 \in Q
  <2>1. SUFFICES ASSUME n + 1 <= top PROVE \E F : Takes(F, n + 1, V, b, h)
    OBVIOUS
  <2>2. PICK G : Takes(G, n, V, b, h)
    <3>1. n <= top
      BY <2>1
    <3>2. QED
      BY <1>2, <3>1
  <2> DEFINE e == h[n + 1][G[n]]
             F == [m \in 0 .. n + 1 |-> IF m = n + 1 THEN e ELSE G[m]]
  <2>3. e \in V
    <3>1. h[n + 1] \in [V -> V] /\ G[n] \in V
      BY <2>1, <2>2 DEF Takes, Steps
    <3>2. QED
      BY <3>1
  <2>4. \A m \in 0 .. n + 1 : F[m] = IF m = n + 1 THEN e ELSE G[m]
    OBVIOUS
  <2>5. F \in [0 .. n + 1 -> V] /\ F[0] = b
    <3> HIDE DEF e
    <3>1. QED
      BY <2>2, <2>3 DEF Takes
  <2>6. ASSUME NEW m \in 1 .. n + 1 PROVE F[m] = h[m][F[m - 1]]
    <3>1. m - 1 \in 0 .. n /\ m - 1 # n + 1 /\ m \in 0 .. n + 1 /\ m - 1 \in 0 .. n + 1
      OBVIOUS
    <3> HIDE DEF F
    <3>2. F[m - 1] = G[m - 1]
      BY <2>4, <3>1
    <3>3. CASE m = n + 1
      <4>1. F[m] = e /\ m - 1 = n
        BY <2>4, <3>1, <3>3
      <4>2. QED
        BY <3>2, <3>3, <4>1
    <3>4. CASE m # n + 1
      <4>1. F[m] = G[m] /\ m \in 1 .. n
        BY <2>4, <3>1, <3>4
      <4>2. QED
        BY <2>2, <3>2, <4>1 DEF Takes
    <3>5. QED
      BY <3>3, <3>4
  <2> HIDE DEF F
  <2>7. Takes(F, n + 1, V, b, h)
    BY <2>5, <2>6 DEF Takes
  <2>8. QED
    BY <2>7
<1> HIDE DEF Q
<1>3. top \in Q
  BY <1>1, <1>2, Induction
<1>4. QED
  BY <1>3 DEF Q

\* Functions that visit a key, and what visiting keys in turn comes to.
Visitors == [MetricKeys \X Seq(MetricKeys) -> Seq(MetricKeys)]

Turns(F, visit, keys, order) ==
  /\ F \in [0 .. Displayed -> Seq(MetricKeys)]
  /\ F[0] = order
  /\ \A n \in 1 .. Displayed : F[n] = IF n \in keys THEN visit[<<n, F[n - 1]>>] ELSE F[n - 1]

LEMMA TurnsTaken ==
  ASSUME NEW visit \in Visitors, NEW keys, NEW order \in Seq(MetricKeys)
  PROVE  \E F : Turns(F, visit, keys, order)
<1> DEFINE V == Seq(MetricKeys)
           next(n, o) == IF n \in keys THEN visit[<<n, o>>] ELSE o
           h == [n \in 1 .. Displayed |-> [o \in V |-> next(n, o)]]
<1>1. \A n \in 1 .. Displayed, o \in V : next(n, o) \in V
  BY FormulasAssumption DEF Visitors, MetricKeys
<1>2. h \in Steps(Displayed, V)
  BY <1>1 DEF Steps
<1>3. PICK F : Takes(F, Displayed, V, order, h)
  <2> HIDE DEF h
  <2>1. QED
    BY <1>2, FormulasAssumption, Recursion
<1>4. F \in [0 .. Displayed -> V] /\ F[0] = order
  BY <1>3 DEF Takes
<1>5. ASSUME NEW n \in 1 .. Displayed PROVE F[n] = next(n, F[n - 1])
  <2>1. F[n] = h[n][F[n - 1]]
    BY <1>3 DEF Takes
  <2>2. F[n - 1] \in V
    <3>1. n - 1 \in 0 .. Displayed
      BY FormulasAssumption
    <3> HIDE DEF V
    <3>2. QED
      BY <1>4, <3>1
  <2>3. \A o \in V : h[n][o] = next(n, o)
    OBVIOUS
  <2> HIDE DEF V, h, next
  <2>4. QED
    BY <2>1, <2>2, <2>3
<1>6. QED
  BY <1>4, <1>5 DEF Turns

LEMMA VisitedIs ==
  ASSUME NEW visit \in Visitors, NEW keys, NEW order \in Seq(MetricKeys)
  PROVE  \E F : Turns(F, visit, keys, order) /\ Visited(visit, keys, order) = F[Displayed]
<1> DEFINE Is(F) == F = [n \in 0 .. Displayed |->
                           IF n = 0 THEN order
                           ELSE IF n \in keys THEN visit[<<n, F[n - 1]>>] ELSE F[n - 1]]
           chosen == CHOOSE F : Is(F)
<1>1. PICK G : Turns(G, visit, keys, order)
  BY TurnsTaken
<1>2. Is(G)
  <2>1. \A n \in 0 .. Displayed : n = 0 \/ n \in 1 .. Displayed
    BY FormulasAssumption
  <2>2. QED
    BY <1>1, <2>1 DEF Turns
<1>3. Is(chosen)
  <2> HIDE DEF Is
  <2>1. QED
    BY <1>2
<1>4. Visited(visit, keys, order) = chosen[Displayed]
  BY DEF Visited
<1> HIDE DEF chosen
<1>5. chosen \in [0 .. Displayed -> Seq(MetricKeys)]
  <2> DEFINE Q == {n \in Nat : n <= Displayed => chosen[n] \in Seq(MetricKeys)}
  <2>1. 0 \in Q
    BY <1>3, FormulasAssumption
  <2>2. ASSUME NEW n \in Nat, n \in Q PROVE n + 1 \in Q
    <3>1. SUFFICES ASSUME n + 1 <= Displayed PROVE chosen[n + 1] \in Seq(MetricKeys)
      OBVIOUS
    <3>2. n + 1 \in 0 .. Displayed /\ n + 1 # 0 /\ (n + 1) - 1 = n /\ n + 1 \in MetricKeys
      BY <3>1, FormulasAssumption DEF MetricKeys
    <3>3. chosen[n] \in Seq(MetricKeys)
      BY <2>2, <3>1, FormulasAssumption
    <3>4. chosen[n + 1] = IF n + 1 \in keys THEN visit[<<n + 1, chosen[n]>>] ELSE chosen[n]
      BY <1>3, <3>2
    <3>5. visit[<<n + 1, chosen[n]>>] \in Seq(MetricKeys)
      BY <3>2, <3>3 DEF Visitors
    <3>6. QED
      BY <3>3, <3>4, <3>5
  <2> HIDE DEF Q
  <2>3. \A n \in Nat : n \in Q
    BY <2>1, <2>2, Induction
  <2>4. \A n \in 0 .. Displayed : chosen[n] \in Seq(MetricKeys)
    BY <2>3, FormulasAssumption DEF Q
  <2>5. QED
    BY <1>3, <2>4
<1>6. Turns(chosen, visit, keys, order)
  <2>1. 0 \in 0 .. Displayed /\ \A n \in 1 .. Displayed : n \in 0 .. Displayed /\ n # 0
    BY FormulasAssumption
  <2>2. chosen[0] = order
    BY <1>3, <2>1
  <2>3. \A n \in 1 .. Displayed :
          chosen[n] = IF n \in keys THEN visit[<<n, chosen[n - 1]>>] ELSE chosen[n - 1]
    BY <1>3, <2>1
  <2>4. QED
    BY <1>5, <2>2, <2>3 DEF Turns
<1>7. QED
  BY <1>4, <1>6

Called(visit) ==
  [call \in MetricKeys \X Seq(MetricKeys) |->
     IF call[1] \in Range(call[2]) THEN call[2]
     ELSE Append(Visited(visit, References(call[1]), call[2]), call[1])]

Uncalled == [call \in MetricKeys \X Seq(MetricKeys) |-> call[2]]

LEMMA CalledType == ASSUME NEW visit \in Visitors PROVE Called(visit) \in Visitors
<1>1. SUFFICES ASSUME NEW call \in MetricKeys \X Seq(MetricKeys)
               PROVE  /\ call[2] \in Seq(MetricKeys)
                      /\ Append(Visited(visit, References(call[1]), call[2]), call[1])
                           \in Seq(MetricKeys)
  BY DEF Called, Visitors
<1>2. call[1] \in MetricKeys /\ call[2] \in Seq(MetricKeys)
  OBVIOUS
<1>3. PICK F : /\ Turns(F, visit, References(call[1]), call[2])
               /\ Visited(visit, References(call[1]), call[2]) = F[Displayed]
  BY <1>2, VisitedIs
<1>4. F[Displayed] \in Seq(MetricKeys)
  BY <1>3, FormulasAssumption DEF Turns
<1>5. QED
  BY <1>2, <1>3, <1>4

LEMMA VisitIs ==
  /\ Visit[0] = Uncalled
  /\ \A d \in 1 .. Displayed : Visit[d] = Called(Visit[d - 1])
  /\ \A d \in 0 .. Displayed : Visit[d] \in Visitors
<1> DEFINE next(v, d) == [call \in MetricKeys \X Seq(MetricKeys) |->
                            IF d = 0 \/ call[1] \in Range(call[2]) THEN call[2]
                            ELSE Append(Visited(v[d - 1], References(call[1]), call[2]), call[1])]
           Is(F) == F = [d \in 0 .. Displayed |-> next(F, d)]
           h == [d \in 1 .. Displayed |-> [visit \in Visitors |-> Called(visit)]]
<1>1. Uncalled \in Visitors
  BY DEF Uncalled, Visitors
<1>2. h \in Steps(Displayed, Visitors)
  BY CalledType DEF Steps
<1>3. PICK G : Takes(G, Displayed, Visitors, Uncalled, h)
  <2> HIDE DEF h
  <2>1. QED
    BY <1>1, <1>2, FormulasAssumption, Recursion
<1>4. \A d \in 0 .. Displayed : d = 0 \/ (d \in 1 .. Displayed /\ d # 0 /\ d - 1 \in 0 .. Displayed)
  BY FormulasAssumption
<1>5. ASSUME NEW F PROVE /\ next(F, 0) = Uncalled
                         /\ \A d : d # 0 => next(F, d) = Called(F[d - 1])
  BY DEF Uncalled, Called
<1>6. Is(G)
  <2>1. \A d \in 1 .. Displayed : G[d] = Called(G[d - 1])
    <3>1. SUFFICES ASSUME NEW d \in 1 .. Displayed PROVE G[d] = Called(G[d - 1])
      OBVIOUS
    <3>2. G[d] = h[d][G[d - 1]] /\ G[d - 1] \in Visitors
      BY <1>3, <1>4, FormulasAssumption DEF Takes
    <3>3. QED
      BY <3>2
  <2>2. G[0] = Uncalled /\ G \in [0 .. Displayed -> Visitors]
    BY <1>3 DEF Takes
  <2> HIDE DEF next
  <2>3. \A d \in 0 .. Displayed : G[d] = next(G, d)
    BY <1>4, <1>5, <2>1, <2>2
  <2>4. QED
    BY <2>2, <2>3
<1>7. Is(Visit)
  <2>1. Is(CHOOSE F : Is(F))
    <3> HIDE DEF Is
    <3>1. QED
      BY <1>6
  <2>2. Visit = CHOOSE F : Is(F)
    BY DEF Visit
  <2> HIDE DEF Is
  <2>3. QED
    BY <2>1, <2>2
<1> HIDE DEF next
<1>8. 0 \in 0 .. Displayed /\ \A d \in 1 .. Displayed : d \in 0 .. Displayed
  BY FormulasAssumption
<1>9. Visit[0] = Uncalled /\ \A d \in 1 .. Displayed : Visit[d] = Called(Visit[d - 1])
  <2>1. \A d \in 0 .. Displayed : Visit[d] = next(Visit, d)
    BY <1>7
  <2>2. Visit[0] = Uncalled
    BY <1>5, <1>8, <2>1
  <2>3. ASSUME NEW d \in 1 .. Displayed PROVE Visit[d] = Called(Visit[d - 1])
    <3>1. Visit[d] = next(Visit, d) /\ d # 0
      BY <1>8, <2>1
    <3>2. QED
      BY <1>5, <3>1
  <2>4. QED
    BY <2>2, <2>3
<1>10. \A d \in Nat : d \in {n \in Nat : n <= Displayed => Visit[n] \in Visitors}
  <2> DEFINE Q == {n \in Nat : n <= Displayed => Visit[n] \in Visitors}
  <2>1. 0 \in Q
    BY <1>1, <1>9
  <2>2. ASSUME NEW n \in Nat, n \in Q PROVE n + 1 \in Q
    <3>1. SUFFICES ASSUME n + 1 <= Displayed PROVE Visit[n + 1] \in Visitors
      OBVIOUS
    <3>2. n + 1 \in 1 .. Displayed /\ (n + 1) - 1 = n /\ n <= Displayed
      BY <3>1, FormulasAssumption
    <3>3. Visit[n + 1] = Called(Visit[n])
      BY <1>9, <3>2
    <3>4. QED
      BY <2>2, <3>2, <3>3, CalledType
  <2> HIDE DEF Q
  <2>3. \A n \in Nat : n \in Q
    BY <2>1, <2>2, Induction
  <2>4. QED
    BY <2>3 DEF Q
<1>11. QED
  BY <1>9, <1>10, FormulasAssumption


\* An order in which every formula stands once, behind those it names.
Settled(o) ==
  /\ o \in Seq(MetricKeys)
  /\ \A i \in DOMAIN o : o[i] \in Formulae
  /\ \A i, j \in DOMAIN o : i # j => o[i] # o[j]
  /\ \A i \in DOMAIN o : \A n \in References(o[i]) : \E j \in 1 .. i - 1 : o[j] = n

LEMMA SettledAppend ==
  ASSUME NEW o, Settled(o), NEW k \in Formulae, k \notin Range(o), References(k) \subseteq Range(o)
  PROVE  Settled(Append(o, k)) /\ Range(Append(o, k)) = Range(o) \cup {k}
<1> DEFINE p == Append(o, k)
           n == Len(o)
<1>1. k \in MetricKeys /\ o \in Seq(MetricKeys)
  BY KeysAreFinite DEF Settled
<1>2. n \in Nat /\ DOMAIN o = 1 .. n
  BY <1>1, LenProperties
<1>3. /\ p \in Seq(MetricKeys) /\ DOMAIN p = 1 .. n + 1
      /\ p[n + 1] = k /\ \A i \in 1 .. n : p[i] = o[i]
  BY <1>1, <1>2, AppendProperties, LenProperties
<1>4. \A i \in 1 .. n : o[i] # k /\ p[i] = o[i]
  BY <1>2, <1>3 DEF Range
<1> HIDE DEF p, n
<1>5. \A i \in DOMAIN p : i \in 1 .. n \/ i = n + 1
  BY <1>2, <1>3
<1>6. \A i \in DOMAIN p : p[i] \in Formulae
  BY <1>2, <1>3, <1>5 DEF Settled
<1>7. \A i, j \in DOMAIN p : i # j => p[i] # p[j]
  <2>1. SUFFICES ASSUME NEW i \in DOMAIN p, NEW j \in DOMAIN p, i # j PROVE p[i] # p[j]
    OBVIOUS
  <2>2. \A a, b \in 1 .. n : a # b => o[a] # o[b]
    BY <1>2 DEF Settled
  <2>3. QED
    BY <1>3, <1>4, <1>5, <2>1, <2>2
<1>8. ASSUME NEW i \in DOMAIN p, NEW r \in References(p[i])
      PROVE  \E j \in 1 .. i - 1 : p[j] = r
  <2>1. CASE i \in 1 .. n
    <3>1. r \in References(o[i])
      BY <1>3, <2>1
    <3>2. PICK j \in 1 .. i - 1 : o[j] = r
      BY <1>2, <2>1, <3>1 DEF Settled
    <3>3. j \in 1 .. n
      BY <1>2, <2>1
    <3>4. QED
      BY <1>3, <3>2, <3>3
  <2>2. CASE i = n + 1
    <3>1. r \in Range(o)
      BY <1>3, <2>2
    <3>2. PICK j \in 1 .. n : o[j] = r
      BY <1>2, <3>1 DEF Range
    <3>3. j \in 1 .. i - 1
      BY <1>2, <2>2
    <3>4. QED
      BY <1>3, <3>2, <3>3
  <2>3. QED
    BY <1>5, <2>1, <2>2
<1>9. Range(p) = Range(o) \cup {k}
  <2>1. Range(p) = {p[i] : i \in 1 .. n + 1} /\ Range(o) = {o[i] : i \in 1 .. n}
    BY <1>2, <1>3 DEF Range
  <2>2. n + 1 \in 1 .. n + 1 /\ \A i \in 1 .. n + 1 : i \in 1 .. n \/ i = n + 1
    BY <1>2
  <2>3. \A i \in 1 .. n : i \in 1 .. n + 1
    BY <1>2
  <2>4. QED
    BY <1>3, <2>1, <2>2, <2>3
<1>10. QED
  BY <1>3, <1>6, <1>7, <1>8, <1>9 DEF Settled, p

\* What visiting adds to an order is in the set.
Leads(o, p, B) == Settled(p) /\ Range(o) \subseteq Range(p) /\ Range(p) \subseteq Range(o) \cup B

LEMMA VisitedSound ==
  ASSUME NEW visit \in Visitors, NEW keys \in SUBSET Formulae, NEW B, NEW order, Settled(order),
         \A k \in keys : \A o : Settled(o) =>
           Leads(o, visit[<<k, o>>], B) /\ k \in Range(visit[<<k, o>>])
  PROVE  Leads(order, Visited(visit, keys, order), B) /\ keys \subseteq Range(Visited(visit, keys, order))
<1>1. PICK F : Turns(F, visit, keys, order) /\ Visited(visit, keys, order) = F[Displayed]
  BY VisitedIs DEF Settled
<1> DEFINE Q == {n \in Nat : n <= Displayed =>
                   Leads(order, F[n], B) /\ \A k \in keys : k <= n => k \in Range(F[n])}
<1>2. \A k \in keys : k \in 1 .. Displayed
  BY KeysAreFinite DEF MetricKeys
<1>3. 0 \in Q
  <2>1. F[0] = order /\ \A k \in keys : ~ (k <= 0)
    BY <1>1, <1>2, FormulasAssumption DEF Turns
  <2>2. Leads(order, order, B)
    BY DEF Leads
  <2>3. QED
    BY <2>1, <2>2
<1>4. ASSUME NEW n \in Nat, n \in Q PROVE n + 1 \in Q
  <2>1. SUFFICES ASSUME n + 1 <= Displayed
                 PROVE  /\ Leads(order, F[n + 1], B)
                        /\ \A k \in keys : k <= n + 1 => k \in Range(F[n + 1])
    OBVIOUS
  <2>2. n + 1 \in 1 .. Displayed /\ (n + 1) - 1 = n /\ n <= Displayed
    BY <2>1, FormulasAssumption
  <2>3. Leads(order, F[n], B) /\ \A k \in keys : k <= n => k \in Range(F[n])
    BY <1>4, <2>2
  <2>4. F[n + 1] = IF n + 1 \in keys THEN visit[<<n + 1, F[n]>>] ELSE F[n]
    BY <1>1, <2>2 DEF Turns
  <2>5. \A k \in keys : k <= n + 1 => k <= n \/ k = n + 1
    BY <1>2
  <2>6. CASE n + 1 \in keys
    <3>1. Leads(F[n], F[n + 1], B) /\ n + 1 \in Range(F[n + 1])
      BY <2>3, <2>4, <2>6 DEF Leads
    <3>2. Leads(order, F[n + 1], B) /\ Range(F[n]) \subseteq Range(F[n + 1])
      BY <2>3, <3>1 DEF Leads
    <3>3. QED
      BY <2>3, <2>5, <3>1, <3>2
  <2>7. CASE n + 1 \notin keys
    BY <2>3, <2>4, <2>5, <2>7
  <2>8. QED
    BY <2>6, <2>7
<1> HIDE DEF Q
<1>5. Displayed \in Q
  BY <1>3, <1>4, Induction, FormulasAssumption
<1>6. Leads(order, F[Displayed], B) /\ \A k \in keys : k <= Displayed => k \in Range(F[Displayed])
  BY <1>5, FormulasAssumption DEF Q
<1>7. QED
  BY <1>1, <1>2, <1>6

\* Visits that may go d calls deep settle every formula of a smaller rank.
Sound(visit, r, d) ==
  \A k \in Formulae : \A o :
    r[k] < d /\ Settled(o) =>
      /\ Leads(o, visit[<<k, o>>], {x \in Formulae : r[x] <= r[k]})
      /\ k \in Range(visit[<<k, o>>])

LEMMA CalledSound ==
  ASSUME NEW r, Ranking(Formulae, r), NEW visit \in Visitors, NEW d \in Nat, Sound(visit, r, d)
  PROVE  Sound(Called(visit), r, d + 1)
<1>1. SUFFICES ASSUME NEW k \in Formulae, NEW o, r[k] < d + 1, Settled(o)
               PROVE  /\ Leads(o, Called(visit)[<<k, o>>], {x \in Formulae : r[x] <= r[k]})
                      /\ k \in Range(Called(visit)[<<k, o>>])
  BY DEF Sound
<1> DEFINE B == {x \in Formulae : r[x] <= r[k]}
           Below == {x \in Formulae : r[x] < r[k]}
           p == Visited(visit, References(k), o)
<1>2. <<k, o>> \in MetricKeys \X Seq(MetricKeys)
  BY <1>1, KeysAreFinite DEF Settled
<1>3. Called(visit)[<<k, o>>] = IF k \in Range(o) THEN o ELSE Append(p, k)
  BY <1>2 DEF Called
<1>4. \A x \in Formulae : r[x] \in Nat
  BY DEF Ranking
<1>5. CASE k \in Range(o)
  <2>1. Leads(o, o, B)
    BY <1>1 DEF Leads
  <2>2. QED
    BY <1>3, <1>5, <2>1
<1>6. CASE k \notin Range(o)
  <2>1. References(k) \in SUBSET Formulae
    BY DEF References, Formulae
  <2>2. \A n \in References(k) : r[n] < r[k] /\ r[n] < d
    <3>1. \A n \in References(k) : r[n] < r[k] /\ n \in Formulae
      BY <2>1 DEF Ranking, References, Formulae
    <3>2. QED
      BY <1>1, <1>4, <3>1
  <2>3. ASSUME NEW n \in References(k), NEW q, Settled(q)
        PROVE  Leads(q, visit[<<n, q>>], Below) /\ n \in Range(visit[<<n, q>>])
    <3>1. n \in Formulae /\ r[n] < r[k] /\ r[n] < d
      BY <2>1, <2>2
    <3>2. /\ Leads(q, visit[<<n, q>>], {x \in Formulae : r[x] <= r[n]})
          /\ n \in Range(visit[<<n, q>>])
      BY <2>3, <3>1 DEF Sound
    <3>3. {x \in Formulae : r[x] <= r[n]} \subseteq Below
      BY <1>4, <3>1
    <3> HIDE DEF Below
    <3>4. QED
      BY <3>2, <3>3 DEF Leads
  <2>4. Leads(o, p, Below) /\ References(k) \subseteq Range(p)
    <3> HIDE DEF Below
    <3>1. QED
      BY <1>1, <2>1, <2>3, VisitedSound
  <2>5. k \notin Range(p)
    <3>1. k \notin Below
      BY <1>4
    <3>2. QED
      BY <1>6, <2>4, <3>1 DEF Leads
  <2> HIDE DEF p, Below
  <2>6. Settled(Append(p, k)) /\ Range(Append(p, k)) = Range(p) \cup {k}
    BY <2>4, <2>5, SettledAppend DEF Leads
  <2>7. Below \cup {k} \subseteq B
    BY <1>4 DEF Below
  <2> HIDE DEF B
  <2>8. Leads(o, Append(p, k), B) /\ k \in Range(Append(p, k))
    BY <2>4, <2>6, <2>7 DEF Leads
  <2>9. QED
    BY <1>3, <1>6, <2>8 DEF B
<1>7. QED
  BY <1>5, <1>6

LEMMA VisitSound ==
  ASSUME NEW r, Ranking(Formulae, r)
  PROVE  Sound(Visit[Displayed], r, Displayed)
<1> DEFINE Q == {n \in Nat : n <= Displayed => Sound(Visit[n], r, n)}
<1>1. 0 \in Q
  <2>1. \A k \in Formulae : ~ (r[k] < 0)
    BY DEF Ranking
  <2>2. QED
    BY <2>1 DEF Sound
<1>2. ASSUME NEW n \in Nat, n \in Q PROVE n + 1 \in Q
  <2>1. SUFFICES ASSUME n + 1 <= Displayed PROVE Sound(Visit[n + 1], r, n + 1)
    OBVIOUS
  <2>2. n + 1 \in 1 .. Displayed /\ (n + 1) - 1 = n /\ n <= Displayed /\ n \in 0 .. Displayed
    BY <2>1, FormulasAssumption
  <2>3. Visit[n + 1] = Called(Visit[n]) /\ Visit[n] \in Visitors
    BY <2>2, VisitIs
  <2>4. Sound(Visit[n], r, n)
    BY <1>2, <2>2
  <2>5. QED
    BY <2>3, <2>4, CalledSound
<1> HIDE DEF Q
<1>3. Displayed \in Q
  BY <1>1, <1>2, Induction, FormulasAssumption
<1>4. QED
  BY <1>3, FormulasAssumption DEF Q

\* The order that is found has every active formula.
LEMMA OrderedIs ==
  ASSUME NeverLoops(definition)
  PROVE  Settled(Ordered) /\ Range(Ordered) = Formulae
<1>1. PICK r : Ranking(Formulae, r)
  BY Ranked
<1> DEFINE visit == Visit[Displayed]
<1>2. visit \in Visitors /\ Sound(visit, r, Displayed)
  BY <1>1, VisitSound, VisitIs, FormulasAssumption
<1>3. \A k \in Formulae : r[k] < Displayed
  BY <1>1, KeysAreFinite, FormulasAssumption DEF Ranking
<1>4. Settled(<< >>) /\ Range(<< >>) = {}
  <2>1. DOMAIN << >> = {} /\ << >> \in Seq(MetricKeys)
    BY EmptySeq, LenProperties
  <2>2. QED
    BY <2>1 DEF Settled, Range
<1>5. ASSUME NEW k \in Formulae, NEW o, Settled(o)
      PROVE  Leads(o, visit[<<k, o>>], Formulae) /\ k \in Range(visit[<<k, o>>])
  <2>1. /\ Leads(o, visit[<<k, o>>], {x \in Formulae : r[x] <= r[k]})
        /\ k \in Range(visit[<<k, o>>])
    BY <1>2, <1>3, <1>5 DEF Sound
  <2>2. QED
    BY <2>1 DEF Leads
<1> HIDE DEF visit
<1>6. /\ Leads(<< >>, Visited(visit, Formulae, << >>), Formulae)
      /\ Formulae \subseteq Range(Visited(visit, Formulae, << >>))
  BY <1>2, <1>4, <1>5, VisitedSound
<1>7. Ordered = Visited(visit, Formulae, << >>)
  BY DEF Ordered, Formulae, visit
<1>8. QED
  BY <1>4, <1>6, <1>7 DEF Leads


\* The values as they are computed one by one.
StoredOnly(held) == [k \in MetricKeys |-> IF definition[k].kind = "input" THEN held[k] ELSE 0]
Computing(env, k) == [env EXCEPT ![k] = Evaluated(k, env)]

ComputedTo(F, n, held) ==
  F = [m \in 0 .. n |-> IF m = 0 THEN StoredOnly(held) ELSE Computing(F[m - 1], Ordered[m])]

LEMMA ComputingEnds ==
  ASSUME NEW held, NEW top \in Nat
  PROVE  \E F : ComputedTo(F, top, held)
<1> DEFINE Q == {n \in Nat : \E F : ComputedTo(F, n, held)}
<1>1. 0 \in Q
  <2> DEFINE F == [m \in 0 .. 0 |-> StoredOnly(held)]
  <2>1. ComputedTo(F, 0, held)
    BY DEF ComputedTo
  <2>2. QED
    BY <2>1
<1>2. ASSUME NEW n \in Nat, n \in Q PROVE n + 1 \in Q
  <2>1. PICK G : ComputedTo(G, n, held)
    BY <1>2
  <2> DEFINE e == Computing(G[n], Ordered[n + 1])
             F == [m \in 0 .. n + 1 |-> IF m = n + 1 THEN e ELSE G[m]]
  <2>2. \A m \in 0 .. n + 1 : F[m] = IF m = n + 1 THEN e ELSE G[m]
    OBVIOUS
  <2>3. \A m \in 0 .. n :
          G[m] = IF m = 0 THEN StoredOnly(held) ELSE Computing(G[m - 1], Ordered[m])
    BY <2>1 DEF ComputedTo
  <2>4. ASSUME NEW m \in 0 .. n + 1
        PROVE  F[m] = IF m = 0 THEN StoredOnly(held) ELSE Computing(F[m - 1], Ordered[m])
    <3> HIDE DEF F
    <3>1. CASE m = n + 1
      <4>1. m # 0 /\ m - 1 = n /\ n \in 0 .. n + 1 /\ n # n + 1
        BY <3>1
      <4>2. F[m] = e /\ F[m - 1] = G[n]
        BY <2>2, <3>1, <4>1
      <4>3. QED
        BY <3>1, <4>1, <4>2
    <3>2. CASE m # n + 1
      <4>1. m \in 0 .. n
        BY <3>2
      <4>2. CASE m = 0
        BY <2>2, <2>3, <3>2, <4>1, <4>2
      <4>3. CASE m # 0
        <5>1. m - 1 \in 0 .. n + 1 /\ m - 1 # n + 1
          BY <4>1, <4>3
        <5>2. F[m] = G[m] /\ F[m - 1] = G[m - 1]
          BY <2>2, <3>2, <5>1
        <5>3. QED
          BY <2>3, <4>1, <4>3, <5>2
      <4>4. QED
        BY <4>2, <4>3
    <3>3. QED
      BY <3>1, <3>2
  <2>5. F = [m \in 0 .. n + 1 |-> F[m]]
    OBVIOUS
  <2> HIDE DEF F
  <2>6. ComputedTo(F, n + 1, held)
    <3> DEFINE H == [m \in 0 .. n + 1 |->
                       IF m = 0 THEN StoredOnly(held) ELSE Computing(F[m - 1], Ordered[m])]
    <3>1. \A m \in 0 .. n + 1 : H[m] = F[m]
      BY <2>4
    <3>2. H = [m \in 0 .. n + 1 |-> H[m]]
      OBVIOUS
    <3> HIDE DEF H
    <3>3. F = H
      BY <2>5, <3>1, <3>2
    <3>4. QED
      BY <3>3 DEF ComputedTo, H
  <2>7. QED
    BY <2>6
<1> HIDE DEF Q
<1>3. top \in Q
  BY <1>1, <1>2, Induction
<1>4. QED
  BY <1>3 DEF Q

LEMMA ValuesAre ==
  ASSUME NEW held, Len(Ordered) \in Nat
  PROVE  \E F : /\ ComputedTo(F, Len(Ordered), held)
                /\ ValuesWithFormulas(held) = F[Len(Ordered)]
<1> DEFINE Is(F) == ComputedTo(F, Len(Ordered), held)
           chosen == CHOOSE F : Is(F)
<1>1. Is(chosen)
  <2>1. \E F : Is(F)
    BY ComputingEnds
  <2> HIDE DEF Is
  <2>2. QED
    BY <2>1
<1>2. ValuesWithFormulas(held) = chosen[Len(Ordered)]
  BY DEF ValuesWithFormulas, ComputedTo, StoredOnly, Computing
<1> HIDE DEF chosen
<1>3. QED
  BY <1>1, <1>2

\* A value stays as it is once no step computes it any more.
LEMMA ValueStays ==
  ASSUME NEW held, NEW top \in Nat, NEW F, ComputedTo(F, top, held),
         NEW from \in 0 .. top, NEW k, \A m \in from + 1 .. top : Ordered[m] # k
  PROVE  F[top][k] = F[from][k]
<1> DEFINE Q == {n \in Nat : from + n <= top => F[from + n][k] = F[from][k]}
<1>1. 0 \in Q
  OBVIOUS
<1>2. ASSUME NEW n \in Nat, n \in Q PROVE n + 1 \in Q
  <2>1. SUFFICES ASSUME from + (n + 1) <= top PROVE F[from + (n + 1)][k] = F[from][k]
    OBVIOUS
  <2> DEFINE m == from + (n + 1)
  <2>2. m \in 0 .. top /\ m # 0 /\ m \in from + 1 .. top /\ m - 1 = from + n /\ from + n <= top
    BY <2>1
  <2>3. F[m - 1][k] = F[from][k]
    BY <1>2, <2>2
  <2> HIDE DEF m
  <2>4. F[m] = Computing(F[m - 1], Ordered[m]) /\ Ordered[m] # k
    BY <2>2 DEF ComputedTo
  <2>5. F[m][k] = F[m - 1][k]
    BY <2>4 DEF Computing
  <2>6. QED
    BY <2>3, <2>5 DEF m
<1> HIDE DEF Q
<1>3. top - from \in Q
  BY <1>1, <1>2, Induction
<1>4. QED
  BY <1>3 DEF Q

LEMMA ComputedDomain ==
  ASSUME NEW held, NEW top \in Nat, NEW F, ComputedTo(F, top, held)
  PROVE  \A n \in 0 .. top : DOMAIN F[n] = MetricKeys
<1> DEFINE Q == {n \in Nat : n <= top => DOMAIN F[n] = MetricKeys}
<1>1. 0 \in Q
  <2>1. F[0] = StoredOnly(held)
    BY DEF ComputedTo
  <2>2. QED
    BY <2>1 DEF StoredOnly
<1>2. ASSUME NEW n \in Nat, n \in Q PROVE n + 1 \in Q
  <2>1. SUFFICES ASSUME n + 1 <= top PROVE DOMAIN F[n + 1] = MetricKeys
    OBVIOUS
  <2>2. n + 1 \in 0 .. top /\ n + 1 # 0 /\ (n + 1) - 1 = n /\ n <= top
    BY <2>1
  <2>3. F[n + 1] = Computing(F[n], Ordered[n + 1])
    BY <2>2 DEF ComputedTo
  <2>4. QED
    BY <1>2, <2>2, <2>3 DEF Computing
<1> HIDE DEF Q
<1>3. \A n \in Nat : n \in Q
  BY <1>1, <1>2, Induction
<1>4. QED
  BY <1>3 DEF Q

\* Two environments that agree on what a formula names give it one value.
LEMMA SameNames ==
  ASSUME NEW k, NEW e, NEW g, \A n \in definition[k].names : e[n] = g[n]
  PROVE  Evaluated(k, e) = Evaluated(k, g)
<1>1. [n \in definition[k].names |-> e[n]] = [n \in definition[k].names |-> g[n]]
  OBVIOUS
<1>2. QED
  BY <1>1 DEF Evaluated

LEMMA AllSolved ==
  ASSUME FormulasTypeOK, NeverLoops(definition), NEW held, NEW k \in Formulae
  PROVE  ValuesWithFormulas(held)[k] = Evaluated(k, ValuesWithFormulas(held))
<1> DEFINE o == Ordered
           top == Len(o)
<1>1. Settled(o) /\ Range(o) = Formulae
  BY OrderedIs
<1>2. top \in Nat /\ DOMAIN o = 1 .. top
  BY <1>1, LenProperties DEF Settled
<1>3. PICK F : ComputedTo(F, top, held) /\ ValuesWithFormulas(held) = F[top]
  BY <1>2, ValuesAre
<1>4. PICK i \in 1 .. top : o[i] = k
  BY <1>1, <1>2 DEF Range
<1>5. ASSUME NEW n \in definition[k].names PROVE F[top][n] = F[i - 1][n]
  <2>1. \A m \in (i - 1) + 1 .. top : o[m] # n
    <3>1. SUFFICES ASSUME NEW m \in i .. top, o[m] = n PROVE FALSE
      BY <1>2, <1>4
    <3>2. m \in DOMAIN o /\ n \in Formulae
      BY <1>1, <1>2, <1>4, <3>1 DEF Settled
    <3>3. n \in References(o[i])
      BY <1>4, <1>5, <3>2 DEF References, Formulae
    <3>4. PICK j \in 1 .. i - 1 : o[j] = n
      BY <1>1, <1>2, <1>4, <3>3 DEF Settled
    <3>5. j \in DOMAIN o /\ j # m
      BY <1>2, <1>4, <3>1, <3>4
    <3>6. QED
      BY <1>1, <3>1, <3>2, <3>4, <3>5 DEF Settled
  <2>2. i - 1 \in 0 .. top
    BY <1>2, <1>4
  <2> HIDE DEF top
  <2>3. top \in Nat /\ ComputedTo(F, top, held)
    BY <1>2, <1>3
  <2>4. QED
    BY <2>1, <2>2, <2>3, ValueStays
<1>6. F[top][k] = F[i][k]
  <2>1. \A m \in i + 1 .. top : o[m] # k
    <3>1. SUFFICES ASSUME NEW m \in i + 1 .. top PROVE o[m] # o[i]
      BY <1>4
    <3>2. m \in DOMAIN o /\ i \in DOMAIN o /\ m # i
      BY <1>2, <1>4, <3>1
    <3>3. QED
      BY <1>1, <3>2 DEF Settled
  <2>2. i \in 0 .. top
    BY <1>2, <1>4
  <2> HIDE DEF top
  <2>3. QED
    BY <1>2, <1>3, <2>1, <2>2, ValueStays
<1>7. F[i] = Computing(F[i - 1], k)
  BY <1>2, <1>3, <1>4 DEF ComputedTo
<1>8. F[i][k] = Evaluated(k, F[i - 1])
  <2>1. i - 1 \in 0 .. top
    BY <1>2, <1>4
  <2>2. DOMAIN F[i - 1] = MetricKeys
    BY <1>2, <1>3, <2>1, ComputedDomain
  <2>3. k \in DOMAIN F[i - 1]
    BY <2>2, KeysAreFinite
  <2>4. QED
    BY <1>7, <2>3 DEF Computing
<1>9. Evaluated(k, F[top]) = Evaluated(k, F[i - 1])
  BY <1>5, SameNames
<1>10. QED
  BY <1>3, <1>6, <1>8, <1>9

-------------------------------------------------------------------------------
(* No definition that is saved makes a loop. *)

FormulasInv == FormulasTypeOK /\ NeverLoops(definition)

LEMMA FormulasStart == FormulasInit => FormulasInv
<1> SUFFICES ASSUME FormulasInit PROVE FormulasInv
  OBVIOUS
<1>1. \A k \in MetricKeys : definition[k] = Undefined
  BY DEF FormulasInit
<1>2. FormulasTypeOK
  BY DEF FormulasInit, FormulasTypeOK
<1>3. ActiveFormulas(definition) = {}
  BY <1>1 DEF ActiveFormulas, Undefined
<1>4. QED
  BY <1>2, <1>3 DEF FormulasInv, NeverLoops

LEMMA SavingKeeps ==
  ASSUME FormulasInv, NEW k \in MetricKeys, NEW candidate \in Inputs \cup FormulaTexts,
         SaveDefinition(k, candidate)
  PROVE  FormulasInv'
<1> DEFINE saved == [definition EXCEPT ![k] = candidate]
<1>1. definition' = saved /\ ValidDefinition(saved, k)
  BY DEF SaveDefinition
<1>2. FormulasTypeOK'
  BY <1>1 DEF FormulasInv, FormulasTypeOK
<1>3. saved[k] = candidate /\ \A n \in MetricKeys : n # k => saved[n] = definition[n]
  BY DEF FormulasInv, FormulasTypeOK
<1>4. NeverLoops(saved)
  <2>1. CASE saved[k].kind = "formula"
    BY <1>1, <2>1 DEF ValidDefinition
  <2>2. CASE saved[k].kind # "formula"
    <3>1. k \notin ActiveFormulas(saved)
      BY <2>2 DEF ActiveFormulas
    <3> HIDE DEF saved
    <3>2. \A n \in ActiveFormulas(saved) : n # k /\ n \in MetricKeys /\ saved[n] = definition[n]
      BY <1>3, <3>1 DEF ActiveFormulas
    <3>3. ActiveFormulas(saved) \subseteq ActiveFormulas(definition)
      BY <3>2 DEF ActiveFormulas
    <3>4. SUFFICES ASSUME NEW S \in (SUBSET ActiveFormulas(saved)) \ {{}}
                   PROVE  \E n \in S : saved[n].names \cap S = {}
      BY DEF NeverLoops
    <3>5. PICK n \in S : definition[n].names \cap S = {}
      BY <3>3, <3>4 DEF FormulasInv, NeverLoops
    <3>6. QED
      BY <3>2, <3>5
  <2>3. QED
    BY <2>1, <2>2
<1>5. QED
  BY <1>1, <1>2, <1>4 DEF FormulasInv

LEMMA FormulasInvariant == FormulasSpec => []FormulasInv
<1>1. FormulasInv /\ [FormulasNext]_definition => FormulasInv'
  <2> SUFFICES ASSUME FormulasInv, [FormulasNext]_definition PROVE FormulasInv'
    OBVIOUS
  <2>1. CASE UNCHANGED definition
    BY <2>1 DEF FormulasInv, FormulasTypeOK, NeverLoops, ActiveFormulas
  <2>2. CASE FormulasNext
    BY <2>2, SavingKeeps DEF FormulasNext, CreateMetricDefinition, UpdateMetricDefinition
  <2>3. QED
    BY <2>1, <2>2
<1>2. QED
  BY <1>1, FormulasStart, PTL DEF FormulasSpec

\* Definitions keep their type.
THEOREM FormulasTyped == FormulasSpec => []FormulasTypeOK
<1>1. FormulasInv => FormulasTypeOK
  BY DEF FormulasInv
<1>2. QED
  BY <1>1, FormulasInvariant, PTL

\* However many metrics there are and whatever is held for them: saving keeps
\* the formulas free of loops (_validate_formula_graph), the order that is found
\* has each of them behind what it names (_ordered_formula_definitions), and so
\* the values solve all of them at once.
THEOREM FormulasSolved == FormulasSpec => []FormulasSolve
<1>1. FormulasInv => FormulasSolve
  BY AllSolved DEF FormulasInv, FormulasSolve, Formulae
<1>2. QED
  BY <1>1, FormulasInvariant, PTL

-------------------------------------------------------------------------------
(* Dependencies and milestones *)

\* A walk contains where it starts and goes along every edge.
LEMMA WalkIsClosed ==
  ASSUME NEW edges \in SUBSET Edges, NEW n \in Nodes
  PROVE  /\ n \in Walk(edges, n)
         /\ \A e \in edges : e[1] \in Walk(edges, n) => e[2] \in Walk(edges, n)
BY DEF Walk, Edges

\* An edge whose start the walk from its end does not reach closes no cycle:
\* a set of nodes all of which keep an edge inside it would already do so where
\* it meets that walk (executive_control.py:1299, repositories/milestone.py:253).
LEMMA AddingKeepsAcyclic ==
  ASSUME NEW edges \in SUBSET Edges, Acyclic(edges),
         NEW a \in Nodes, NEW b \in Nodes, a \notin Walk(edges, b)
  PROVE  Acyclic(edges \cup {<<a, b>>})
<1> DEFINE more == edges \cup {<<a, b>>}
           W == Walk(edges, b)
<1> SUFFICES ASSUME NEW S \in (SUBSET Nodes) \ {{}},
                    \A n \in S : \E e \in more : e[1] = n /\ e[2] \in S
             PROVE  FALSE
  BY DEF Acyclic
<1>1. b \in W /\ \A e \in edges : e[1] \in W => e[2] \in W
  BY WalkIsClosed
<1>2. CASE b \notin S
  <2>1. \A n \in S : \E e \in edges : e[1] = n /\ e[2] \in S
    BY <1>2
  <2> QED BY <2>1 DEF Acyclic
<1>3. CASE b \in S
  <2> DEFINE T == S \cap W
  <2>1. T \in (SUBSET Nodes) \ {{}}
    BY <1>1, <1>3
  <2>2. ASSUME NEW n \in T PROVE \E e \in edges : e[1] = n /\ e[2] \in T
    <3>1. PICK e \in more : e[1] = n /\ e[2] \in S
      OBVIOUS
    <3>2. e \in edges
      BY <3>1
    <3> QED BY <3>1, <3>2, <1>1
  <2> QED BY <2>1, <2>2 DEF Acyclic
<1> QED BY <1>2, <1>3

\* Taking edges away closes no cycle.
LEMMA RemovingKeepsAcyclic ==
  ASSUME NEW edges \in SUBSET Edges, Acyclic(edges), NEW fewer \in SUBSET edges
  PROVE  Acyclic(fewer)
BY DEF Acyclic

-------------------------------------------------------------------------------
(* Initiatives. The invariant is inductive with the types of the rows. *)

DependenciesInv == DependenciesTypeOK /\ NoInitiativeWaitsForItself

LEMMA PairsAreEdges ==
  ASSUME NEW rows \in SUBSET DependencyRows
  PROVE  Pairs(rows) \in SUBSET Edges
BY DEF Pairs, Edges, DependencyRows

LEMMA InitIsAcyclic == DependenciesInit => DependenciesInv
BY DEF DependenciesInit, DependenciesInv, DependenciesTypeOK, NoInitiativeWaitsForItself, Acyclic, Pairs

LEMMA NextKeepsAcyclic == DependenciesInv /\ [DependenciesNext]_dependencyVars => DependenciesInv'
<1> SUFFICES ASSUME DependenciesInv, [DependenciesNext]_dependencyVars PROVE DependenciesInv'
  OBVIOUS
<1> USE DEF DependenciesInv, NoInitiativeWaitsForItself
<1>1. ASSUME NEW up \in Nodes, NEW down \in Nodes, NEW type \in Types, NEW status \in Status,
             CreateDependency(up, down, type, status)
      PROVE  DependenciesInv'
  <2> DEFINE d == [up |-> up, down |-> down, type |-> type, status |-> status]
  <2>1. dependencies' = dependencies \cup {d} /\ listed' = listed /\ d \in DependencyRows
    BY <1>1 DEF CreateDependency, DependencyRows
  <2>2. DependenciesTypeOK'
    BY <2>1 DEF DependenciesTypeOK
  <2>3. Pairs(dependencies') = Pairs(dependencies) \cup {<<up, down>>}
    BY <2>1 DEF Pairs
  <2>4. up \notin Walk(Pairs(dependencies), down)
    BY <1>1 DEF CreateDependency, WouldCreateCycle
  <2>5. Acyclic(Pairs(dependencies) \cup {<<up, down>>})
    BY <2>4, PairsAreEdges, AddingKeepsAcyclic DEF DependenciesTypeOK
  <2> QED BY <2>2, <2>3, <2>5
<1>2. ASSUME NEW d \in dependencies, NEW type \in Types, NEW status \in Status,
             UpdateDependency(d, type, status)
      PROVE  DependenciesInv'
  <2> DEFINE changed == [d EXCEPT !.type = type, !.status = status]
  <2>1. d \in DependencyRows
    BY DEF DependenciesTypeOK
  <2>2. changed \in DependencyRows /\ changed.up = d.up /\ changed.down = d.down
    BY <2>1 DEF DependencyRows
  <2>3. dependencies' = (dependencies \ {d}) \cup {changed} /\ listed' = listed
    BY <1>2 DEF UpdateDependency
  <2>4. DependenciesTypeOK'
    BY <2>2, <2>3 DEF DependenciesTypeOK
  <2>5. Pairs(dependencies') \in SUBSET Pairs(dependencies)
    BY <2>2, <2>3 DEF Pairs
  <2> QED BY <2>4, <2>5, PairsAreEdges, RemovingKeepsAcyclic DEF DependenciesTypeOK
<1>3. ASSUME dependencies' \subseteq dependencies, listed' \subseteq Nodes
      PROVE  DependenciesInv'
  <2>1. DependenciesTypeOK'
    BY <1>3 DEF DependenciesTypeOK
  <2>2. Pairs(dependencies') \in SUBSET Pairs(dependencies)
    BY <1>3 DEF Pairs
  <2> QED BY <2>1, <2>2, PairsAreEdges, RemovingKeepsAcyclic DEF DependenciesTypeOK
<1>4. ASSUME NEW d \in dependencies, DeleteDependency(d) PROVE DependenciesInv'
  BY <1>3, <1>4 DEF DeleteDependency, DependenciesTypeOK
<1>5. ASSUME NEW i \in Nodes, \/ ArchiveInitiative(i) \/ DeleteInitiative(i) \/ RestoreInitiative(i)
      PROVE  DependenciesInv'
  BY <1>3, <1>5 DEF ArchiveInitiative, DeleteInitiative, RestoreInitiative, DependenciesTypeOK
<1>6. CASE UNCHANGED dependencyVars
  BY <1>3, <1>6 DEF dependencyVars, DependenciesTypeOK
<1>7. listed \subseteq Nodes
  BY DEF DependenciesTypeOK
<1> QED BY <1>1, <1>2, <1>4, <1>5, <1>6, <1>7 DEF DependenciesNext

\* No initiative ever waits for itself: an edge is refused by the search over
\* every row, so that no order of resolving, reopening, archiving and deleting
\* closes a cycle later (executive_control.py:99-138).
THEOREM InitiativesStayAcyclic == DependenciesSpec => []NoInitiativeWaitsForItself
<1>1. DependenciesInv => NoInitiativeWaitsForItself
  BY DEF DependenciesInv
<1> QED BY InitIsAcyclic, NextKeepsAcyclic, <1>1, PTL DEF DependenciesSpec

\* Every variable of the dependencies has its type.
THEOREM DependenciesTyped == DependenciesSpec => []DependenciesTypeOK
<1>1. DependenciesInv => DependenciesTypeOK
  BY DEF DependenciesInv
<1> QED BY InitIsAcyclic, NextKeepsAcyclic, <1>1, PTL DEF DependenciesSpec

-------------------------------------------------------------------------------
(* Milestones. The invariant is the conjunction of the types and the two
   properties: the search for a cycle needs the dependencies to be between
   milestones, and the scores need the numbers to be numbers. *)

MilestonesInv == MilestonesTypeOK /\ NoMilestoneWaitsForItself /\ DirectDependentsCount

Counted(m, score, edges) == score >= Lower(10 * Cardinality(Downstream(m, edges)), 35)

\* A score is between 0 and 35 and counts those that wait directly.
LEMMA ScoreCountsDirect ==
  ASSUME NEW m \in Nodes, NEW edges \in SUBSET Edges
  PROVE  BlastRadius(m, edges) \in 0 .. 35 /\ Counted(m, BlastRadius(m, edges), edges)
<1> DEFINE direct == Downstream(m, edges)
           indirect == Indirect(m, edges)
<1>1. direct \in SUBSET Nodes /\ indirect \in SUBSET Nodes
  BY DEF Downstream, Indirect, Walk, Edges
<1>2. Cardinality(direct) \in Nat /\ Cardinality(indirect) \in Nat
  BY <1>1, NodesFinite, FS_Subset, FS_CardinalityType
<1> HIDE DEF direct, indirect
<1>3. Lower(10 * Cardinality(direct) + 4 * Cardinality(indirect), 35) \in 0 .. 35
  BY <1>2 DEF Lower
<1>4. Lower(10 * Cardinality(direct) + 4 * Cardinality(indirect), 35)
        >= Lower(10 * Cardinality(direct), 35)
  BY <1>2 DEF Lower
<1> QED BY <1>3, <1>4 DEF BlastRadius, Counted, direct, indirect

\* A score that counts those that wait directly still does when fewer wait.
LEMMA FewerStillCounted ==
  ASSUME NEW m \in Nodes, NEW edges \in SUBSET Edges, NEW fewer \in SUBSET Edges,
         Downstream(m, fewer) \subseteq Downstream(m, edges),
         NEW score \in 0 .. 35, Counted(m, score, edges)
  PROVE  Counted(m, score, fewer)
<1> DEFINE before == Downstream(m, edges)
           after == Downstream(m, fewer)
<1>1. before \in SUBSET Nodes
  BY DEF Downstream, Edges
<1>2. IsFiniteSet(before)
  BY <1>1, NodesFinite, FS_Subset
<1>3. /\ Cardinality(before) \in Nat
      /\ Cardinality(after) \in Nat
      /\ Cardinality(after) <= Cardinality(before)
  BY <1>2, FS_Subset, FS_CardinalityType
<1> HIDE DEF before, after
<1>4. score >= Lower(10 * Cardinality(before), 35)
  BY DEF Counted, before
<1>5. score >= Lower(10 * Cardinality(after), 35)
  BY <1>3, <1>4 DEF Lower
<1> QED BY <1>5 DEF Counted, after

\* A save keeps the invariant when it is owed a score for every milestone that
\* is new or gains a dependent, wherever the request is cut off.
LEMMA SaveKeepsInv ==
  ASSUME MilestonesInv, NEW rows \in SUBSET Nodes, NEW edges \in SUBSET (rows \X rows), NEW owed,
         Acyclic(edges), Save(rows, edges, owed),
         \A m \in rows \ ToSet(owed) :
            m \in milestones /\ Downstream(m, edges) \subseteq Downstream(m, needs)
  PROVE  MilestonesInv'
<1>1. PICK n \in 0 .. Len(owed) :
        LET scored == ToSet(SubSeq(owed, 1, n))
        IN /\ milestones' = rows
           /\ needs' = edges
           /\ stored' = [m \in rows |-> IF m \in scored THEN BlastRadius(m, edges)
                                       ELSE IF m \in milestones THEN stored[m] ELSE 0]
           /\ cutOff' = ((cutOff \cup ToSet(owed)) \ scored) \cap rows
  BY DEF Save
<1> DEFINE scored == ToSet(SubSeq(owed, 1, n))
           due == ToSet(owed)
<1>2. /\ milestones' = rows
      /\ needs' = edges
      /\ stored' = [m \in rows |-> IF m \in scored THEN BlastRadius(m, edges)
                                  ELSE IF m \in milestones THEN stored[m] ELSE 0]
      /\ cutOff' = ((cutOff \cup due) \ scored) \cap rows
  BY <1>1
<1>3. edges \in SUBSET Edges /\ needs \in SUBSET Edges
  BY DEF Edges, MilestonesInv, MilestonesTypeOK
<1>4. \A m \in rows \ due :
         m \in milestones /\ Downstream(m, edges) \subseteq Downstream(m, needs)
  OBVIOUS
<1> HIDE DEF scored, due
<1>5. ASSUME NEW m \in rows PROVE stored'[m] \in 0 .. 35
  <2>1. CASE m \in scored
    BY <1>2, <1>3, <2>1, ScoreCountsDirect
  <2>2. CASE m \notin scored /\ m \in milestones
    BY <1>2, <2>2 DEF MilestonesInv, MilestonesTypeOK
  <2>3. CASE m \notin scored /\ m \notin milestones
    BY <1>2, <2>3
  <2> QED BY <2>1, <2>2, <2>3
<1>6. stored' \in [rows -> 0 .. 35]
  BY <1>2, <1>5
<1>7. MilestonesTypeOK'
  BY <1>2, <1>6 DEF MilestonesTypeOK
<1>8. NoMilestoneWaitsForItself'
  BY <1>2 DEF NoMilestoneWaitsForItself
<1>9. ASSUME NEW m \in rows, m \notin cutOff' PROVE Counted(m, stored'[m], edges)
  <2>1. CASE m \in scored
    BY <1>2, <1>3, <2>1, ScoreCountsDirect
  <2>2. CASE m \notin scored
    <3>1. m \notin due /\ m \notin cutOff
      BY <1>2, <1>9, <2>2
    <3>2. m \in milestones /\ Downstream(m, edges) \subseteq Downstream(m, needs)
      BY <1>4, <3>1
    <3>3. stored'[m] = stored[m] /\ stored[m] \in 0 .. 35
      BY <1>2, <2>2, <3>2 DEF MilestonesInv, MilestonesTypeOK
    <3>4. Counted(m, stored[m], needs)
      BY <3>1, <3>2 DEF MilestonesInv, DirectDependentsCount, Counted
    <3> QED BY <1>3, <3>2, <3>3, <3>4, FewerStillCounted
  <2> QED BY <2>1, <2>2
<1>10. DirectDependentsCount'
  BY <1>2, <1>9 DEF DirectDependentsCount, Counted, Downstream
<1> QED BY <1>7, <1>8, <1>10 DEF MilestonesInv

LEMMA InitHolds == MilestonesInit => MilestonesInv
BY DEF MilestonesInit, MilestonesInv, MilestonesTypeOK, NoMilestoneWaitsForItself, Acyclic,
       DirectDependentsCount

LEMMA NextKeepsInv == MilestonesInv /\ [MilestonesNext]_milestoneVars => MilestonesInv'
<1> SUFFICES ASSUME MilestonesInv, [MilestonesNext]_milestoneVars PROVE MilestonesInv'
  OBVIOUS
<1>1. /\ milestones \in SUBSET Nodes
      /\ needs \in SUBSET (milestones \X milestones)
      /\ needs \in SUBSET Edges
      /\ Acyclic(needs)
  BY DEF MilestonesInv, MilestonesTypeOK, NoMilestoneWaitsForItself, Edges
<1>2. ASSUME NEW fewer \in SUBSET needs PROVE Acyclic(fewer)
  BY <1>1, RemovingKeepsAcyclic
<1>3. ASSUME NEW fewer \in SUBSET needs, NEW m
      PROVE  Downstream(m, fewer) \subseteq Downstream(m, needs)
  BY DEF Downstream
<1>4. ASSUME NEW m \in Nodes, CreateMilestone(m) PROVE MilestonesInv'
  <2>1. m \in ToSet(<<m>>)
    BY DEF ToSet
  <2>2. Save(milestones \cup {m}, needs, <<m>>)
    BY <1>4 DEF CreateMilestone
  <2> QED BY <1>1, <2>1, <2>2, SaveKeepsInv
<1>5. ASSUME NEW m \in milestones, ChangeMilestone(m) PROVE MilestonesInv'
  BY <1>1, <1>5, SaveKeepsInv DEF ChangeMilestone
<1>6. ASSUME NEW m \in milestones, DeleteMilestone(m) PROVE MilestonesInv'
  <2> DEFINE rows == milestones \ {m}
             fewer == {e \in needs : m \notin {e[1], e[2]}}
  <2>1. fewer \in SUBSET needs /\ fewer \in SUBSET (rows \X rows)
    BY <1>1
  <2>2. Save(rows, fewer, <<>>)
    BY <1>6 DEF DeleteMilestone
  <2>3. Acyclic(fewer) /\ \A x \in rows : Downstream(x, fewer) \subseteq Downstream(x, needs)
    BY <1>2, <1>3, <2>1
  <2> HIDE DEF fewer
  <2> QED BY <1>1, <2>1, <2>2, <2>3, SaveKeepsInv
<1>7. ASSUME NEW m \in milestones, NEW upstream \in milestones, AddDependency(m, upstream)
      PROVE  MilestonesInv'
  <2> DEFINE more == needs \cup {<<m, upstream>>}
             owed == <<m, upstream>>
  <2>1. m \notin Walk(needs, upstream) /\ Save(milestones, more, owed)
    BY <1>7 DEF AddDependency, WouldLoop, OwedByDependency
  <2>2. Acyclic(more)
    BY <1>1, <2>1, AddingKeepsAcyclic
  <2>3. upstream \in ToSet(owed)
    BY DEF ToSet
  <2>4. \A x : x # upstream => Downstream(x, more) \subseteq Downstream(x, needs)
    BY DEF Downstream
  <2>5. more \in SUBSET (milestones \X milestones)
    BY <1>1
  <2> HIDE DEF more, owed
  <2> QED BY <1>1, <2>1, <2>2, <2>3, <2>4, <2>5, SaveKeepsInv
<1>8. ASSUME NEW m \in milestones, NEW e \in needs, RemoveDependency(m, e) PROVE MilestonesInv'
  <2> DEFINE fewer == needs \ {e}
             owed == IF e[1] = m THEN OwedByDependency(m, e[2]) ELSE <<m>>
  <2>1. fewer \in SUBSET needs /\ fewer \in SUBSET (milestones \X milestones)
    BY <1>1
  <2>2. Acyclic(fewer) /\ \A x : Downstream(x, fewer) \subseteq Downstream(x, needs)
    BY <1>2, <1>3, <2>1
  <2>3. Save(milestones, fewer, owed)
    BY <1>8 DEF RemoveDependency
  <2> HIDE DEF fewer, owed
  <2> QED BY <1>1, <2>1, <2>2, <2>3, SaveKeepsInv
<1>9. CASE UNCHANGED milestoneVars
  BY <1>9 DEF milestoneVars, MilestonesInv, MilestonesTypeOK, NoMilestoneWaitsForItself,
              DirectDependentsCount, Downstream
<1> QED BY <1>4, <1>5, <1>6, <1>7, <1>8, <1>9 DEF MilestonesNext

\* Milestones, their dependencies and their scores have their types.
THEOREM MilestonesTyped == MilestonesSpec => []MilestonesTypeOK
<1>1. MilestonesInv => MilestonesTypeOK
  BY DEF MilestonesInv
<1> QED BY InitHolds, NextKeepsInv, <1>1, PTL DEF MilestonesSpec

\* No milestone waits for itself, whatever is added, removed and deleted and
\* wherever a request is cut off (repositories/milestone.py:253).
THEOREM MilestonesStayAcyclic == MilestonesSpec => []NoMilestoneWaitsForItself
<1>1. MilestonesInv => NoMilestoneWaitsForItself
  BY DEF MilestonesInv
<1> QED BY InitHolds, NextKeepsInv, <1>1, PTL DEF MilestonesSpec

\* A stored blast radius counts at least the milestones that wait for this one
\* directly: both ends of a dependency are scored when it is made, and whatever
\* else happens only takes dependents away (services/milestone.py:190-231).
THEOREM ScoresCountDependents == MilestonesSpec => []DirectDependentsCount
<1>1. MilestonesInv => DirectDependentsCount
  BY DEF MilestonesInv
<1> QED BY InitHolds, NextKeepsInv, <1>1, PTL DEF MilestonesSpec
===============================================================================
