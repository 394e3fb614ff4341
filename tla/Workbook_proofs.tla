------------------------- MODULE Workbook_proofs -------------------------
(* Proofs about InitiativeWorkbook.tla, for every number of initiatives, lines,
   periods and amounts.  Induction over numbers and sequences, and the facts about
   Among, are those of PlanData_proofs.tla. *)
EXTENDS InitiativeWorkbook, PlanData_proofs

-------------------------------------------------------------------------------
(* Totals and values that differ *)

\* The recursion that Total takes.
TotalSteps(F, s) ==
  /\ F \in [0 .. Len(s) -> Nat] /\ F[0] = 0
  /\ \A k \in 1 .. Len(s) : F[k] = F[k - 1] + s[k]

LEMMA TotalRecursion ==
  ASSUME NEW s \in Seq(Nat)
  PROVE  \E F : TotalSteps(F, s) /\ Total(s) = F[Len(s)]
<1> DEFINE n == Len(s)
           W == Nat
           Next1(k, v) == v + s[k]
           h == [k \in 1 .. n |-> [v \in W |-> Next1(k, v)]]
           Body(g) == [k \in 0 .. n |-> IF k = 0 THEN 0 ELSE g[k - 1] + s[k]]
           G == CHOOSE g : g = Body(g)
<1>1. n \in Nat /\ 0 \in W
  BY LenProperties
<1>2. ASSUME NEW k \in 1 .. n, NEW v \in W PROVE Next1(k, v) \in W
  <2>1. s[k] \in Nat
    BY ElementOfSeq
  <2>2. QED
    BY <2>1
<1>3. h \in [1 .. n -> [W -> W]]
  <2> HIDE DEF W, Next1, n
  <2>1. QED
    BY <1>2
<1>4. PICK F \in [0 .. n -> W] : F[0] = 0 /\ \A k \in 1 .. n : F[k] = h[k][F[k - 1]]
  <2>1. h \in Steps(n, W)
    BY <1>3 DEF Steps
  <2> HIDE DEF h, n, W
  <2>2. \E F : Takes(F, n, W, 0, h)
    BY <1>1, <2>1, Recursion
  <2>3. QED
    BY <2>2 DEF Takes
<1> HIDE DEF W
<1>5. ASSUME NEW k \in 1 .. n PROVE F[k] = F[k - 1] + s[k]
  <2>1. k - 1 \in 0 .. n /\ F[k - 1] \in W
    <3> HIDE DEF n
    <3>1. QED
      BY <1>1
  <2>2. h[k][F[k - 1]] = Next1(k, F[k - 1])
    <3> HIDE DEF n, Next1
    <3>1. QED
      BY <2>1
  <2>3. QED
    BY <2>2, <1>4
<1>6. F = Body(F)
  <2> HIDE DEF n
  <2>1. F[0] = Body(F)[0]
    BY <1>1, <1>4
  <2>2. ASSUME NEW k \in 1 .. n PROVE F[k] = Body(F)[k]
    <3>1. k \in 0 .. n /\ k # 0
      BY <1>1
    <3>2. Body(F)[k] = F[k - 1] + s[k]
      BY <3>1
    <3>3. QED
      BY <1>5, <3>2
  <2>3. \A k \in 0 .. n : k = 0 \/ k \in 1 .. n
    BY <1>1
  <2> HIDE DEF Body
  <2>4. \A k \in 0 .. n : F[k] = Body(F)[k]
    BY <2>1, <2>2, <2>3
  <2>5. Body(F) = [k \in 0 .. n |-> Body(F)[k]]
    BY DEF Body
  <2>6. F = [k \in 0 .. n |-> F[k]]
    BY <1>4
  <2>7. QED
    BY <2>4, <2>5, <2>6
<1>7. G = Body(G)
  <2> HIDE DEF Body
  <2>1. QED
    BY <1>6
<1>8. G = [k \in 0 .. n |-> IF k = 0 THEN 0 ELSE G[k - 1] + s[k]]
  BY <1>7
<1>9. Total(s) = G[n]
  BY DEF Total
<1> HIDE DEF G
<1>10. G[0] = F[0]
  BY <1>1, <1>4, <1>8
<1>11. ASSUME NEW k \in 1 .. n PROVE G[k] = G[k - 1] + s[k]
  <2> HIDE DEF n
  <2>1. k \in 0 .. n /\ k # 0
    BY <1>1
  <2>2. QED
    BY <1>8, <2>1
<1>12. \A k \in 0 .. n : G[k] = F[k]
  <2> HIDE DEF n
  <2>1. StepAlike(G, F, n)
    BY <1>5, <1>10, <1>11 DEF StepAlike
  <2>2. QED
    BY <1>1, <2>1, Agreement
<1>13. TotalSteps(F, s)
  BY <1>4, <1>5 DEF TotalSteps, W
<1>14. Total(s) = F[n]
  BY <1>1, <1>9, <1>12
<1>15. QED
  BY <1>13, <1>14

LEMMA TotalAppend ==
  ASSUME NEW s \in Seq(Nat), NEW e \in Nat
  PROVE  Total(Append(s, e)) = Total(s) + e
<1> DEFINE n == Len(s)
           t == Append(s, e)
<1>1. n \in Nat /\ t \in Seq(Nat) /\ Len(t) = n + 1 /\ t[n + 1] = e
      /\ \A k \in 1 .. n : t[k] = s[k]
  BY LenProperties, AppendProperties
<1> HIDE DEF n, t
<1>2. PICK F : TotalSteps(F, s) /\ Total(s) = F[n]
  BY TotalRecursion DEF n
<1>3. PICK G : TotalSteps(G, t) /\ Total(t) = G[n + 1]
  BY <1>1, TotalRecursion
<1>4. \A k \in 0 .. n : F[k] = G[k]
  <2>1. \A k \in 1 .. n : F[k] = F[k - 1] + s[k]
    BY <1>2 DEF TotalSteps, n
  <2>2. \A k \in 1 .. n : G[k] = G[k - 1] + s[k]
    BY <1>1, <1>3 DEF TotalSteps
  <2>3. F[0] = G[0]
    BY <1>2, <1>3 DEF TotalSteps
  <2>4. StepAlike(F, G, n)
    BY <2>1, <2>2, <2>3 DEF StepAlike
  <2>5. QED
    BY <1>1, <2>4, Agreement
<1>5. G[n + 1] = G[n] + t[n + 1]
  <2>1. n + 1 \in 1 .. Len(t) /\ (n + 1) - 1 = n
    BY <1>1
  <2>2. QED
    BY <1>3, <2>1 DEF TotalSteps
<1>6. QED
  BY <1>1, <1>2, <1>3, <1>4, <1>5 DEF t

\* The recursion that Distinct takes.
DistinctSteps(F, V, s) ==
  /\ F \in [0 .. Len(s) -> Seq(V)] /\ F[0] = << >>
  /\ \A k \in 1 .. Len(s) : F[k] = Including(F[k - 1], s[k])

LEMMA DistinctRecursion ==
  ASSUME NEW V, NEW s \in Seq(V)
  PROVE  \E F : DistinctSteps(F, V, s) /\ Distinct(s) = F[Len(s)]
<1> DEFINE n == Len(s)
           W == Seq(V)
           Next1(k, v) == Including(v, s[k])
           h == [k \in 1 .. n |-> [v \in W |-> Next1(k, v)]]
           Body(g) == [k \in 0 .. n |-> IF k = 0 THEN << >> ELSE Including(g[k - 1], s[k])]
           G == CHOOSE g : g = Body(g)
<1>1. n \in Nat /\ << >> \in W
  BY LenProperties
<1>2. ASSUME NEW k \in 1 .. n, NEW v \in W PROVE Next1(k, v) \in W
  <2>1. s[k] \in V
    BY ElementOfSeq
  <2>2. QED
    BY <2>1, AppendProperties DEF Including
<1>3. h \in [1 .. n -> [W -> W]]
  <2> HIDE DEF W, Next1, n
  <2>1. QED
    BY <1>2
<1>4. PICK F \in [0 .. n -> W] : F[0] = << >> /\ \A k \in 1 .. n : F[k] = h[k][F[k - 1]]
  <2>1. h \in Steps(n, W)
    BY <1>3 DEF Steps
  <2> HIDE DEF h, n, W
  <2>2. \E F : Takes(F, n, W, << >>, h)
    BY <1>1, <2>1, Recursion
  <2>3. QED
    BY <2>2 DEF Takes
<1> HIDE DEF W
<1>5. ASSUME NEW k \in 1 .. n PROVE F[k] = Including(F[k - 1], s[k])
  <2>1. k - 1 \in 0 .. n /\ F[k - 1] \in W
    <3> HIDE DEF n
    <3>1. QED
      BY <1>1
  <2>2. h[k][F[k - 1]] = Next1(k, F[k - 1])
    <3> HIDE DEF n, Next1
    <3>1. QED
      BY <2>1
  <2>3. QED
    BY <2>2, <1>4
<1>6. F = Body(F)
  <2> HIDE DEF n
  <2>1. F[0] = Body(F)[0]
    BY <1>1, <1>4
  <2>2. ASSUME NEW k \in 1 .. n PROVE F[k] = Body(F)[k]
    <3>1. k \in 0 .. n /\ k # 0
      BY <1>1
    <3>2. Body(F)[k] = Including(F[k - 1], s[k])
      BY <3>1
    <3>3. QED
      BY <1>5, <3>2
  <2>3. \A k \in 0 .. n : k = 0 \/ k \in 1 .. n
    BY <1>1
  <2> HIDE DEF Body
  <2>4. \A k \in 0 .. n : F[k] = Body(F)[k]
    BY <2>1, <2>2, <2>3
  <2>5. Body(F) = [k \in 0 .. n |-> Body(F)[k]]
    BY DEF Body
  <2>6. F = [k \in 0 .. n |-> F[k]]
    BY <1>4
  <2>7. QED
    BY <2>4, <2>5, <2>6
<1>7. G = Body(G)
  <2> HIDE DEF Body
  <2>1. QED
    BY <1>6
<1>8. G = [k \in 0 .. n |-> IF k = 0 THEN << >> ELSE Including(G[k - 1], s[k])]
  BY <1>7
<1>9. Distinct(s) = G[n]
  BY DEF Distinct
<1> HIDE DEF G
<1>10. G[0] = F[0]
  BY <1>1, <1>4, <1>8
<1>11. ASSUME NEW k \in 1 .. n PROVE G[k] = Including(G[k - 1], s[k])
  <2> HIDE DEF n
  <2>1. k \in 0 .. n /\ k # 0
    BY <1>1
  <2>2. QED
    BY <1>8, <2>1
<1>12. \A k \in 0 .. n : G[k] = F[k]
  <2> HIDE DEF n
  <2>1. StepAlike(G, F, n)
    BY <1>5, <1>10, <1>11 DEF StepAlike
  <2>2. QED
    BY <1>1, <2>1, Agreement
<1>13. DistinctSteps(F, V, s)
  BY <1>4, <1>5 DEF DistinctSteps, W
<1>14. Distinct(s) = F[n]
  BY <1>1, <1>9, <1>12
<1>15. QED
  BY <1>13, <1>14

LEMMA DistinctAppend ==
  ASSUME NEW V, NEW s \in Seq(V), NEW e \in V
  PROVE  Distinct(Append(s, e)) = Including(Distinct(s), e)
<1> DEFINE n == Len(s)
           t == Append(s, e)
<1>1. n \in Nat /\ t \in Seq(V) /\ Len(t) = n + 1 /\ t[n + 1] = e
      /\ \A k \in 1 .. n : t[k] = s[k]
  BY LenProperties, AppendProperties
<1> HIDE DEF n, t
<1>2. PICK F : DistinctSteps(F, V, s) /\ Distinct(s) = F[n]
  BY DistinctRecursion DEF n
<1>3. PICK G : DistinctSteps(G, V, t) /\ Distinct(t) = G[n + 1]
  BY <1>1, DistinctRecursion
<1>4. \A k \in 0 .. n : F[k] = G[k]
  <2>1. \A k \in 1 .. n : F[k] = Including(F[k - 1], s[k])
    BY <1>2 DEF DistinctSteps, n
  <2>2. \A k \in 1 .. n : G[k] = Including(G[k - 1], s[k])
    BY <1>1, <1>3 DEF DistinctSteps
  <2>3. F[0] = G[0]
    BY <1>2, <1>3 DEF DistinctSteps
  <2>4. StepAlike(F, G, n)
    BY <2>1, <2>2, <2>3 DEF StepAlike
  <2>5. QED
    BY <1>1, <2>4, Agreement
<1>5. G[n + 1] = Including(G[n], t[n + 1])
  <2>1. n + 1 \in 1 .. Len(t) /\ (n + 1) - 1 = n
    BY <1>1
  <2>2. QED
    BY <1>3, <2>1 DEF DistinctSteps
<1>6. QED
  BY <1>1, <1>2, <1>3, <1>4, <1>5 DEF t

LEMMA TotalNat ==
  ASSUME NEW s \in Seq(Nat)
  PROVE  Total(s) \in Nat
<1>1. PICK F : TotalSteps(F, s) /\ Total(s) = F[Len(s)]
  BY TotalRecursion
<1>2. Len(s) \in 0 .. Len(s)
  BY LenProperties
<1>3. QED
  BY <1>1, <1>2 DEF TotalSteps

LEMMA TotalEmpty == Total(<< >>) = 0
<1>1. << >> \in Seq(Nat) /\ Len(<< >>) = 0
  OBVIOUS
<1>2. PICK F : TotalSteps(F, << >>) /\ Total(<< >>) = F[Len(<< >>)]
  BY <1>1, TotalRecursion
<1>3. QED
  BY <1>1, <1>2 DEF TotalSteps

LEMMA DistinctEmpty == Distinct(<< >>) = << >>
<1>1. << >> \in Seq({}) /\ Len(<< >>) = 0
  OBVIOUS
<1>2. PICK F : DistinctSteps(F, {}, << >>) /\ Distinct(<< >>) = F[Len(<< >>)]
  BY <1>1, DistinctRecursion
<1>3. QED
  BY <1>1, <1>2 DEF DistinctSteps

\* No two places of a sequence hold the same.
Differ(s) == \A i, j \in 1 .. Len(s) : s[i] = s[j] => i = j

LEMMA DifferAppend ==
  ASSUME NEW V, NEW s \in Seq(V), NEW e \in V, Differ(s), e \notin ToSet(s)
  PROVE  Differ(Append(s, e))
<1>1. \A k \in 1 .. Len(s) : Append(s, e)[k] = s[k] /\ s[k] # e
  BY AppendProperties, ToSetType
<1>2. Append(s, e)[Len(s) + 1] = e /\ Len(Append(s, e)) = Len(s) + 1 /\ Len(s) \in Nat
  BY AppendProperties, LenProperties
<1>3. \A k \in 1 .. Len(s) + 1 : k \in 1 .. Len(s) \/ k = Len(s) + 1
  BY <1>2
<1>4. QED
  BY <1>1, <1>2, <1>3 DEF Differ

\* The distinct values are those of the sequence, each once.
LEMMA DistinctType ==
  ASSUME NEW V, NEW s \in Seq(V)
  PROVE  Distinct(s) \in Seq(V) /\ ToSet(Distinct(s)) = ToSet(s) /\ Differ(Distinct(s))
<1> DEFINE Good(u) == Distinct(u) \in Seq(V) /\ ToSet(Distinct(u)) = ToSet(u) /\ Differ(Distinct(u))
           P == {u \in Seq(V) : Good(u)}
<1>1. << >> \in P
  <2>1. << >> \in Seq(V) /\ Differ(<< >>)
    BY DEF Differ
  <2>2. Distinct(<< >>) = << >>
    BY DistinctEmpty
  <2>3. QED
    BY <2>1, <2>2
<1>2. ASSUME NEW u \in Seq(V), NEW e \in V, u \in P PROVE Append(u, e) \in P
  <2> DEFINE d == Distinct(u)
  <2>1. d \in Seq(V) /\ ToSet(d) = ToSet(u) /\ Differ(d)
    BY <1>2
  <2>2. Append(u, e) \in Seq(V) /\ ToSet(Append(u, e)) = ToSet(u) \cup {e}
    BY AppendProperties, ToSetAppend
  <2>3. Distinct(Append(u, e)) = Including(d, e)
    BY DistinctAppend
  <2> HIDE DEF d
  <2>4. CASE e \in ToSet(d)
    <3>1. Distinct(Append(u, e)) = d
      BY <2>3, <2>4 DEF Including
    <3>2. QED
      BY <2>1, <2>2, <2>4, <3>1
  <2>5. CASE e \notin ToSet(d)
    <3>1. Distinct(Append(u, e)) = Append(d, e)
      BY <2>3, <2>5 DEF Including
    <3>2. Append(d, e) \in Seq(V) /\ ToSet(Append(d, e)) = ToSet(d) \cup {e} /\ Differ(Append(d, e))
      BY <2>1, <2>5, AppendProperties, ToSetAppend, DifferAppend
    <3>3. QED
      BY <2>1, <2>2, <3>1, <3>2
  <2>6. QED
    BY <2>4, <2>5
<1> HIDE DEF P
<1>3. s \in P
  BY <1>1, <1>2, SequenceInduction
<1>4. QED
  BY <1>3 DEF P

LEMMA LeastIn ==
  ASSUME NEW S, S \subseteq Nat, S # {}
  PROVE  Min(S) \in S /\ \A y \in S : Min(S) <= y
<1> DEFINE P == {n \in Nat : (\E x \in S : x <= n) => \E x \in S : \A y \in S : x <= y}
<1>1. 0 \in P
  OBVIOUS
<1>2. ASSUME NEW n \in Nat, n \in P PROVE n + 1 \in P
  <2>1. SUFFICES ASSUME NEW x \in S, x <= n + 1, ~ \E z \in S : z <= n
                 PROVE  \A y \in S : x <= y
    BY <1>2
  <2>2. QED
    BY <2>1
<1> HIDE DEF P
<1>3. PICK x \in S : x \in Nat
  OBVIOUS
<1>4. x \in P
  BY <1>1, <1>2, <1>3, Induction
<1>5. \E z \in S : \A y \in S : z <= y
  BY <1>3, <1>4 DEF P
<1>6. QED
  BY <1>5 DEF Min

\* The values of a sequence, and some more, have a greatest one.
LEMMA GreatestIn ==
  ASSUME NEW S, S \subseteq Nat, S # {}, IsFiniteSet(S)
  PROVE  Max(S) \in S /\ \A y \in S : y <= Max(S)
<1> DEFINE Top(T) == T # {} => \E x \in T : \A y \in T : y <= x
           P == {n \in Nat : \A T \in SUBSET Nat : IsFiniteSet(T) /\ Cardinality(T) = n => Top(T)}
<1>1. 0 \in P
  BY FS_EmptySet
<1>2. ASSUME NEW n \in Nat, n \in P PROVE n + 1 \in P
  <2>1. SUFFICES ASSUME NEW T \in SUBSET Nat, IsFiniteSet(T), Cardinality(T) = n + 1, T # {}
                 PROVE  \E x \in T : \A y \in T : y <= x
    OBVIOUS
  <2>2. PICK e \in T : TRUE
    BY <2>1
  <2>3. IsFiniteSet(T \ {e}) /\ Cardinality(T \ {e}) = n
    <3>1. Cardinality(T \ {e}) = Cardinality(T) - 1 /\ IsFiniteSet(T \ {e})
      BY <2>1, FS_RemoveElement
    <3>2. QED
      BY <2>1, <3>1
  <2>4. Top(T \ {e})
    BY <1>2, <2>3
  <2>5. CASE T \ {e} = {}
    BY <2>5
  <2>6. CASE T \ {e} # {}
    <3>1. PICK x \in T \ {e} : \A y \in T \ {e} : y <= x
      BY <2>4, <2>6
    <3>2. CASE x <= e
      BY <3>1, <3>2
    <3>3. CASE e <= x
      BY <3>1, <3>3
    <3>4. QED
      BY <3>2, <3>3
  <2>7. QED
    BY <2>5, <2>6
<1> HIDE DEF P
<1>3. Cardinality(S) \in P
  BY <1>1, <1>2, Induction, FS_CardinalityType
<1>4. \E z \in S : \A y \in S : y <= z
  BY <1>3 DEF P
<1>5. \E z \in S : \A y \in S : z >= y
  BY <1>4
<1>6. QED
  BY <1>5 DEF Max

-------------------------------------------------------------------------------
(* The lines that are written, listed and flattened *)

\* The grid after each call: there is one before the first.
Histories == {steps \in Seq(Seq(Line)) : steps # << >>}

LEMMA LastType ==
  ASSUME NEW V, NEW s \in Seq(V), s # << >>
  PROVE  Last(s) \in V /\ Last(s) \in ToSet(s) /\ Last(s) = s[Len(s)] /\ Len(s) \in Nat \ {0}
<1>1. Len(s) \in Nat \ {0}
  BY EmptySeq
<1>2. Len(s) \in 1 .. Len(s)
  BY <1>1
<1>3. QED
  BY <1>1, <1>2, ElementOfSeq, ToSetType DEF Last

LEMMA LastAppend ==
  ASSUME NEW V, NEW s \in Seq(V), NEW e \in V
  PROVE  Last(Append(s, e)) = e /\ Append(s, e) # << >>
  BY AppendProperties, LenProperties DEF Last

LEMMA RowStepsType ==
  ASSUME NEW steps \in Histories, NEW r \in Line
  PROVE  /\ RowSteps(steps, r) \in Histories
         /\ Last(RowSteps(steps, r)) = IF IsNothing(r) THEN Without(Last(steps), r)
                                       ELSE Append(Without(Last(steps), r), r)
         /\ Without(Last(steps), r) \in Seq(Line)
<1> DEFINE w == Without(Last(steps), r)
           emptied == Append(steps, w)
           last == Append(w, r)
<1>1. steps \in Seq(Seq(Line)) /\ steps # << >>
  BY DEF Histories
<1>2. w \in Seq(Line)
  BY <1>1, LastType, AmongType DEF Without
<1> HIDE DEF w
<1>3. emptied \in Seq(Seq(Line)) /\ Last(emptied) = w /\ emptied # << >>
  BY <1>1, <1>2, AppendProperties, LastAppend
<1>4. last \in Seq(Line)
  BY <1>2, AppendProperties
<1> HIDE DEF emptied, last
<1>5. /\ Append(emptied, last) \in Seq(Seq(Line)) /\ Append(emptied, last) # << >>
      /\ Last(Append(emptied, last)) = last
  BY <1>3, <1>4, AppendProperties, LastAppend
<1>6. RowSteps(steps, r) = IF IsNothing(r) THEN emptied ELSE Append(emptied, last)
  BY <1>3 DEF RowSteps, emptied, last, w
<1>7. QED
  BY <1>2, <1>3, <1>5, <1>6 DEF Histories, w, last

\* The recursion that WriteSteps takes.
WritingSteps(F, lines, rows) ==
  /\ F \in [0 .. Len(rows) -> Histories] /\ F[0] = <<lines>>
  /\ \A k \in 1 .. Len(rows) : F[k] = RowSteps(F[k - 1], rows[k])

LEMMA WritingRecursion ==
  ASSUME NEW lines \in Seq(Line), NEW rows \in Seq(Line)
  PROVE  \E F : WritingSteps(F, lines, rows) /\ WriteSteps(lines, rows) = F[Len(rows)]
<1> DEFINE n == Len(rows)
           W == Histories
           Next1(k, v) == RowSteps(v, rows[k])
           h == [k \in 1 .. n |-> [v \in W |-> Next1(k, v)]]
           Body(g) == [k \in 0 .. n |-> IF k = 0 THEN <<lines>> ELSE RowSteps(g[k - 1], rows[k])]
           G == CHOOSE g : g = Body(g)
<1>1. n \in Nat /\ <<lines>> \in W
  <2>1. <<lines>> \in Seq(Seq(Line)) /\ Len(<<lines>>) = 1
    OBVIOUS
  <2>2. <<lines>> # << >>
    BY <2>1
  <2>3. QED
    BY <2>1, <2>2, LenProperties DEF Histories
<1>2. ASSUME NEW k \in 1 .. n, NEW v \in W PROVE Next1(k, v) \in W
  <2>1. rows[k] \in Line
    BY ElementOfSeq
  <2>2. QED
    BY <2>1, RowStepsType
<1>3. h \in [1 .. n -> [W -> W]]
  <2> HIDE DEF W, Next1, n
  <2>1. QED
    BY <1>2
<1>4. PICK F \in [0 .. n -> W] : F[0] = <<lines>> /\ \A k \in 1 .. n : F[k] = h[k][F[k - 1]]
  <2>1. h \in Steps(n, W)
    BY <1>3 DEF Steps
  <2> HIDE DEF h, n, W
  <2>2. \E F : Takes(F, n, W, <<lines>>, h)
    BY <1>1, <2>1, Recursion
  <2>3. QED
    BY <2>2 DEF Takes
<1> HIDE DEF W
<1>5. ASSUME NEW k \in 1 .. n PROVE F[k] = RowSteps(F[k - 1], rows[k])
  <2>1. k - 1 \in 0 .. n /\ F[k - 1] \in W
    <3> HIDE DEF n
    <3>1. QED
      BY <1>1
  <2>2. h[k][F[k - 1]] = Next1(k, F[k - 1])
    <3> HIDE DEF n, Next1
    <3>1. QED
      BY <2>1
  <2>3. QED
    BY <2>2, <1>4
<1>6. F = Body(F)
  <2> HIDE DEF n
  <2>1. F[0] = Body(F)[0]
    BY <1>1, <1>4
  <2>2. ASSUME NEW k \in 1 .. n PROVE F[k] = Body(F)[k]
    <3>1. k \in 0 .. n /\ k # 0
      BY <1>1
    <3>2. Body(F)[k] = RowSteps(F[k - 1], rows[k])
      BY <3>1
    <3>3. QED
      BY <1>5, <3>2
  <2>3. \A k \in 0 .. n : k = 0 \/ k \in 1 .. n
    BY <1>1
  <2> HIDE DEF Body
  <2>4. \A k \in 0 .. n : F[k] = Body(F)[k]
    BY <2>1, <2>2, <2>3
  <2>5. Body(F) = [k \in 0 .. n |-> Body(F)[k]]
    BY DEF Body
  <2>6. F = [k \in 0 .. n |-> F[k]]
    BY <1>4
  <2>7. QED
    BY <2>4, <2>5, <2>6
<1>7. G = Body(G)
  <2> HIDE DEF Body
  <2>1. QED
    BY <1>6
<1>8. G = [k \in 0 .. n |-> IF k = 0 THEN <<lines>> ELSE RowSteps(G[k - 1], rows[k])]
  BY <1>7
<1>9. WriteSteps(lines, rows) = G[n]
  BY DEF WriteSteps
<1> HIDE DEF G
<1>10. G[0] = F[0]
  BY <1>1, <1>4, <1>8
<1>11. ASSUME NEW k \in 1 .. n PROVE G[k] = RowSteps(G[k - 1], rows[k])
  <2> HIDE DEF n
  <2>1. k \in 0 .. n /\ k # 0
    BY <1>1
  <2>2. QED
    BY <1>8, <2>1
<1>12. \A k \in 0 .. n : G[k] = F[k]
  <2> HIDE DEF n
  <2>1. StepAlike(G, F, n)
    BY <1>5, <1>10, <1>11 DEF StepAlike
  <2>2. QED
    BY <1>1, <2>1, Agreement
<1>13. WritingSteps(F, lines, rows)
  BY <1>4, <1>5 DEF WritingSteps, W
<1>14. WriteSteps(lines, rows) = F[n]
  BY <1>1, <1>9, <1>12
<1>15. QED
  BY <1>13, <1>14

LEMMA WritingAppend ==
  ASSUME NEW lines \in Seq(Line), NEW rows \in Seq(Line), NEW e \in Line
  PROVE  WriteSteps(lines, Append(rows, e)) = RowSteps(WriteSteps(lines, rows), e)
<1> DEFINE n == Len(rows)
           t == Append(rows, e)
<1>1. n \in Nat /\ t \in Seq(Line) /\ Len(t) = n + 1 /\ t[n + 1] = e
      /\ \A k \in 1 .. n : t[k] = rows[k]
  BY LenProperties, AppendProperties
<1> HIDE DEF n, t
<1>2. PICK F : WritingSteps(F, lines, rows) /\ WriteSteps(lines, rows) = F[n]
  BY WritingRecursion DEF n
<1>3. PICK G : WritingSteps(G, lines, t) /\ WriteSteps(lines, t) = G[n + 1]
  BY <1>1, WritingRecursion
<1>4. \A k \in 0 .. n : F[k] = G[k]
  <2>1. \A k \in 1 .. n : F[k] = RowSteps(F[k - 1], rows[k])
    BY <1>2 DEF WritingSteps, n
  <2>2. \A k \in 1 .. n : G[k] = RowSteps(G[k - 1], rows[k])
    BY <1>1, <1>3 DEF WritingSteps
  <2>3. F[0] = G[0]
    BY <1>2, <1>3 DEF WritingSteps
  <2>4. StepAlike(F, G, n)
    BY <2>1, <2>2, <2>3 DEF StepAlike
  <2>5. QED
    BY <1>1, <2>4, Agreement
<1>5. G[n + 1] = RowSteps(G[n], t[n + 1])
  <2>1. n + 1 \in 1 .. Len(t) /\ (n + 1) - 1 = n
    BY <1>1
  <2>2. QED
    BY <1>3, <2>1 DEF WritingSteps
<1>6. QED
  BY <1>1, <1>2, <1>3, <1>4, <1>5 DEF t

LEMMA WritingType ==
  ASSUME NEW lines \in Seq(Line), NEW rows \in Seq(Line)
  PROVE  WriteSteps(lines, rows) \in Histories
<1>1. PICK F : WritingSteps(F, lines, rows) /\ WriteSteps(lines, rows) = F[Len(rows)]
  BY WritingRecursion
<1>2. QED
  BY <1>1, LenProperties DEF WritingSteps

LEMMA ToSetConcat ==
  ASSUME NEW V, NEW s \in Seq(V), NEW t \in Seq(V)
  PROVE  /\ s \o t \in Seq(V) /\ Len(s \o t) = Len(s) + Len(t)
         /\ ToSet(s \o t) = ToSet(s) \cup ToSet(t)
<1> DEFINE c == s \o t
<1>1. /\ c \in Seq(V) /\ Len(c) = Len(s) + Len(t)
      /\ \A i \in 1 .. Len(s) + Len(t) : c[i] = IF i <= Len(s) THEN s[i] ELSE t[i - Len(s)]
  BY ConcatProperties
<1>2. Len(s) \in Nat /\ Len(t) \in Nat
  BY LenProperties
<1>3. ToSet(c) = {c[i] : i \in 1 .. Len(c)} /\ ToSet(s) = {s[i] : i \in 1 .. Len(s)}
      /\ ToSet(t) = {t[i] : i \in 1 .. Len(t)}
  BY <1>1, ToSetType
<1> HIDE DEF c
<1>4. ASSUME NEW i \in 1 .. Len(c) PROVE c[i] \in ToSet(s) \cup ToSet(t)
  <2>1. CASE i <= Len(s)
    BY <1>1, <1>2, <1>3, <2>1
  <2>2. CASE i > Len(s)
    <3>1. i - Len(s) \in 1 .. Len(t) /\ c[i] = t[i - Len(s)]
      BY <1>1, <1>2, <2>2
    <3>2. QED
      BY <1>3, <3>1
  <2>3. QED
    BY <1>1, <1>2, <2>1, <2>2
<1>5. ASSUME NEW i \in 1 .. Len(s) PROVE s[i] \in ToSet(c)
  <2>1. i \in 1 .. Len(c) /\ c[i] = s[i]
    BY <1>1, <1>2
  <2>2. QED
    BY <1>3, <2>1
<1>6. ASSUME NEW i \in 1 .. Len(t) PROVE t[i] \in ToSet(c)
  <2>1. i + Len(s) \in 1 .. Len(c) /\ c[i + Len(s)] = t[(i + Len(s)) - Len(s)]
    <3> DEFINE j == i + Len(s)
    <3>1. j \in 1 .. Len(s) + Len(t) /\ ~(j <= Len(s))
      BY <1>2
    <3> HIDE DEF j
    <3>2. c[j] = t[j - Len(s)]
      BY <1>1, <3>1
    <3>3. j \in 1 .. Len(c)
      BY <1>1, <3>1
    <3>4. QED
      BY <3>2, <3>3 DEF j
  <2>2. (i + Len(s)) - Len(s) = i
    BY <1>2
  <2>3. QED
    BY <1>3, <2>1, <2>2
<1>7. ToSet(c) = ToSet(s) \cup ToSet(t)
  BY <1>3, <1>4, <1>5, <1>6
<1>8. QED
  BY <1>1, <1>7 DEF c

\* What is kept and what is not are all there is.
LEMMA AmongParts ==
  ASSUME NEW V, NEW s \in Seq(V), NEW S, NEW T, S \cap T = {}, ToSet(s) \subseteq S \cup T
  PROVE  Len(Among(s, S)) + Len(Among(s, T)) = Len(s)
<1> DEFINE Parts(u) == Len(Among(u, S)) + Len(Among(u, T)) = Len(u)
           P == {u \in Seq(V) : ToSet(u) \subseteq S \cup T => Parts(u)}
<1>1. << >> \in P
  <2>1. Among(<< >>, S) = << >> /\ Among(<< >>, T) = << >> /\ Len(<< >>) = 0
    BY AmongEmpty
  <2>2. Len(Among(<< >>, S)) = 0 /\ Len(Among(<< >>, T)) = 0
    BY <2>1, Zenon
  <2>3. << >> \in Seq(V)
    OBVIOUS
  <2>4. QED
    BY <2>1, <2>2, <2>3
<1>2. ASSUME NEW u \in Seq(V), NEW e \in V, u \in P PROVE Append(u, e) \in P
  <2>1. SUFFICES ASSUME ToSet(Append(u, e)) \subseteq S \cup T PROVE Parts(Append(u, e))
    BY AppendProperties
  <2>2. ToSet(Append(u, e)) = ToSet(u) \cup {e} /\ Len(Append(u, e)) = Len(u) + 1
    BY ToSetAppend, AppendProperties
  <2>3. Parts(u) /\ e \in S \cup T
    BY <1>2, <2>1, <2>2
  <2>4. ASSUME NEW K
        PROVE  /\ Len(Among(u, K)) \in Nat
               /\ Len(Among(Append(u, e), K)) = Len(Among(u, K)) + IF e \in K THEN 1 ELSE 0
    <3>1. Among(u, K) \in Seq(V) /\ Len(Among(u, K)) \in Nat
      BY AmongType, LenProperties
    <3>2. Among(Append(u, e), K) = IF e \in K THEN Append(Among(u, K), e) ELSE Among(u, K)
      BY AmongAppend
    <3>3. Len(Append(Among(u, K), e)) = Len(Among(u, K)) + 1
      BY <3>1, AppendProperties
    <3>4. QED
      BY <3>1, <3>2, <3>3
  <2>5. Len(u) \in Nat
    BY LenProperties
  <2> DEFINE a == Len(Among(u, S))
             b == Len(Among(u, T))
             a1 == Len(Among(Append(u, e), S))
             b1 == Len(Among(Append(u, e), T))
  <2>9. a \in Nat /\ a1 = a + IF e \in S THEN 1 ELSE 0
    BY <2>4
  <2>10. b \in Nat /\ b1 = b + IF e \in T THEN 1 ELSE 0
    BY <2>4
  <2>11. a + b = Len(u)
    BY <2>3
  <2>12. SUFFICES a1 + b1 = Len(u) + 1
    BY <2>2
  <2> HIDE DEF a, b, a1, b1
  <2>6. CASE e \in S
    <3>1. e \notin T
      BY <2>6
    <3>2. QED
      BY <2>5, <2>6, <2>9, <2>10, <2>11, <3>1
  <2>7. CASE e \in T
    <3>1. e \notin S
      BY <2>7
    <3>2. QED
      BY <2>5, <2>7, <2>9, <2>10, <2>11, <3>1
  <2>8. QED
    BY <2>3, <2>6, <2>7
<1> HIDE DEF P
<1>3. s \in P
  BY <1>1, <1>2, SequenceInduction
<1>4. QED
  BY <1>3 DEF P

LEMMA InsertedType ==
  ASSUME NEW sorted \in Seq(Line), NEW r \in Line
  PROVE  /\ Inserted(sorted, r) \in Seq(Line)
         /\ ToSet(Inserted(sorted, r)) = ToSet(sorted) \cup {r}
         /\ Len(Inserted(sorted, r)) = Len(sorted) + 1
<1> DEFINE after == {s \in ToSet(sorted) : Earlier(r, s)}
           before == ToSet(sorted) \ after
           one == Among(sorted, before)
           two == Among(sorted, after)
<1>1. after \subseteq ToSet(sorted) /\ before \cup after = ToSet(sorted) /\ before \cap after = {}
  OBVIOUS
<1>2. Inserted(sorted, r) = Append(one, r) \o two
  BY DEF Inserted
<1> HIDE DEF after, before
<1>3. /\ one \in Seq(Line) /\ two \in Seq(Line) /\ ToSet(one) = before /\ ToSet(two) = after
      /\ Len(one) + Len(two) = Len(sorted)
  <2>1. one \in Seq(Line) /\ ToSet(one) = ToSet(sorted) \cap before
    BY AmongType
  <2>2. two \in Seq(Line) /\ ToSet(two) = ToSet(sorted) \cap after
    BY AmongType
  <2>3. Len(one) + Len(two) = Len(sorted)
    BY <1>1, AmongParts
  <2> HIDE DEF one, two
  <2>4. QED
    BY <1>1, <2>1, <2>2, <2>3
<1> HIDE DEF one, two
<1>4. /\ Append(one, r) \in Seq(Line) /\ ToSet(Append(one, r)) = before \cup {r}
      /\ Len(Append(one, r)) = Len(one) + 1
  BY <1>3, AppendProperties, ToSetAppend
<1>5. Len(one) \in Nat /\ Len(two) \in Nat
  BY <1>3, LenProperties
<1> DEFINE first == Append(one, r)
<1>6. first \in Seq(Line) /\ Inserted(sorted, r) = first \o two
  BY <1>2, <1>4 DEF one, two
<1>7. ToSet(first) = before \cup {r} /\ Len(first) = Len(one) + 1
  BY <1>4
<1> HIDE DEF first
<1>8. /\ first \o two \in Seq(Line) /\ ToSet(first \o two) = ToSet(first) \cup ToSet(two)
      /\ Len(first \o two) = Len(first) + Len(two)
  BY <1>3, <1>6, ToSetConcat
<1>9. ToSet(Inserted(sorted, r)) = ToSet(sorted) \cup {r}
  BY <1>1, <1>3, <1>6, <1>7, <1>8
<1>10. QED
  BY <1>3, <1>5, <1>8, <1>9, <1>6, <1>7

\* The recursion that Listed takes.
ListingSteps(F, lines) ==
  /\ F \in [0 .. Len(lines) -> Seq(Line)] /\ F[0] = << >>
  /\ \A k \in 1 .. Len(lines) : F[k] = Inserted(F[k - 1], lines[k])

LEMMA ListingRecursion ==
  ASSUME NEW lines \in Seq(Line)
  PROVE  \E F : ListingSteps(F, lines) /\ Listed(lines) = F[Len(lines)]
<1> DEFINE n == Len(lines)
           W == Seq(Line)
           Next1(k, v) == Inserted(v, lines[k])
           h == [k \in 1 .. n |-> [v \in W |-> Next1(k, v)]]
           Body(g) == [k \in 0 .. n |-> IF k = 0 THEN << >> ELSE Inserted(g[k - 1], lines[k])]
           G == CHOOSE g : g = Body(g)
<1>1. n \in Nat /\ << >> \in W
  BY LenProperties
<1>2. ASSUME NEW k \in 1 .. n, NEW v \in W PROVE Next1(k, v) \in W
  <2>1. lines[k] \in Line
    BY ElementOfSeq
  <2>2. QED
    BY <2>1, InsertedType
<1>3. h \in [1 .. n -> [W -> W]]
  <2> HIDE DEF W, Next1, n
  <2>1. QED
    BY <1>2
<1>4. PICK F \in [0 .. n -> W] : F[0] = << >> /\ \A k \in 1 .. n : F[k] = h[k][F[k - 1]]
  <2>1. h \in Steps(n, W)
    BY <1>3 DEF Steps
  <2> HIDE DEF h, n, W
  <2>2. \E F : Takes(F, n, W, << >>, h)
    BY <1>1, <2>1, Recursion
  <2>3. QED
    BY <2>2 DEF Takes
<1> HIDE DEF W
<1>5. ASSUME NEW k \in 1 .. n PROVE F[k] = Inserted(F[k - 1], lines[k])
  <2>1. k - 1 \in 0 .. n /\ F[k - 1] \in W
    <3> HIDE DEF n
    <3>1. QED
      BY <1>1
  <2>2. h[k][F[k - 1]] = Next1(k, F[k - 1])
    <3> HIDE DEF n, Next1
    <3>1. QED
      BY <2>1
  <2>3. QED
    BY <2>2, <1>4
<1>6. F = Body(F)
  <2> HIDE DEF n
  <2>1. F[0] = Body(F)[0]
    BY <1>1, <1>4
  <2>2. ASSUME NEW k \in 1 .. n PROVE F[k] = Body(F)[k]
    <3>1. k \in 0 .. n /\ k # 0
      BY <1>1
    <3>2. Body(F)[k] = Inserted(F[k - 1], lines[k])
      BY <3>1
    <3>3. QED
      BY <1>5, <3>2
  <2>3. \A k \in 0 .. n : k = 0 \/ k \in 1 .. n
    BY <1>1
  <2> HIDE DEF Body
  <2>4. \A k \in 0 .. n : F[k] = Body(F)[k]
    BY <2>1, <2>2, <2>3
  <2>5. Body(F) = [k \in 0 .. n |-> Body(F)[k]]
    BY DEF Body
  <2>6. F = [k \in 0 .. n |-> F[k]]
    BY <1>4
  <2>7. QED
    BY <2>4, <2>5, <2>6
<1>7. G = Body(G)
  <2> HIDE DEF Body
  <2>1. QED
    BY <1>6
<1>8. G = [k \in 0 .. n |-> IF k = 0 THEN << >> ELSE Inserted(G[k - 1], lines[k])]
  BY <1>7
<1>9. Listed(lines) = G[n]
  BY DEF Listed
<1> HIDE DEF G
<1>10. G[0] = F[0]
  BY <1>1, <1>4, <1>8
<1>11. ASSUME NEW k \in 1 .. n PROVE G[k] = Inserted(G[k - 1], lines[k])
  <2> HIDE DEF n
  <2>1. k \in 0 .. n /\ k # 0
    BY <1>1
  <2>2. QED
    BY <1>8, <2>1
<1>12. \A k \in 0 .. n : G[k] = F[k]
  <2> HIDE DEF n
  <2>1. StepAlike(G, F, n)
    BY <1>5, <1>10, <1>11 DEF StepAlike
  <2>2. QED
    BY <1>1, <2>1, Agreement
<1>13. ListingSteps(F, lines)
  BY <1>4, <1>5 DEF ListingSteps, W
<1>14. Listed(lines) = F[n]
  BY <1>1, <1>9, <1>12
<1>15. QED
  BY <1>13, <1>14

LEMMA ListingAppend ==
  ASSUME NEW lines \in Seq(Line), NEW e \in Line
  PROVE  Listed(Append(lines, e)) = Inserted(Listed(lines), e)
<1> DEFINE n == Len(lines)
           t == Append(lines, e)
<1>1. n \in Nat /\ t \in Seq(Line) /\ Len(t) = n + 1 /\ t[n + 1] = e
      /\ \A k \in 1 .. n : t[k] = lines[k]
  BY LenProperties, AppendProperties
<1> HIDE DEF n, t
<1>2. PICK F : ListingSteps(F, lines) /\ Listed(lines) = F[n]
  BY ListingRecursion DEF n
<1>3. PICK G : ListingSteps(G, t) /\ Listed(t) = G[n + 1]
  BY <1>1, ListingRecursion
<1>4. \A k \in 0 .. n : F[k] = G[k]
  <2>1. \A k \in 1 .. n : F[k] = Inserted(F[k - 1], lines[k])
    BY <1>2 DEF ListingSteps, n
  <2>2. \A k \in 1 .. n : G[k] = Inserted(G[k - 1], lines[k])
    BY <1>1, <1>3 DEF ListingSteps
  <2>3. F[0] = G[0]
    BY <1>2, <1>3 DEF ListingSteps
  <2>4. StepAlike(F, G, n)
    BY <2>1, <2>2, <2>3 DEF StepAlike
  <2>5. QED
    BY <1>1, <2>4, Agreement
<1>5. G[n + 1] = Inserted(G[n], t[n + 1])
  <2>1. n + 1 \in 1 .. Len(t) /\ (n + 1) - 1 = n
    BY <1>1
  <2>2. QED
    BY <1>3, <2>1 DEF ListingSteps
<1>6. QED
  BY <1>1, <1>2, <1>3, <1>4, <1>5 DEF t

LEMMA ListedEmpty == Listed(<< >>) = << >>
<1>1. << >> \in Seq(Line) /\ Len(<< >>) = 0
  OBVIOUS
<1>2. PICK F : ListingSteps(F, << >>) /\ Listed(<< >>) = F[Len(<< >>)]
  BY <1>1, ListingRecursion
<1>3. QED
  BY <1>1, <1>2 DEF ListingSteps

\* The grid is listed in another order.
LEMMA ListedType ==
  ASSUME NEW lines \in Seq(Line)
  PROVE  /\ Listed(lines) \in Seq(Line) /\ ToSet(Listed(lines)) = ToSet(lines)
         /\ Len(Listed(lines)) = Len(lines)
<1> DEFINE Good(u) == /\ Listed(u) \in Seq(Line) /\ ToSet(Listed(u)) = ToSet(u)
                      /\ Len(Listed(u)) = Len(u)
           P == {u \in Seq(Line) : Good(u)}
<1>1. << >> \in P
  <2>1. << >> \in Seq(Line)
    OBVIOUS
  <2>2. QED
    BY <2>1, ListedEmpty
<1>2. ASSUME NEW u \in Seq(Line), NEW e \in Line, u \in P PROVE Append(u, e) \in P
  <2>1. Append(u, e) \in Seq(Line) /\ ToSet(Append(u, e)) = ToSet(u) \cup {e}
        /\ Len(Append(u, e)) = Len(u) + 1
    BY AppendProperties, ToSetAppend
  <2>2. Listed(Append(u, e)) = Inserted(Listed(u), e)
    BY ListingAppend
  <2>3. Good(u)
    BY <1>2
  <2>4. QED
    BY <2>1, <2>2, <2>3, InsertedType
<1> HIDE DEF P
<1>3. lines \in P
  BY <1>1, <1>2, SequenceInduction
<1>4. QED
  BY <1>3 DEF P

\* The recursion that Doubled takes.
DoublingSteps(F, amount, times) ==
  /\ F \in [0 .. times -> Nat] /\ F[0] = amount
  /\ \A k \in 1 .. times : F[k] = 2 * F[k - 1]

LEMMA DoublingRecursion ==
  ASSUME NEW amount \in Nat, NEW times \in Nat
  PROVE  \E F : DoublingSteps(F, amount, times) /\ Doubled(amount, times) = F[times]
<1> DEFINE n == times
           W == Nat
           Next1(k, v) == 2 * v
           h == [k \in 1 .. n |-> [v \in W |-> Next1(k, v)]]
           Body(g) == [k \in 0 .. n |-> IF k = 0 THEN amount ELSE 2 * g[k - 1]]
           G == CHOOSE g : g = Body(g)
<1>1. n \in Nat /\ amount \in W
  OBVIOUS
<1>2. ASSUME NEW k \in 1 .. n, NEW v \in W PROVE Next1(k, v) \in W
  OBVIOUS
<1>3. h \in [1 .. n -> [W -> W]]
  <2> HIDE DEF W, Next1, n
  <2>1. QED
    BY <1>2
<1>4. PICK F \in [0 .. n -> W] : F[0] = amount /\ \A k \in 1 .. n : F[k] = h[k][F[k - 1]]
  <2>1. h \in Steps(n, W)
    BY <1>3 DEF Steps
  <2> HIDE DEF h, n, W
  <2>2. \E F : Takes(F, n, W, amount, h)
    BY <1>1, <2>1, Recursion
  <2>3. QED
    BY <2>2 DEF Takes
<1> HIDE DEF W
<1>5. ASSUME NEW k \in 1 .. n PROVE F[k] = 2 * F[k - 1]
  <2>1. k - 1 \in 0 .. n /\ F[k - 1] \in W
    <3> HIDE DEF n
    <3>1. QED
      BY <1>1
  <2>2. h[k][F[k - 1]] = Next1(k, F[k - 1])
    <3> HIDE DEF n, Next1
    <3>1. QED
      BY <2>1
  <2>3. QED
    BY <2>2, <1>4
<1>6. F = Body(F)
  <2> HIDE DEF n
  <2>1. F[0] = Body(F)[0]
    BY <1>1, <1>4
  <2>2. ASSUME NEW k \in 1 .. n PROVE F[k] = Body(F)[k]
    <3>1. k \in 0 .. n /\ k # 0
      BY <1>1
    <3>2. Body(F)[k] = 2 * F[k - 1]
      BY <3>1
    <3>3. QED
      BY <1>5, <3>2
  <2>3. \A k \in 0 .. n : k = 0 \/ k \in 1 .. n
    BY <1>1
  <2> HIDE DEF Body
  <2>4. \A k \in 0 .. n : F[k] = Body(F)[k]
    BY <2>1, <2>2, <2>3
  <2>5. Body(F) = [k \in 0 .. n |-> Body(F)[k]]
    BY DEF Body
  <2>6. F = [k \in 0 .. n |-> F[k]]
    BY <1>4
  <2>7. QED
    BY <2>4, <2>5, <2>6
<1>7. G = Body(G)
  <2> HIDE DEF Body
  <2>1. QED
    BY <1>6
<1>8. G = [k \in 0 .. n |-> IF k = 0 THEN amount ELSE 2 * G[k - 1]]
  BY <1>7
<1>9. Doubled(amount, times) = G[n]
  BY DEF Doubled
<1> HIDE DEF G
<1>10. G[0] = F[0]
  BY <1>1, <1>4, <1>8
<1>11. ASSUME NEW k \in 1 .. n PROVE G[k] = 2 * G[k - 1]
  <2> HIDE DEF n
  <2>1. k \in 0 .. n /\ k # 0
    BY <1>1
  <2>2. QED
    BY <1>8, <2>1
<1>12. \A k \in 0 .. n : G[k] = F[k]
  <2> HIDE DEF n
  <2>1. StepAlike(G, F, n)
    BY <1>5, <1>10, <1>11 DEF StepAlike
  <2>2. QED
    BY <1>1, <2>1, Agreement
<1>13. DoublingSteps(F, amount, times)
  BY <1>4, <1>5 DEF DoublingSteps, W
<1>14. Doubled(amount, times) = F[n]
  BY <1>1, <1>9, <1>12
<1>15. QED
  BY <1>13, <1>14

LEMMA DoubledType ==
  ASSUME NEW amount \in Nat, NEW times \in Nat
  PROVE  Doubled(amount, times) \in Nat
<1>1. PICK F : DoublingSteps(F, amount, times) /\ Doubled(amount, times) = F[times]
  BY DoublingRecursion
<1>2. times \in 0 .. times
  OBVIOUS
<1>3. QED
  BY <1>1, <1>2 DEF DoublingSteps

\* The recursion that FlattenSeq takes.
FlattenSteps(F, V, ss) ==
  /\ F \in [1 .. Len(ss) -> Seq(V)] /\ F[1] = ss[1]
  /\ \A k \in 2 .. Len(ss) : F[k] = F[k - 1] \o ss[k]

LEMMA FlattenRecursion ==
  ASSUME NEW V, NEW ss \in Seq(Seq(V)), ss # << >>
  PROVE  \E F : FlattenSteps(F, V, ss) /\ FlattenSeq(ss) = F[Len(ss)]
<1> DEFINE n == Len(ss)
           W == Seq(V)
           m == n - 1
           h == [k \in 1 .. m |-> [v \in W |-> v \o ss[k + 1]]]
           Body(g) == [k \in 1 .. n |-> IF k = 1 THEN ss[k] ELSE g[k - 1] \o ss[k]]
           G == CHOOSE g : g = Body(g)
<1>1. n \in Nat \ {0} /\ m \in Nat /\ n = m + 1 /\ \A k \in 1 .. n : ss[k] \in W
  BY EmptySeq, ElementOfSeq
<1>2. h \in [1 .. m -> [W -> W]]
  <2>1. ASSUME NEW k \in 1 .. m, NEW v \in W PROVE v \o ss[k + 1] \in W
    <3>1. k + 1 \in 1 .. n
      BY <1>1
    <3>2. ss[k + 1] \in W
      BY <1>1, <3>1
    <3>3. QED
      BY <3>2, ConcatProperties
  <2> HIDE DEF W, m
  <2>2. QED
    BY <2>1
<1>3. PICK F0 \in [0 .. m -> W] : F0[0] = ss[1] /\ \A k \in 1 .. m : F0[k] = h[k][F0[k - 1]]
  <2>1. h \in Steps(m, W) /\ ss[1] \in W
    BY <1>1, <1>2 DEF Steps
  <2> HIDE DEF h, m, W
  <2>2. \E F0 : Takes(F0, m, W, ss[1], h)
    BY <1>1, <2>1, Recursion
  <2>3. QED
    BY <2>2 DEF Takes
<1> DEFINE F == [k \in 1 .. n |-> F0[k - 1]]
<1>4. \A k \in 1 .. m : F0[k] = F0[k - 1] \o ss[k + 1]
  <2>1. SUFFICES ASSUME NEW k \in 1 .. m PROVE F0[k] = F0[k - 1] \o ss[k + 1]
    OBVIOUS
  <2>2. F0[k - 1] \in W
    <3> HIDE DEF m, W
    <3>1. k - 1 \in 0 .. m
      BY <1>1
    <3>2. QED
      BY <3>1
  <2> HIDE DEF m, W
  <2>3. QED
    BY <1>3, <2>2
<1>5. F \in [1 .. n -> W] /\ F[1] = ss[1] /\ \A k \in 2 .. n : F[k] = F[k - 1] \o ss[k]
  <2> HIDE DEF n, W, m
  <2>1. \A k \in 1 .. n : k - 1 \in 0 .. m
    BY <1>1
  <2>2. F[1] = ss[1]
    <3>1. 1 \in 1 .. n /\ 1 - 1 = 0
      BY <1>1
    <3>2. QED
      BY <1>3, <3>1
  <2>3. ASSUME NEW k \in 2 .. n PROVE F[k] = F[k - 1] \o ss[k]
    <3>1. k \in 1 .. n /\ k - 1 \in 1 .. n /\ k - 1 \in 1 .. m /\ (k - 1) + 1 = k
      BY <1>1
    <3>2. F0[k - 1] = F0[(k - 1) - 1] \o ss[k]
      BY <1>4, <3>1
    <3>3. F[k] = F0[k - 1] /\ F[k - 1] = F0[(k - 1) - 1]
      BY <3>1
    <3>4. QED
      BY <3>2, <3>3
  <2>4. QED
    BY <1>3, <2>1, <2>2, <2>3
<1> HIDE DEF F
<1>6. F = Body(F)
  <2> HIDE DEF n
  <2>1. ASSUME NEW k \in 1 .. n PROVE F[k] = Body(F)[k]
    <3>1. k = 1 \/ k \in 2 .. n
      BY <1>1
    <3>2. QED
      BY <1>5, <3>1
  <2>2. QED
    BY <1>5, <2>1
<1>7. G = Body(G)
  <2> HIDE DEF Body
  <2>1. QED
    BY <1>6
<1>8. G = [k \in 1 .. n |-> IF k = 1 THEN ss[k] ELSE G[k - 1] \o ss[k]]
  BY <1>7
<1>9. FlattenSeq(ss) = G[n]
  BY <1>1 DEF FlattenSeq
<1> HIDE DEF G
<1> DEFINE H == [k \in 0 .. m |-> G[k + 1]]
<1>10. StepAlike(H, F0, m)
  <2> HIDE DEF n, m
  <2>1. \A k \in 0 .. m : k + 1 \in 1 .. n
    BY <1>1
  <2>2. 0 \in 0 .. m /\ H[0] = G[1] /\ G[1] = ss[1]
    BY <1>1, <1>8, <2>1
  <2>3. ASSUME NEW k \in 1 .. m, H[k - 1] = F0[k - 1] PROVE H[k] = F0[k]
    <3>1. k \in 0 .. m /\ k - 1 \in 0 .. m /\ (k - 1) + 1 = k /\ (k + 1) - 1 = k
          /\ k + 1 \in 1 .. n /\ k + 1 # 1
      BY <1>1
    <3>2. H[k] = G[k + 1] /\ H[k - 1] = G[k]
      BY <3>1
    <3>3. G[k + 1] = G[k] \o ss[k + 1]
      BY <1>8, <3>1
    <3>4. QED
      BY <1>4, <2>3, <3>2, <3>3
  <2>4. QED
    BY <1>3, <2>2, <2>3 DEF StepAlike
<1>11. G[n] = F[n]
  <2> HIDE DEF n, m, H
  <2>1. H[m] = F0[m] /\ m \in 0 .. m
    BY <1>1, <1>10, Agreement
  <2>2. G[n] = H[m]
    BY <1>1, <2>1 DEF H
  <2>3. F[n] = F0[m]
    <3>1. n \in 1 .. n /\ n - 1 = m
      BY <1>1
    <3>2. QED
      BY <3>1 DEF F
  <2>4. QED
    BY <2>1, <2>2, <2>3
<1>12. FlattenSteps(F, V, ss)
  BY <1>5 DEF FlattenSteps
<1>13. QED
  BY <1>9, <1>11, <1>12

LEMMA FlattenEmpty == FlattenSeq(<< >>) = << >>
<1>1. Len(<< >>) = 0
  OBVIOUS
<1>2. QED
  BY <1>1, Zenon DEF FlattenSeq

LEMMA FlattenType ==
  ASSUME NEW V, NEW ss \in Seq(Seq(V))
  PROVE  FlattenSeq(ss) \in Seq(V)
<1>1. CASE ss = << >>
  <2>1. << >> \in Seq(V)
    OBVIOUS
  <2>2. QED
    BY <1>1, <2>1, FlattenEmpty
<1>2. CASE ss # << >>
  <2>1. PICK F : FlattenSteps(F, V, ss) /\ FlattenSeq(ss) = F[Len(ss)]
    BY <1>2, FlattenRecursion
  <2>2. Len(ss) \in 1 .. Len(ss)
    BY <1>2, EmptySeq
  <2>3. QED
    BY <2>1, <2>2 DEF FlattenSteps
<1>3. QED
  BY <1>1, <1>2

LEMMA FlattenAppend ==
  ASSUME NEW V, NEW ss \in Seq(Seq(V)), NEW e \in Seq(V)
  PROVE  FlattenSeq(Append(ss, e)) = FlattenSeq(ss) \o e
<1> DEFINE n == Len(ss)
           W == Seq(V)
           t == Append(ss, e)
<1>1. n \in Nat /\ t \in Seq(W) /\ Len(t) = n + 1 /\ t[n + 1] = e /\ t # << >>
      /\ \A k \in 1 .. n : t[k] = ss[k]
  BY LenProperties, AppendProperties
<1> HIDE DEF n, t
<1>2. PICK G : FlattenSteps(G, V, t) /\ FlattenSeq(t) = G[n + 1]
  BY <1>1, FlattenRecursion
<1>3. CASE ss = << >>
  <2>1. n = 0
    BY <1>3 DEF n
  <2>2. FlattenSeq(t) = e
    BY <1>1, <1>2, <2>1 DEF FlattenSteps
  <2>3. << >> \o e = e
    BY ConcatEmptySeq
  <2>4. FlattenSeq(ss) = << >>
    BY <1>3, FlattenEmpty
  <2>5. QED
    BY <2>2, <2>3, <2>4 DEF t
<1>4. CASE ss # << >>
  <2>1. PICK F : FlattenSteps(F, V, ss) /\ FlattenSeq(ss) = F[n]
    BY <1>4, FlattenRecursion DEF n
  <2>2. n \in Nat \ {0}
    BY <1>4, EmptySeq DEF n
  <2> DEFINE m == n - 1
             F1 == [k \in 0 .. m |-> F[k + 1]]
             G1 == [k \in 0 .. m |-> G[k + 1]]
  <2>3. m \in Nat /\ n = m + 1
    BY <2>2
  <2> HIDE DEF m
  <2>4. StepAlike(F1, G1, m)
    <3>1. 0 \in 0 .. m /\ F1[0] = G1[0]
      BY <1>1, <1>2, <2>1, <2>2, <2>3 DEF FlattenSteps
    <3>2. ASSUME NEW k \in 1 .. m, F1[k - 1] = G1[k - 1] PROVE F1[k] = G1[k]
      <4>1. k \in 0 .. m /\ k - 1 \in 0 .. m /\ (k - 1) + 1 = k /\ (k + 1) - 1 = k
            /\ k + 1 \in 2 .. n /\ k + 1 \in 2 .. n + 1 /\ k + 1 \in 1 .. n
        BY <2>3
      <4>2. F[k + 1] = F[k] \o ss[k + 1]
        BY <2>1, <4>1 DEF FlattenSteps, n
      <4>3. G[k + 1] = G[k] \o t[k + 1]
        BY <1>1, <1>2, <4>1 DEF FlattenSteps
      <4>4. F1[k] = F[k + 1] /\ G1[k] = G[k + 1] /\ F1[k - 1] = F[k] /\ G1[k - 1] = G[k]
        BY <4>1
      <4>5. t[k + 1] = ss[k + 1]
        BY <1>1, <4>1
      <4>6. QED
        BY <3>2, <4>2, <4>3, <4>4, <4>5
    <3>3. QED
      BY <3>1, <3>2 DEF StepAlike
  <2>5. F[n] = G[n]
    <3> HIDE DEF F1, G1
    <3>1. F1[m] = G1[m] /\ m \in 0 .. m
      BY <2>3, <2>4, Agreement
    <3>2. QED
      BY <2>3, <3>1 DEF F1, G1
  <2>6. G[n + 1] = G[n] \o t[n + 1]
    <3>1. n + 1 \in 2 .. Len(t) /\ (n + 1) - 1 = n
      BY <1>1, <2>2
    <3>2. QED
      BY <1>2, <3>1 DEF FlattenSteps
  <2>7. QED
    BY <1>1, <1>2, <2>1, <2>5, <2>6 DEF t
<1>5. QED
  BY <1>3, <1>4

-------------------------------------------------------------------------------
(* Types *)

LEMMA ListOf ==
  ASSUME NEW V, NEW n \in Nat, NEW f \in [1 .. n -> V]
  PROVE  /\ f \in Seq(V) /\ Len(f) = n /\ DOMAIN f = 1 .. n
         /\ ToSet(f) = {f[k] : k \in 1 .. n}
<1>1. f \in Seq(V) /\ Len(f) = n
  BY SeqDef
<1>2. QED
  BY <1>1, LenProperties, ToSetType

\* Who reads a place reads what the sequence holds.
LEMMA Held ==
  ASSUME NEW V, NEW s \in Seq(V), NEW x \in ToSet(s)
  PROVE  x \in V /\ \E k \in 1 .. Len(s) : s[k] = x
  BY ToSetType

LEMMA NotEmpty ==
  ASSUME NEW V, NEW s \in Seq(V)
  PROVE  ToSet(s) # {} <=> s # << >>
<1>1. CASE s = << >>
  BY <1>1, ToSetType
<1>2. CASE s # << >>
  <2>1. Len(s) \in Nat \ {0}
    BY <1>2, EmptySeq
  <2>2. s[1] \in ToSet(s)
    BY <2>1, ToSetType
  <2>3. QED
    BY <1>2, <2>2
<1>3. QED
  BY <1>1, <1>2

Lanes == {"plan", "actual"}

LEMMA InLaneType ==
  ASSUME NEW r \in Line, NEW lane \in Lanes
  PROVE  InLane(r, lane) \in Nat
<1>1. r.plan \in Nat /\ r.actual \in Nat \cup {Unset}
  BY DEF Line
<1>2. CASE lane = "plan"
  BY <1>1, <1>2 DEF InLane
<1>3. CASE lane = "actual"
  BY <1>1, <1>3 DEF InLane
<1>4. QED
  BY <1>2, <1>3 DEF Lanes

LEMMA LaneType ==
  ASSUME NEW lines \in Seq(Line), NEW lane \in Lanes
  PROVE  Lane(lines, lane) \in Seq(Nat) /\ Len(Lane(lines, lane)) = Len(lines)
<1>1. DOMAIN lines = 1 .. Len(lines) /\ Len(lines) \in Nat
  BY LenProperties
<1>2. \A k \in 1 .. Len(lines) : InLane(lines[k], lane) \in Nat
  BY ElementOfSeq, InLaneType
<1>3. Lane(lines, lane) \in [1 .. Len(lines) -> Nat]
  BY <1>1, <1>2 DEF Lane
<1>4. QED
  BY <1>1, <1>3, ListOf

LEMMA PlannedType ==
  ASSUME NEW lines \in Seq(Line)
  PROVE  Planned(lines) \in Nat
  BY LaneType, TotalNat DEF Planned, Lanes

LEMMA MergedType ==
  ASSUME NEW group \in Seq(Line), group # << >>
  PROVE  Merged(group) \in Line /\ KeyOf(Merged(group)) = KeyOf(group[1])
<1>1. group[1] \in Line
  <2>1. 1 \in 1 .. Len(group)
    BY EmptySeq
  <2>2. QED
    BY <2>1, ElementOfSeq
<1>2. Planned(group) \in Nat /\ Total(Lane(group, "actual")) \in Nat
  BY PlannedType, LaneType, TotalNat DEF Lanes
<1> DEFINE actual == IF \A r \in ToSet(group) : r.actual = Unset THEN Unset
                     ELSE Total(Lane(group, "actual"))
           inflated == \E r \in ToSet(group) : r.inflated
<1>3. actual \in Nat \cup {Unset} /\ inflated \in BOOLEAN
  BY <1>2
<1>4. Merged(group) = [group[1] EXCEPT !.plan = Planned(group), !.actual = actual,
                                       !.inflated = inflated]
  BY DEF Merged
<1> HIDE DEF actual, inflated
<1>5. Merged(group) \in Line
  BY <1>1, <1>2, <1>3, <1>4 DEF Line
<1>6. KeyOf(Merged(group)) = KeyOf(group[1])
  BY <1>1, <1>4 DEF Line, KeyOf
<1>7. QED
  BY <1>5, <1>6

Keys == BOOLEAN \X Nat \X (0 .. 4) \X (0 .. 12)

LEMMA KeyType ==
  ASSUME NEW r \in Line
  PROVE  KeyOf(r) \in Keys
  BY DEF Line, Keys, KeyOf

KeysOf(rows) == [k \in DOMAIN rows |-> KeyOf(rows[k])]

LEMMA KeysOfType ==
  ASSUME NEW rows \in Seq(Line)
  PROVE  /\ KeysOf(rows) \in Seq(Keys) /\ Len(KeysOf(rows)) = Len(rows)
         /\ ToSet(KeysOf(rows)) = {KeyOf(r) : r \in ToSet(rows)}
<1>1. DOMAIN rows = 1 .. Len(rows) /\ Len(rows) \in Nat
  BY LenProperties
<1>2. \A k \in 1 .. Len(rows) : KeyOf(rows[k]) \in Keys
  BY ElementOfSeq, KeyType
<1>3. KeysOf(rows) \in [1 .. Len(rows) -> Keys]
  BY <1>1, <1>2 DEF KeysOf
<1>4. /\ KeysOf(rows) \in Seq(Keys) /\ Len(KeysOf(rows)) = Len(rows)
      /\ ToSet(KeysOf(rows)) = {KeysOf(rows)[k] : k \in 1 .. Len(rows)}
  BY <1>1, <1>3, ListOf
<1>5. \A k \in 1 .. Len(rows) : KeysOf(rows)[k] = KeyOf(rows[k])
  BY <1>1 DEF KeysOf
<1>6. ToSet(rows) = {rows[k] : k \in 1 .. Len(rows)}
  BY ToSetType
<1>7. QED
  BY <1>4, <1>5, <1>6

\* The lines of a key that some line has: they are there, and have it.
LEMMA OfKeyType ==
  ASSUME NEW rows \in Seq(Line), NEW key
  PROVE  /\ OfKey(rows, key) \in Seq(Line)
         /\ ToSet(OfKey(rows, key)) = {r \in ToSet(rows) : KeyOf(r) = key}
         /\ key \in ToSet(KeysOf(rows)) => OfKey(rows, key) # << >>
<1> DEFINE S == {r \in ToSet(rows) : KeyOf(r) = key}
<1>1. OfKey(rows, key) = Among(rows, S)
  BY DEF OfKey
<1>2. S \subseteq ToSet(rows)
  OBVIOUS
<1>3. key \in ToSet(KeysOf(rows)) => S # {}
  BY KeysOfType
<1> HIDE DEF S
<1>4. Among(rows, S) \in Seq(Line) /\ ToSet(Among(rows, S)) = S
  <2>1. Among(rows, S) \in Seq(Line) /\ ToSet(Among(rows, S)) = ToSet(rows) \cap S
    BY AmongType
  <2>2. QED
    BY <1>2, <2>1
<1>5. QED
  BY <1>1, <1>3, <1>4, NotEmpty DEF S

LEMMA MergedByKeyType ==
  ASSUME NEW rows \in Seq(Line)
  PROVE  /\ MergedByKey(rows) \in Seq(Line)
         /\ Len(MergedByKey(rows)) = Len(Distinct(KeysOf(rows)))
         /\ \A k \in 1 .. Len(MergedByKey(rows)) :
              /\ MergedByKey(rows)[k] = Merged(OfKey(rows, Distinct(KeysOf(rows))[k]))
              /\ KeyOf(MergedByKey(rows)[k]) = Distinct(KeysOf(rows))[k]
<1> DEFINE keys == Distinct(KeysOf(rows))
<1>1. keys \in Seq(Keys) /\ ToSet(keys) = ToSet(KeysOf(rows))
  BY KeysOfType, DistinctType
<1>2. MergedByKey(rows) = [k \in DOMAIN keys |-> Merged(OfKey(rows, keys[k]))]
  BY DEF MergedByKey, KeysOf
<1> HIDE DEF keys
<1>3. DOMAIN keys = 1 .. Len(keys) /\ Len(keys) \in Nat
  BY <1>1, LenProperties
<1>4. ASSUME NEW k \in 1 .. Len(keys)
      PROVE  Merged(OfKey(rows, keys[k])) \in Line /\ KeyOf(Merged(OfKey(rows, keys[k]))) = keys[k]
  <2> DEFINE group == OfKey(rows, keys[k])
  <2>1. keys[k] \in ToSet(KeysOf(rows))
    BY <1>1, ToSetType
  <2>2. /\ group \in Seq(Line) /\ group # << >>
        /\ ToSet(group) = {r \in ToSet(rows) : KeyOf(r) = keys[k]}
    BY <2>1, OfKeyType
  <2> HIDE DEF group
  <2>3. 1 \in 1 .. Len(group)
    BY <2>2, EmptySeq
  <2>4. KeyOf(group[1]) = keys[k]
    BY <2>2, <2>3, ToSetType
  <2>5. QED
    BY <2>2, <2>4, MergedType DEF group
<1>5. MergedByKey(rows) \in [1 .. Len(keys) -> Line]
  BY <1>2, <1>3, <1>4
<1>6. MergedByKey(rows) \in Seq(Line) /\ Len(MergedByKey(rows)) = Len(keys)
  BY <1>3, <1>5, ListOf
<1>7. QED
  BY <1>2, <1>3, <1>4, <1>6 DEF keys

LEMMA WindowType ==
  ASSUME NEW w \in PlannedPeriods
  PROVE  /\ w.start \in Nat /\ w.end \in Nat
         /\ w # NoPeriod => w.start \in Nat \ {0} /\ w.end \in Nat \ {0}
<1>1. w \in [start : Nat \ {0}, end : Nat \ {0}] \cup {NoPeriod}
  BY WorkbookAssumption, Zenon DEF PlannedPeriods
<1>2. QED
  BY <1>1 DEF NoPeriod

LEMMA PlacedInType ==
  ASSUME NEW w \in PlannedPeriods, w # NoPeriod, NEW r \in Line
  PROVE  /\ PlacedIn(w, r) \in Line
         /\ PlacedIn(w, r).plan = r.plan /\ PlacedIn(w, r).actual = r.actual
         /\ PlacedIn(w, r).inflated = r.inflated /\ PlacedIn(w, r).name = r.name
<1>1. w.start \in Nat \ {0}
  BY WindowType
<1>2. (w.start - 1) \div 12 \in Nat /\ ((w.start - 1) % 12) + 1 \in 0 .. 12
  BY <1>1
<1> DEFINE y == (w.start - 1) \div 12
           m == ((w.start - 1) % 12) + 1
<1>3. PlacedIn(w, r) = IF Inside(w, r) THEN r ELSE [r EXCEPT !.year = y, !.month = m, !.quarter = 0]
  BY DEF PlacedIn
<1>4. y \in Nat /\ m \in 0 .. 12
  BY <1>2
<1> HIDE DEF y, m
<1>5. CASE Inside(w, r)
  BY <1>3, <1>5
<1>6. CASE ~Inside(w, r)
  <2>1. PlacedIn(w, r) = [r EXCEPT !.year = y, !.month = m, !.quarter = 0]
    BY <1>3, <1>6
  <2>2. PlacedIn(w, r) \in Line
    <3>1. 0 \in 0 .. 4
      OBVIOUS
    <3>2. [r EXCEPT !.year = y, !.month = m, !.quarter = 0] \in Line
      BY <1>4, <3>1 DEF Line
    <3>3. QED
      BY <2>1, <3>2
  <2>3. PlacedIn(w, r).plan = r.plan /\ PlacedIn(w, r).actual = r.actual
    BY <1>4, <2>1 DEF Line
  <2>4. PlacedIn(w, r).inflated = r.inflated
    BY <1>4, <2>1 DEF Line
  <2>5. PlacedIn(w, r).name = r.name
    BY <1>4, <2>1 DEF Line
  <2>6. QED
    BY <2>2, <2>3, <2>4, <2>5
<1>7. QED
  BY <1>5, <1>6

LEMMA PlacedType ==
  ASSUME NEW w \in PlannedPeriods, NEW rows \in Seq(Line)
  PROVE  /\ Placed(w, rows) \in Seq(Line)
         /\ w # NoPeriod => [k \in DOMAIN rows |-> PlacedIn(w, rows[k])] \in Seq(Line)
<1>1. CASE w = NoPeriod
  BY <1>1 DEF Placed
<1>2. CASE w # NoPeriod
  <2> DEFINE moved == [k \in DOMAIN rows |-> PlacedIn(w, rows[k])]
  <2>1. DOMAIN rows = 1 .. Len(rows) /\ Len(rows) \in Nat
    BY LenProperties
  <2>2. \A k \in 1 .. Len(rows) : PlacedIn(w, rows[k]) \in Line
    BY <1>2, ElementOfSeq, PlacedInType
  <2>3. moved \in [1 .. Len(rows) -> Line]
    BY <2>1, <2>2
  <2>4. Placed(w, rows) = MergedByKey(moved)
    BY <1>2 DEF Placed
  <2> HIDE DEF moved
  <2>5. moved \in Seq(Line)
    BY <2>1, <2>3, ListOf
  <2>6. QED
    BY <2>4, <2>5, MergedByKeyType DEF moved
<1>3. QED
  BY <1>1, <1>2

\* The year from which the recurring lines of r's name are inflated.
FirstYear(rows, r) == Min({s.year : s \in {s \in ToSet(rows) : s.inflated /\ s.name = r.name}})

LEMMA FirstYearType ==
  ASSUME NEW rows \in Seq(Line), NEW r \in ToSet(rows), r.inflated
  PROVE  FirstYear(rows, r) \in Nat /\ r.year - FirstYear(rows, r) \in Nat
<1> DEFINE S == {s.year : s \in {s \in ToSet(rows) : s.inflated /\ s.name = r.name}}
<1>1. ToSet(rows) \subseteq Line
  BY ToSetType
<1>2. S \subseteq Nat /\ r.year \in S
  BY <1>1 DEF Line
<1>3. FirstYear(rows, r) = Min(S)
  BY DEF FirstYear
<1> HIDE DEF S
<1>4. Min(S) \in S /\ Min(S) <= r.year
  BY <1>2, LeastIn
<1>5. Min(S) \in Nat /\ r.year \in Nat
  BY <1>2, <1>4
<1> DEFINE first == Min(S)
<1> HIDE DEF first
<1>6. first \in Nat /\ r.year \in Nat /\ first <= r.year /\ FirstYear(rows, r) = first
  BY <1>3, <1>4, <1>5 DEF first
<1>7. QED
  BY <1>6

LEMMA PreparedType ==
  ASSUME NEW rows \in Seq(Line)
  PROVE  /\ Prepared(rows) \in Seq(Line)
         /\ (\A r \in ToSet(rows) : ~r.inflated) => Prepared(rows) = rows
<1> DEFINE one(k) == [rows[k] EXCEPT !.plan = Doubled(@, rows[k].year - FirstYear(rows, rows[k]))]
           row(k) == IF rows[k].inflated THEN one(k) ELSE rows[k]
<1>1. DOMAIN rows = 1 .. Len(rows) /\ Len(rows) \in Nat
  BY LenProperties
<1>2. Prepared(rows) = [k \in DOMAIN rows |-> row(k)]
  BY DEF Prepared, FirstYear
<1>3. ASSUME NEW k \in 1 .. Len(rows) PROVE row(k) \in Line
  <2>1. rows[k] \in Line /\ rows[k] \in ToSet(rows)
    BY ElementOfSeq, ToSetType
  <2>2. CASE rows[k].inflated
    <3>1. rows[k].year - FirstYear(rows, rows[k]) \in Nat /\ rows[k].plan \in Nat
      BY <2>1, <2>2, FirstYearType DEF Line
    <3> DEFINE p == Doubled(rows[k].plan, rows[k].year - FirstYear(rows, rows[k]))
    <3>2. p \in Nat /\ row(k) = [rows[k] EXCEPT !.plan = p]
      BY <2>2, <3>1, DoubledType
    <3> HIDE DEF p
    <3>3. QED
      BY <2>1, <3>2 DEF Line
  <2>3. QED
    BY <2>1, <2>2
<1>4. Prepared(rows) \in [1 .. Len(rows) -> Line]
  <2> HIDE DEF row
  <2>1. QED
    BY <1>1, <1>2, <1>3
<1>5. Prepared(rows) \in Seq(Line)
  BY <1>1, <1>4, ListOf
<1>6. ASSUME \A r \in ToSet(rows) : ~r.inflated PROVE Prepared(rows) = rows
  <2>1. \A k \in 1 .. Len(rows) : row(k) = rows[k]
    BY <1>6, ToSetType
  <2>2. rows \in [1 .. Len(rows) -> Line]
    BY LenProperties
  <2> HIDE DEF row
  <2>3. QED
    BY <1>1, <1>2, <2>1, <2>2
<1>7. QED
  BY <1>5, <1>6

LEMMA AskingType ==
  ASSUME NEW rows \in Seq(Line)
  PROVE  /\ Asking(rows) \in Seq(Line) /\ Len(Asking(rows)) = Len(rows)
         /\ \A k \in 1 .. Len(rows) :
              Asking(rows)[k] = [rows[k] EXCEPT !.inflated = rows[k].recurring
                                                             /\ inflation \in {"default_on", "default_fixed"}]
<1> DEFINE on(k) == rows[k].recurring /\ inflation \in {"default_on", "default_fixed"}
           row(k) == [rows[k] EXCEPT !.inflated = on(k)]
<1>1. DOMAIN rows = 1 .. Len(rows) /\ Len(rows) \in Nat
  BY LenProperties
<1>2. Asking(rows) = [k \in DOMAIN rows |-> row(k)]
  BY DEF Asking
<1>3. ASSUME NEW k \in 1 .. Len(rows) PROVE row(k) \in Line
  <2>1. rows[k] \in Line /\ on(k) \in BOOLEAN
    BY ElementOfSeq
  <2> HIDE DEF on
  <2>2. QED
    BY <2>1 DEF Line
<1>4. Asking(rows) \in [1 .. Len(rows) -> Line]
  <2> HIDE DEF row
  <2>1. QED
    BY <1>1, <1>2, <1>3
<1>5. Asking(rows) \in Seq(Line) /\ Len(Asking(rows)) = Len(rows)
  BY <1>1, <1>4, ListOf
<1>6. QED
  BY <1>1, <1>2, <1>5

LEMMA WrittenType ==
  ASSUME NEW lines \in Seq(Line), NEW rows \in Seq(Line)
  PROVE  /\ Written(lines, rows) \in Seq(Line)
         /\ WriteSteps(lines, rows) \in Seq(Seq(Line)) /\ WriteSteps(lines, rows) # << >>
  BY WritingType, LastType DEF Histories, Written

LEMMA RewrittenType ==
  ASSUME NEW rows \in Seq(Line)
  PROVE  Rewritten(rows) \in Seq(Line)
<1>1. << >> \in Seq(Line)
  OBVIOUS
<1>2. QED
  BY <1>1, PreparedType, WrittenType DEF Rewritten

\* What the calls of a handler on the grid leave alone.
SameButGrid(x, y) ==
  /\ x.owner = y.owner /\ x.window = y.window /\ x.locked = y.locked
  /\ x.updates = y.updates

LEMMA GridEdits ==
  ASSUME NEW x \in Initiative, NEW lines \in Seq(Line)
  PROVE  /\ [x EXCEPT !.lines = lines] \in Initiative
         /\ [x EXCEPT !.benefits = FALSE] \in Initiative
         /\ [x EXCEPT !.benefits = FALSE, !.lines = lines] \in Initiative
         /\ SameButGrid([x EXCEPT !.lines = lines], x)
         /\ SameButGrid([x EXCEPT !.benefits = FALSE], x)
         /\ SameButGrid([x EXCEPT !.benefits = FALSE, !.lines = lines], x)
         /\ [x EXCEPT !.lines = lines].lines = lines
         /\ [x EXCEPT !.lines = lines].benefits = x.benefits
         /\ [x EXCEPT !.benefits = FALSE].benefits = FALSE
         /\ [x EXCEPT !.benefits = FALSE].lines = x.lines
         /\ [x EXCEPT !.benefits = FALSE, !.lines = lines].lines = lines
         /\ [x EXCEPT !.benefits = FALSE, !.lines = lines].benefits = FALSE
<1>1. [x EXCEPT !.lines = lines] \in Initiative
  BY DEF Initiative
<1>2. [x EXCEPT !.benefits = FALSE] \in Initiative
  BY DEF Initiative
<1>3. [x EXCEPT !.benefits = FALSE, !.lines = lines] \in Initiative
  BY DEF Initiative
<1>4. SameButGrid([x EXCEPT !.lines = lines], x)
  BY DEF Initiative, SameButGrid
<1>5. SameButGrid([x EXCEPT !.benefits = FALSE], x)
  BY DEF Initiative, SameButGrid
<1>6. SameButGrid([x EXCEPT !.benefits = FALSE, !.lines = lines], x)
  BY DEF Initiative, SameButGrid
<1>7. /\ [x EXCEPT !.lines = lines].lines = lines
      /\ [x EXCEPT !.lines = lines].benefits = x.benefits
  BY DEF Initiative
<1>8. /\ [x EXCEPT !.benefits = FALSE].benefits = FALSE
      /\ [x EXCEPT !.benefits = FALSE].lines = x.lines
  BY DEF Initiative
<1>9. /\ [x EXCEPT !.benefits = FALSE, !.lines = lines].lines = lines
      /\ [x EXCEPT !.benefits = FALSE, !.lines = lines].benefits = FALSE
  BY DEF Initiative
<1>10. QED
  BY <1>1, <1>2, <1>3, <1>4, <1>5, <1>6, <1>7, <1>8, <1>9

LEMMA LinesEdit ==
  ASSUME NEW x \in Initiative, NEW lines \in Seq(Line)
  PROVE  LET e == [x EXCEPT !.lines = lines]
         IN  e \in Initiative /\ SameButGrid(e, x) /\ e.lines = lines /\ e.benefits = x.benefits
  BY GridEdits

LEMMA MovedLinesType ==
  ASSUME NEW b \in Initiative
  PROVE  /\ Moved(b) \in Initiative /\ SameButGrid(Moved(b), b)
         /\ IsSettled(b) => Moved(b) = b
         /\ ~IsSettled(b) => /\ Moved(b).lines = Rewritten(Placed(b.window, b.lines))
                             /\ Moved(b).benefits = FALSE
<1>1. b.lines \in Seq(Line) /\ b.window \in PlannedPeriods
  BY DEF Initiative
<1>2. Rewritten(Placed(b.window, b.lines)) \in Seq(Line)
  BY <1>1, PlacedType, RewrittenType
<1>3. Moved(b) = IF IsSettled(b) THEN b
                 ELSE [b EXCEPT !.benefits = FALSE, !.lines = Rewritten(Placed(b.window, b.lines))]
  BY DEF Moved
<1> DEFINE rewritten == Rewritten(Placed(b.window, b.lines))
<1> HIDE DEF rewritten
<1>4. SameButGrid(b, b)
  BY DEF SameButGrid
<1>5. CASE IsSettled(b)
  BY <1>3, <1>4, <1>5
<1>6. CASE ~IsSettled(b)
  <2>1. Moved(b) = [b EXCEPT !.benefits = FALSE, !.lines = rewritten] /\ rewritten \in Seq(Line)
    BY <1>2, <1>3, <1>6 DEF rewritten
  <2> DEFINE m == [b EXCEPT !.benefits = FALSE, !.lines = rewritten]
  <2>2. rewritten \in Seq(Line)
    BY <2>1
  <2>3. m \in Initiative /\ SameButGrid(m, b)
    BY <2>2, GridEdits
  <2>4. m.lines = rewritten /\ m.benefits = FALSE
    BY <2>2, GridEdits
  <2> HIDE DEF m
  <2>5. Moved(b) = m
    BY <2>1 DEF m
  <2>6. QED
    BY <1>6, <2>3, <2>4, <2>5 DEF rewritten
<1>7. QED
  BY <1>5, <1>6

LEMMA ToSetFinite ==
  ASSUME NEW V, NEW s \in Seq(V)
  PROVE  IsFiniteSet(ToSet(s))
<1> DEFINE n == Len(s)
<1>1. n \in Nat /\ s \in [1 .. n -> V] /\ ToSet(s) = {s[k] : k \in 1 .. n}
  BY LenProperties, ToSetType
<1>2. IsFiniteSet(1 .. n)
  BY <1>1, FS_Interval
<1> HIDE DEF n
<1>3. IsFiniteSet({s[k] : k \in 1 .. n})
  <2> DEFINE T == {s[k] : k \in 1 .. n}
             f == [k \in 1 .. n |-> s[k]]
  <2>1. f \in Surjection(1 .. n, T)
    BY DEF Surjection
  <2> HIDE DEF T, f
  <2>2. IsFiniteSet(T)
    BY <1>2, <2>1, FS_Surjection
  <2>3. QED
    BY <2>2 DEF T
<1>4. QED
  BY <1>1, <1>3

\* n years, one after the other.
YearsFrom(years, from, n) ==
  /\ years \in Seq(Nat) /\ Len(years) = n /\ from \in Nat /\ n \in Nat
  /\ \A k \in 1 .. n : years[k] = from + k - 1

LEMMA ExportYearsFacts ==
  ASSUME NEW b \in Initiative
  PROVE  \E from, n \in Nat :
           /\ YearsFrom(ExportYears(b), from, n)
           /\ \A r \in ToSet(b.lines) : from <= r.year /\ r.year <= from + n - 1
<1> DEFINE inLines == {r.year : r \in ToSet(b.lines)}
           inWindow == IF b.window = NoPeriod THEN {}
                       ELSE {(b.window.start - 1) \div 12, (b.window.end - 1) \div 12}
           named == inLines \cup inWindow
           from == IF named = {} THEN 1 ELSE Min(named)
           to == IF named = {} THEN FiscalYears ELSE Max(named \cup {from + FiscalYears - 1})
<1>1. ExportYears(b) = [k \in 1 .. to - from + 1 |-> from + k - 1]
  BY DEF ExportYears
<1>2. b.lines \in Seq(Line) /\ b.window \in PlannedPeriods
  BY DEF Initiative
<1>3. inLines \subseteq Nat /\ IsFiniteSet(inLines)
  <2>1. ToSet(b.lines) \subseteq Line /\ IsFiniteSet(ToSet(b.lines))
    BY <1>2, ToSetType, ToSetFinite
  <2> DEFINE f == [r \in ToSet(b.lines) |-> r.year]
  <2>2. f \in Surjection(ToSet(b.lines), inLines)
    BY DEF Surjection
  <2>3. inLines \subseteq Nat
    BY <2>1 DEF Line
  <2> HIDE DEF f, inLines
  <2>4. IsFiniteSet(inLines)
    BY <2>1, <2>2, FS_Surjection
  <2>5. QED
    BY <2>3, <2>4
<1>4. inWindow \subseteq Nat /\ IsFiniteSet(inWindow)
  <2>1. CASE b.window = NoPeriod
    BY <2>1, FS_EmptySet
  <2>2. CASE b.window # NoPeriod
    <3>1. b.window.start \in Nat \ {0} /\ b.window.end \in Nat \ {0}
      BY <1>2, <2>2, WindowType
    <3> DEFINE s == (b.window.start - 1) \div 12
               e == (b.window.end - 1) \div 12
    <3>2. s \in Nat /\ e \in Nat
      BY <3>1
    <3>3. inWindow = {s} \cup {e}
      BY <2>2
    <3> HIDE DEF s, e, inWindow
    <3>4. IsFiniteSet({s}) /\ IsFiniteSet({e})
      BY FS_Singleton
    <3>5. IsFiniteSet({s} \cup {e})
      BY <3>4, FS_Union
    <3>6. QED
      BY <3>2, <3>3, <3>5
  <2>3. QED
    BY <2>1, <2>2
<1>5. \A r \in ToSet(b.lines) : r.year \in named
  OBVIOUS
<1> HIDE DEF inLines, inWindow
<1>6. named \subseteq Nat /\ IsFiniteSet(named)
  BY <1>3, <1>4, FS_Union
<1> HIDE DEF named
<1>7. FiscalYears \in Nat \ {0}
  BY WorkbookAssumption
<1>8. from \in Nat /\ \A y \in named : from <= y
  BY <1>6, LeastIn
<1> HIDE DEF from
<1>9. to \in Nat /\ to - from + 1 \in Nat /\ \A y \in named : y <= to
  <2>1. CASE named = {}
    BY <1>7, <2>1 DEF from
  <2>2. CASE named # {}
    <3> DEFINE last == from + FiscalYears - 1
               all == named \cup {last}
    <3>1. last \in Nat /\ last >= from
      BY <1>7, <1>8
    <3>2. to = Max(all)
      BY <2>2
    <3> HIDE DEF last, to
    <3>3. all \subseteq Nat /\ all # {} /\ IsFiniteSet(all)
      BY <1>6, <3>1, FS_Singleton, FS_Union
    <3>4. last \in all /\ named \subseteq all
      OBVIOUS
    <3> HIDE DEF all
    <3>5. Max(all) \in all /\ last <= Max(all) /\ \A y \in named : y <= Max(all)
      BY <3>3, <3>4, GreatestIn
    <3> DEFINE most == Max(all)
    <3>6. most \in Nat /\ last <= most /\ to = most /\ \A y \in named : y <= most
      BY <3>2, <3>3, <3>5
    <3> HIDE DEF most
    <3>7. to \in Nat /\ to - from + 1 \in Nat
      BY <1>8, <3>1, <3>6
    <3>8. QED
      BY <3>6, <3>7
  <2>3. QED
    BY <2>1, <2>2
<1> HIDE DEF to
<1> DEFINE n == to - from + 1
           years == [k \in 1 .. n |-> from + k - 1]
<1>10. n \in Nat /\ years \in [1 .. n -> Nat]
  BY <1>8, <1>9
<1>11. ExportYears(b) = years /\ \A k \in 1 .. n : years[k] = from + k - 1
  BY <1>1
<1>12. \A r \in ToSet(b.lines) : from <= r.year /\ r.year <= from + n - 1
  <2>1. \A y \in named : y \in Nat /\ from <= y /\ y <= from + n - 1
    BY <1>6, <1>8, <1>9
  <2> HIDE DEF n
  <2>2. QED
    BY <1>5, <2>1
<1> HIDE DEF n, years
<1>13. years \in Seq(Nat) /\ Len(years) = n
  BY <1>10, ListOf
<1>14. YearsFrom(ExportYears(b), from, n)
  BY <1>8, <1>10, <1>11, <1>13 DEF YearsFrom
<1>15. QED
  BY <1>8, <1>10, <1>12, <1>14

LEMMA ExportYearsType ==
  ASSUME NEW b \in Initiative
  PROVE  ExportYears(b) \in Seq(Nat)
  BY ExportYearsFacts DEF YearsFrom

LEMMA ShareType ==
  ASSUME NEW r \in Line, NEW amount \in Nat, NEW y, NEW m
  PROVE  Share(r, amount, y, m) \in Nat
  BY DEF Share

LEMMA TwelfthsType ==
  ASSUME NEW group \in Seq(Line), NEW lane \in Lanes, NEW y, NEW m
  PROVE  Twelfths(group, lane, y, m) \in Nat
<1> DEFINE share(k) == Share(group[k], InLane(group[k], lane), y, m)
           shares == [k \in DOMAIN group |-> share(k)]
<1>1. DOMAIN group = 1 .. Len(group) /\ Len(group) \in Nat
  BY LenProperties
<1>2. \A k \in 1 .. Len(group) : share(k) \in Nat
  BY ElementOfSeq, InLaneType, ShareType
<1>3. Twelfths(group, lane, y, m) = Total(shares)
  BY DEF Twelfths
<1>4. shares \in [1 .. Len(group) -> Nat]
  <2> HIDE DEF share
  <2>1. QED
    BY <1>1, <1>2
<1> HIDE DEF shares
<1>5. shares \in Seq(Nat)
  BY <1>1, <1>4, ListOf
<1>6. QED
  BY <1>3, <1>5, TotalNat

LEMMA RoundedType ==
  ASSUME NEW t \in Nat
  PROVE  Rounded(t) \in Nat
<1>1. t \div 12 \in Nat
  OBVIOUS
<1> DEFINE down == t \div 12
<1>2. Rounded(t) \in {down, down + 1}
  BY DEF Rounded
<1>3. QED
  BY <1>1, <1>2

LEMMA CellsType ==
  ASSUME NEW group \in Seq(Line), NEW lane \in Lanes, NEW years
  PROVE  Cells(group, lane, years) \in [1 .. 12 * Len(years) -> Nat]
  BY TwelfthsType, RoundedType DEF Cells

Cost(n) == [name : Nat, recurring : BOOLEAN, plan : [1 .. n -> Nat], actual : [1 .. n -> Nat]]

LEMMA CostRowType ==
  ASSUME NEW g \in Nat \X BOOLEAN, NEW group \in Seq(Line), NEW years
  PROVE  CostRow(g, group, years) \in Cost(12 * Len(years))
<1>1. g[1] \in Nat /\ g[2] \in BOOLEAN
  OBVIOUS
<1>2. \A lane \in Lanes : Cells(group, lane, years) \in [1 .. 12 * Len(years) -> Nat]
  BY CellsType
<1>3. QED
  BY <1>1, <1>2 DEF CostRow, Cost, Lanes

GroupsOf(rows) == [k \in DOMAIN rows |-> GroupOf(rows[k])]

LEMMA GroupsType ==
  ASSUME NEW rows \in Seq(Line)
  PROVE  /\ Groups(rows) \in Seq(Nat \X BOOLEAN) /\ Differ(Groups(rows))
         /\ ToSet(Groups(rows)) = {GroupOf(r) : r \in ToSet(rows)}
<1>1. DOMAIN rows = 1 .. Len(rows) /\ Len(rows) \in Nat
  BY LenProperties
<1>2. \A k \in 1 .. Len(rows) : GroupOf(rows[k]) \in Nat \X BOOLEAN
  <2>1. \A k \in 1 .. Len(rows) : rows[k] \in Line
    BY ElementOfSeq
  <2>2. QED
    BY <2>1 DEF GroupOf, Line
<1>3. GroupsOf(rows) \in [1 .. Len(rows) -> Nat \X BOOLEAN]
  BY <1>1, <1>2 DEF GroupsOf
<1>4. /\ GroupsOf(rows) \in Seq(Nat \X BOOLEAN)
      /\ ToSet(GroupsOf(rows)) = {GroupsOf(rows)[k] : k \in 1 .. Len(rows)}
  <2> DEFINE G == Nat \X BOOLEAN
             f == GroupsOf(rows)
  <2>1. f \in [1 .. Len(rows) -> G]
    BY <1>3
  <2> HIDE DEF G, f
  <2>2. f \in Seq(G) /\ ToSet(f) = {f[k] : k \in 1 .. Len(rows)}
    BY <1>1, <2>1, ListOf
  <2>3. QED
    BY <2>2 DEF G, f
<1>5. ToSet(GroupsOf(rows)) = {GroupOf(r) : r \in ToSet(rows)}
  <2>1. \A k \in 1 .. Len(rows) : GroupsOf(rows)[k] = GroupOf(rows[k])
    BY <1>1 DEF GroupsOf
  <2>2. ToSet(rows) = {rows[k] : k \in 1 .. Len(rows)}
    BY ToSetType
  <2>3. QED
    BY <1>4, <2>1, <2>2
<1>6. Groups(rows) = Distinct(GroupsOf(rows))
  BY DEF Groups, GroupsOf
<1>7. QED
  BY <1>4, <1>5, <1>6, DistinctType

LEMMA OfGroupType ==
  ASSUME NEW rows \in Seq(Line), NEW g
  PROVE  /\ OfGroup(rows, g) \in Seq(Line)
         /\ ToSet(OfGroup(rows, g)) = {r \in ToSet(rows) : GroupOf(r) = g}
<1> DEFINE S == {r \in ToSet(rows) : GroupOf(r) = g}
<1>1. Among(rows, S) \in Seq(Line) /\ ToSet(Among(rows, S)) = ToSet(rows) \cap S
  BY AmongType
<1>2. QED
  BY <1>1 DEF OfGroup

LEMMA CostRowsType ==
  ASSUME NEW rows \in Seq(Line), NEW years
  PROVE  /\ CostRows(rows, years) \in Seq(Cost(12 * Len(years)))
         /\ Len(CostRows(rows, years)) = Len(Groups(rows))
         /\ \A k \in 1 .. Len(Groups(rows)) :
              CostRows(rows, years)[k]
                = CostRow(Groups(rows)[k], OfGroup(rows, Groups(rows)[k]), years)
<1> DEFINE gs == Groups(rows)
           row(k) == CostRow(gs[k], OfGroup(rows, gs[k]), years)
           n == 12 * Len(years)
<1>1. DOMAIN gs = 1 .. Len(gs) /\ Len(gs) \in Nat /\ gs \in Seq(Nat \X BOOLEAN)
  BY GroupsType, LenProperties
<1>2. CostRows(rows, years) = [k \in DOMAIN gs |-> row(k)]
  BY DEF CostRows
<1> HIDE DEF gs
<1>3. \A k \in 1 .. Len(gs) : row(k) \in Cost(n)
  <2>1. \A k \in 1 .. Len(gs) : gs[k] \in Nat \X BOOLEAN /\ OfGroup(rows, gs[k]) \in Seq(Line)
    BY <1>1, ElementOfSeq, OfGroupType
  <2>2. QED
    BY <2>1, CostRowType
<1> HIDE DEF n, row
<1>4. CostRows(rows, years) \in [1 .. Len(gs) -> Cost(n)]
  BY <1>1, <1>2, <1>3
<1>5. CostRows(rows, years) \in Seq(Cost(n)) /\ Len(CostRows(rows, years)) = Len(gs)
  BY <1>1, <1>4, ListOf
<1>6. \A k \in 1 .. Len(gs) : CostRows(rows, years)[k] = row(k)
  BY <1>1, <1>2
<1>7. QED
  BY <1>5, <1>6 DEF gs, n, row

\* A file that can be read: an exported one has the columns of its years.
IsExported(f) == f.format = "alchemist" /\ f \in Exported(12 * Len(f.years))

IsFile(f) == f \in Filled \cup Entered \/ IsExported(f)

LEMMA ItemRowsType ==
  ASSUME NEW items \in Items({"none", "new", "worked"})
  PROVE  ItemRows(items) \in Items(BOOLEAN)
  BY DEF Items, ItemRows

LEMMA ReverseType ==
  ASSUME NEW V, NEW s \in Seq(V)
  PROVE  Reverse(s) \in Seq(V) /\ ToSet(Reverse(s)) = ToSet(s)
<1> DEFINE n == Len(s)
<1>1. n \in Nat /\ \A k \in 1 .. n : s[k] \in V
  BY LenProperties, ElementOfSeq
<1>2. \A k \in 1 .. n : (n - k) + 1 \in 1 .. n
  BY <1>1
<1>3. Reverse(s) = [k \in 1 .. n |-> s[(n - k) + 1]]
  BY DEF Reverse
<1> HIDE DEF n
<1>4. Reverse(s) \in [1 .. n -> V]
  BY <1>1, <1>2, <1>3
<1>5. Reverse(s) \in Seq(V) /\ ToSet(Reverse(s)) = {Reverse(s)[k] : k \in 1 .. n}
  BY <1>1, <1>4, ListOf
<1>6. ToSet(s) = {s[k] : k \in 1 .. n}
  BY ToSetType DEF n
<1>7. ASSUME NEW k \in 1 .. n PROVE s[k] \in ToSet(Reverse(s))
  <2>1. (n - k) + 1 \in 1 .. n /\ (n - ((n - k) + 1)) + 1 = k
    BY <1>1
  <2>2. Reverse(s)[(n - k) + 1] = s[k]
    BY <1>3, <2>1
  <2>3. QED
    BY <1>5, <2>1, <2>2
<1>8. ASSUME NEW k \in 1 .. n PROVE Reverse(s)[k] \in ToSet(s)
  BY <1>2, <1>3, <1>6
<1>9. QED
  BY <1>5, <1>6, <1>7, <1>8

LEMMA WorkbookFileType ==
  ASSUME NEW b \in Initiative, NEW of \in Books
  PROVE  IsExported(Workbook(b, of))
<1> DEFINE years == ExportYears(b)
           costs == CostRows(Listed(b.lines), years)
           updates == UpdateRows(b.updates)
           items == ItemRows(b.items)
<1>1. /\ b.lines \in Seq(Line) /\ b.updates \in Seq(BookUpdates) /\ b.window \in PlannedPeriods
      /\ b.items \in Items({"none", "new", "worked"}) /\ b.benefits \in BOOLEAN
  BY DEF Initiative
<1>2. years \in Seq(Nat) /\ costs \in Seq(Cost(12 * Len(years)))
  BY <1>1, ExportYearsType, ListedType, CostRowsType
<1>3. updates \in Seq(BookUpdates) /\ items \in Items(BOOLEAN)
  BY <1>1, ReverseType, ItemRowsType DEF UpdateRows
<1>4. Workbook(b, of)
        = [format |-> "alchemist", of |-> of, valid |-> TRUE, rag |-> "",
           window |-> b.window, years |-> years, costs |-> costs, benefits |-> b.benefits,
           updates |-> updates, items |-> items]
  BY DEF Workbook
<1> HIDE DEF years, costs, updates, items
<1> DEFINE n == 12 * Len(years)
           f == Workbook(b, of)
           period == b.window
           benefits == b.benefits
<1>5. f = [format |-> "alchemist", of |-> of, valid |-> TRUE, rag |-> "",
           window |-> period, years |-> years, costs |-> costs, benefits |-> benefits,
           updates |-> updates, items |-> items]
  BY <1>4
<1>6. period \in PlannedPeriods /\ benefits \in BOOLEAN
  BY <1>1
<1> HIDE DEF f, n, period, benefits
<1>7. f.format = "alchemist" /\ f.years = years
  BY <1>5
<1>8. f \in Exported(n)
  <2> DEFINE C == Cost(n)
  <2>1. costs \in Seq(C)
    BY <1>2 DEF n
  <2> HIDE DEF C
  <2>2. f \in [format : {"alchemist"}, of : Books, valid : {TRUE}, rag : {""},
                window : PlannedPeriods, years : Seq(Nat), costs : Seq(C), benefits : BOOLEAN,
                updates : Seq(BookUpdates), items : Items(BOOLEAN)]
    BY <1>2, <1>3, <1>5, <1>6, <2>1
  <2>3. QED
    BY <2>2 DEF Exported, Cost, C
<1>9. QED
  BY <1>7, <1>8 DEF IsExported, n, f

LEMMA OnceType ==
  ASSUME NEW rows \in Seq(Line)
  PROVE  Once(rows) \in Seq(Line)
<1> DEFINE id(r) == <<r.name, KeyOf(r)>>
           Ids == Nat \X Keys
           ids == [k \in DOMAIN rows |-> id(rows[k])]
           keys == Distinct(ids)
           group(k) == Among(rows, {r \in ToSet(rows) : id(r) = keys[k]})
<1>1. DOMAIN rows = 1 .. Len(rows) /\ Len(rows) \in Nat
  BY LenProperties
<1>2. \A k \in 1 .. Len(rows) : id(rows[k]) \in Ids
  <2>1. \A k \in 1 .. Len(rows) : rows[k] \in Line
    BY ElementOfSeq
  <2>2. \A k \in 1 .. Len(rows) : rows[k].name \in Nat
    BY <2>1 DEF Line
  <2>3. QED
    BY <2>1, <2>2, KeyType
<1>3. ids \in [1 .. Len(rows) -> Ids] /\ \A k \in 1 .. Len(rows) : ids[k] = id(rows[k])
  <2> HIDE DEF id, Ids
  <2>1. QED
    BY <1>1, <1>2
<1>4. Once(rows) = [k \in DOMAIN keys |-> group(k)[1]]
  BY DEF Once
<1> HIDE DEF ids, Ids
<1>5. ids \in Seq(Ids) /\ ToSet(ids) = {ids[k] : k \in 1 .. Len(rows)}
  <2> DEFINE n == Len(rows)
  <2>1. n \in Nat
    BY <1>1
  <2>2. ids \in [1 .. n -> Ids]
    BY <1>3
  <2> HIDE DEF n
  <2>3. ids \in Seq(Ids) /\ ToSet(ids) = {ids[k] : k \in 1 .. n}
    BY <2>1, <2>2, ListOf
  <2>4. QED
    BY <2>3 DEF n
<1>6. keys \in Seq(Ids) /\ ToSet(keys) = ToSet(ids)
  <2>1. ids \in Seq(Ids)
    BY <1>5
  <2>2. Distinct(ids) \in Seq(Ids) /\ ToSet(Distinct(ids)) = ToSet(ids)
    BY <2>1, DistinctType
  <2>3. QED
    BY <2>2
<1> HIDE DEF keys
<1>7. DOMAIN keys = 1 .. Len(keys) /\ Len(keys) \in Nat
  BY <1>6, LenProperties
<1>8. ASSUME NEW k \in 1 .. Len(keys) PROVE group(k)[1] \in Line
  <2>1. keys[k] \in ToSet(ids)
    BY <1>6, ToSetType
  <2>2. PICK j \in 1 .. Len(rows) : id(rows[j]) = keys[k]
    BY <1>3, <1>5, <2>1
  <2> DEFINE S == {r \in ToSet(rows) : id(r) = keys[k]}
  <2>3. rows[j] \in S /\ S \subseteq ToSet(rows)
    BY <2>2, ToSetType
  <2> HIDE DEF S
  <2>4. Among(rows, S) \in Seq(Line) /\ ToSet(Among(rows, S)) = ToSet(rows) \cap S
    BY AmongType
  <2>5. Among(rows, S) # << >>
    BY <2>3, <2>4, NotEmpty
  <2>6. 1 \in 1 .. Len(Among(rows, S))
    BY <2>4, <2>5, EmptySeq
  <2>7. Among(rows, S)[1] \in Line
    BY <2>4, <2>6, ElementOfSeq
  <2>8. QED
    BY <2>7 DEF S
<1> HIDE DEF group
<1>9. Once(rows) \in [1 .. Len(keys) -> Line]
  BY <1>4, <1>7, <1>8
<1>10. QED
  BY <1>7, <1>9, ListOf

LEMMA YearOfType ==
  ASSUME NEW years \in Seq(Nat), NEW k \in 1 .. 12 * Len(years)
  PROVE  ((k - 1) \div 12) + 1 \in 1 .. Len(years) /\ YearOf(years, k) \in Nat /\ MonthOf(k) \in 1 .. 12
<1>1. Len(years) \in Nat
  BY LenProperties
<1>2. ((k - 1) \div 12) + 1 \in 1 .. Len(years) /\ ((k - 1) % 12) + 1 \in 1 .. 12
  BY <1>1
<1>3. years[((k - 1) \div 12) + 1] \in Nat
  BY <1>2, ElementOfSeq
<1>4. QED
  BY <1>2, <1>3 DEF YearOf, MonthOf

LEMMA ReadCellType ==
  ASSUME NEW years \in Seq(Nat), NEW row \in Cost(12 * Len(years)), NEW k \in 1 .. 12 * Len(years)
  PROVE  ReadCell(row, years, k) \in Line
<1> DEFINE n == 12 * Len(years)
<1>1. row.name \in Nat /\ row.recurring \in BOOLEAN /\ row.plan \in [1 .. n -> Nat]
      /\ row.actual \in [1 .. n -> Nat]
  BY DEF Cost
<1>2. row.plan[k] \in Nat /\ row.actual[k] \in Nat
  BY <1>1
<1>3. YearOf(years, k) \in Nat /\ MonthOf(k) \in 0 .. 12 /\ 0 \in 0 .. 4
  BY YearOfType
<1>4. QED
  BY <1>1, <1>2, <1>3 DEF ReadCell, Line

\* The columns of a row in which there is something, in their order.
ColumnsOf(row, years) ==
  Among([k \in DOMAIN row.plan |-> k],
        {k \in DOMAIN row.plan : ~IsNothing(ReadCell(row, years, k))})

LEMMA ColumnsOfType ==
  ASSUME NEW years \in Seq(Nat), NEW row \in Cost(12 * Len(years))
  PROVE  /\ ColumnsOf(row, years) \in Seq(1 .. 12 * Len(years))
         /\ ToSet(ColumnsOf(row, years))
              = {k \in 1 .. 12 * Len(years) : ~IsNothing(ReadCell(row, years, k))}
<1> DEFINE n == 12 * Len(years)
           N == 1 .. n
           S == {k \in DOMAIN row.plan : ~IsNothing(ReadCell(row, years, k))}
           all == [k \in DOMAIN row.plan |-> k]
<1>1. n \in Nat /\ DOMAIN row.plan = N
  BY LenProperties DEF Cost
<1>2. all \in [1 .. n -> N] /\ \A k \in 1 .. n : all[k] = k
  BY <1>1
<1>3. S \subseteq N /\ S = {k \in N : ~IsNothing(ReadCell(row, years, k))}
  BY <1>1
<1>4. ColumnsOf(row, years) = Among(all, S)
  BY DEF ColumnsOf
<1> HIDE DEF S, N, all, n
<1>5. all \in Seq(N) /\ ToSet(all) = {all[k] : k \in 1 .. n}
  <2>1. n \in Nat
    BY <1>1
  <2>2. all \in [1 .. n -> N]
    BY <1>2
  <2>3. QED
    BY <2>1, <2>2, ListOf
<1>6. ToSet(all) = N
  BY <1>2, <1>5 DEF N
<1>7. Among(all, S) \in Seq(N) /\ ToSet(Among(all, S)) = ToSet(all) \cap S
  BY <1>5, AmongType
<1>8. QED
  BY <1>3, <1>4, <1>6, <1>7 DEF N, n

LEMMA ParsedRowType ==
  ASSUME NEW years \in Seq(Nat), NEW row \in Cost(12 * Len(years))
  PROVE  /\ ParsedRow(row, years) \in Seq(Line)
         /\ Len(ParsedRow(row, years)) = Len(ColumnsOf(row, years))
         /\ \A j \in 1 .. Len(ColumnsOf(row, years)) :
              ParsedRow(row, years)[j] = ReadCell(row, years, ColumnsOf(row, years)[j])
<1> DEFINE columns == ColumnsOf(row, years)
           n == 12 * Len(years)
<1>1. columns \in Seq(1 .. n)
  BY ColumnsOfType
<1>2. ParsedRow(row, years) = [j \in DOMAIN columns |-> ReadCell(row, years, columns[j])]
  BY DEF ParsedRow, ColumnsOf
<1> HIDE DEF columns
<1>3. DOMAIN columns = 1 .. Len(columns) /\ Len(columns) \in Nat
  BY <1>1, LenProperties
<1>4. \A j \in 1 .. Len(columns) : columns[j] \in 1 .. n
  BY <1>1, ElementOfSeq
<1>5. \A j \in 1 .. Len(columns) : ReadCell(row, years, columns[j]) \in Line
  BY <1>4, ReadCellType
<1>6. ParsedRow(row, years) \in [1 .. Len(columns) -> Line]
  BY <1>2, <1>3, <1>5
<1>7. ParsedRow(row, years) \in Seq(Line) /\ Len(ParsedRow(row, years)) = Len(columns)
  BY <1>3, <1>6, ListOf
<1>8. \A j \in 1 .. Len(columns) : ParsedRow(row, years)[j] = ReadCell(row, years, columns[j])
  BY <1>2, <1>3
<1>9. QED
  BY <1>7, <1>8 DEF columns

ParsedRows(f) == [k \in DOMAIN f.costs |-> ParsedRow(f.costs[k], f.years)]

LEMMA ParsedRowsType ==
  ASSUME NEW f, IsExported(f)
  PROVE  /\ ParsedRows(f) \in Seq(Seq(Line)) /\ Len(ParsedRows(f)) = Len(f.costs)
         /\ \A k \in 1 .. Len(f.costs) : ParsedRows(f)[k] = ParsedRow(f.costs[k], f.years)
         /\ ParsedLines(f) = FlattenSeq(ParsedRows(f)) /\ ParsedLines(f) \in Seq(Line)
<1>1. f.years \in Seq(Nat) /\ f.costs \in Seq(Cost(12 * Len(f.years))) /\ f.format = "alchemist"
  BY DEF IsExported, Exported, Cost
<1>2. DOMAIN f.costs = 1 .. Len(f.costs) /\ Len(f.costs) \in Nat
  BY <1>1, LenProperties
<1> DEFINE costs == f.costs
           C == Cost(12 * Len(f.years))
<1>3. \A k \in 1 .. Len(costs) : costs[k] \in C
  <2>1. costs \in Seq(C)
    BY <1>1
  <2> HIDE DEF costs, C
  <2>2. QED
    BY <2>1, ElementOfSeq
<1>4. \A k \in 1 .. Len(costs) : ParsedRow(costs[k], f.years) \in Seq(Line)
  BY <1>1, <1>3, ParsedRowType
<1>5. ParsedRows(f) \in [1 .. Len(costs) -> Seq(Line)]
  BY <1>2, <1>4 DEF ParsedRows
<1>6. ParsedRows(f) \in Seq(Seq(Line)) /\ Len(ParsedRows(f)) = Len(costs)
  <2> DEFINE L == Seq(Line)
             rows == ParsedRows(f)
             n == Len(costs)
  <2>1. rows \in [1 .. n -> L] /\ n \in Nat
    BY <1>2, <1>5
  <2> HIDE DEF L, rows, n
  <2>2. rows \in Seq(L) /\ Len(rows) = n
    BY <2>1, ListOf
  <2>3. QED
    BY <2>2 DEF L, rows, n
<1>7. \A k \in 1 .. Len(costs) : ParsedRows(f)[k] = ParsedRow(costs[k], f.years)
  BY <1>2 DEF ParsedRows
<1>8. ParsedLines(f) = FlattenSeq(ParsedRows(f))
  BY <1>1 DEF ParsedLines, ParsedRows
<1>9. FlattenSeq(ParsedRows(f)) \in Seq(Line)
  BY <1>6, FlattenType
<1>10. QED
  BY <1>6, <1>7, <1>8, <1>9

LEMMA EnteredLinesType ==
  ASSUME NEW lines \in Seq(Line)
  PROVE  EnteredLines(lines) \in Seq(Line)
<1>1. DOMAIN lines = 1 .. Len(lines) /\ Len(lines) \in Nat
  BY LenProperties
<1>2. \A k \in 1 .. Len(lines) : [lines[k] EXCEPT !.inflated = FALSE] \in Line
  <2>1. \A k \in 1 .. Len(lines) : lines[k] \in Line
    BY ElementOfSeq
  <2>2. QED
    BY <2>1 DEF Line
<1>3. EnteredLines(lines) \in [1 .. Len(lines) -> Line]
  BY <1>1, <1>2 DEF EnteredLines
<1>4. QED
  BY <1>1, <1>3, ListOf

LEMMA ParsedLinesType ==
  ASSUME NEW f, IsFile(f)
  PROVE  ParsedLines(f) \in Seq(Line)
<1>1. CASE f \in Filled \cup Entered
  <2>1. f.format # "alchemist" /\ f.lines \in Seq(Line)
    BY <1>1 DEF Filled, Entered
  <2>2. QED
    BY <2>1, EnteredLinesType DEF ParsedLines
<1>2. CASE IsExported(f)
  BY <1>2, ParsedRowsType
<1>3. QED
  BY <1>1, <1>2 DEF IsFile

\* The lines that are there with the key of r.
Known(now, r) == Among(now, {s \in ToSet(now) : SameKey(r, s)})

LEMMA KnownType ==
  ASSUME NEW now \in Seq(Line), NEW r
  PROVE  /\ Known(now, r) \in Seq(Line)
         /\ ToSet(Known(now, r)) = {s \in ToSet(now) : SameKey(r, s)}
<1> DEFINE S == {s \in ToSet(now) : SameKey(r, s)}
<1>1. Among(now, S) \in Seq(Line) /\ ToSet(Among(now, S)) = ToSet(now) \cap S
  BY AmongType
<1>2. QED
  BY <1>1 DEF Known

KnownAmong(rows, now) == Among(rows, {r \in ToSet(rows) : Known(now, r) # << >>})

LEMMA KeepingThePlanType ==
  ASSUME NEW lines \in Seq(Line), NEW rows \in Seq(Line)
  PROVE  /\ KeepingThePlan(lines, rows) \in Seq(Line)
         /\ lines = << >> => KeepingThePlan(lines, rows) = << >>
<1> DEFINE now == Listed(lines)
           kept == KnownAmong(rows, now)
           row(k) == [kept[k] EXCEPT !.name = Last(Known(now, kept[k])).name,
                                     !.plan = Last(Known(now, kept[k])).plan]
<1>1. now \in Seq(Line)
  BY ListedType
<1>2. KeepingThePlan(lines, rows) = [k \in DOMAIN kept |-> row(k)]
  BY DEF KeepingThePlan, KnownAmong, Known
<1> DEFINE S == {r \in ToSet(rows) : Known(now, r) # << >>}
<1>3. kept = Among(rows, S) /\ S \subseteq ToSet(rows) /\ \A r \in S : Known(now, r) # << >>
  BY DEF KnownAmong
<1>4. lines = << >> => \A r : Known(now, r) = << >>
  <2>1. SUFFICES ASSUME lines = << >>, NEW r PROVE Known(now, r) = << >>
    OBVIOUS
  <2>2. now = << >>
    BY <2>1, ListedEmpty
  <2>3. ToSet(now) = {}
    BY <2>2, ToSetType
  <2>4. ToSet(Known(now, r)) = {} /\ Known(now, r) \in Seq(Line)
    BY <1>1, <2>3, KnownType
  <2>5. QED
    BY <2>4, NotEmpty
<1>5. lines = << >> => S = {}
  BY <1>4
<1> HIDE DEF S, kept, now
<1>6. kept \in Seq(Line) /\ ToSet(kept) = ToSet(rows) \cap S
  BY <1>3, AmongType
<1>7. DOMAIN kept = 1 .. Len(kept) /\ Len(kept) \in Nat
  BY <1>6, LenProperties
<1>8. ASSUME NEW k \in 1 .. Len(kept) PROVE row(k) \in Line
  <2>1. kept[k] \in S /\ kept[k] \in Line
    BY <1>6, ToSetType, ElementOfSeq
  <2> DEFINE known == Known(now, kept[k])
  <2>2. known \in Seq(Line) /\ known # << >>
    BY <1>1, <1>3, <2>1, KnownType
  <2> HIDE DEF known
  <2>3. Last(known) \in Line
    BY <2>2, LastType
  <2> DEFINE x == Last(known).name
             p == Last(known).plan
  <2>4. x \in Nat /\ p \in Nat
    BY <2>3 DEF Line
  <2>5. row(k) = [kept[k] EXCEPT !.name = x, !.plan = p]
    BY DEF known
  <2> HIDE DEF x, p, row
  <2>6. QED
    BY <2>1, <2>4, <2>5 DEF Line
<1> HIDE DEF row
<1>9. KeepingThePlan(lines, rows) \in [1 .. Len(kept) -> Line]
  BY <1>2, <1>7, <1>8
<1>10. KeepingThePlan(lines, rows) \in Seq(Line) /\ Len(KeepingThePlan(lines, rows)) = Len(kept)
  BY <1>7, <1>9, ListOf
<1>11. ASSUME lines = << >> PROVE KeepingThePlan(lines, rows) = << >>
  <2>1. ToSet(kept) = {}
    BY <1>5, <1>6, <1>11
  <2>2. kept = << >>
    BY <1>6, <2>1, NotEmpty
  <2>3. Len(kept) = 0
    BY <2>2
  <2>4. QED
    BY <1>10, <2>3, EmptySeq
<1>12. QED
  BY <1>10, <1>11

LEMMA RowsForType ==
  ASSUME NEW b \in Initiative, NEW f, IsFile(f)
  PROVE  RowsFor(b, f) \in Seq(Line)
<1>1. b.lines \in Seq(Line) /\ b.window \in PlannedPeriods
  BY DEF Initiative
<1> DEFINE rows == Prepared(Asking(Placed(b.window, ParsedLines(f))))
<1>2. rows \in Seq(Line)
  BY <1>1, ParsedLinesType, PlacedType, AskingType, PreparedType
<1> HIDE DEF rows
<1>3. Allowed(b, rows) \in Seq(Line)
  BY <1>1, <1>2, KeepingThePlanType DEF Allowed
<1>4. QED
  BY <1>3 DEF RowsFor, rows

\* What a handler leaves, if it has written the grid of b.
IsGridWork(steps, b) ==
  /\ steps \in Seq(Initiative) /\ steps # << >>
  /\ \A s \in ToSet(steps) : SameButGrid(s, b)

LEMMA SameButGridAgain ==
  ASSUME NEW x, NEW y, NEW z, SameButGrid(x, y), SameButGrid(y, z)
  PROVE  SameButGrid(x, z)
  BY DEF SameButGrid

LEMMA GridWorkLast ==
  ASSUME NEW steps, NEW b, IsGridWork(steps, b)
  PROVE  Last(steps) \in Initiative /\ SameButGrid(Last(steps), b)
  BY LastType DEF IsGridWork

LEMMA SaveStepsType ==
  ASSUME NEW b \in Initiative, NEW writes \in Seq(Seq(Line)), writes # << >>
  PROVE  /\ IsGridWork(SaveSteps(b, writes), b)
         /\ Last(SaveSteps(b, writes)) = Moved([b EXCEPT !.lines = Last(writes)])
<1> DEFINE calls == [k \in DOMAIN writes |-> [b EXCEPT !.lines = writes[k]]]
           last == Moved([b EXCEPT !.lines = Last(writes)])
           L == Seq(Line)
<1>1. DOMAIN writes = 1 .. Len(writes) /\ Len(writes) \in Nat /\ Last(writes) \in L
  BY LenProperties, LastType
<1>2. \A k \in 1 .. Len(writes) : writes[k] \in L
  <2> HIDE DEF L
  <2>1. writes \in Seq(L)
    BY DEF L
  <2>2. QED
    BY <2>1, ElementOfSeq
<1>3. /\ calls \in [1 .. Len(writes) -> Initiative]
      /\ \A k \in 1 .. Len(writes) : SameButGrid(calls[k], b)
  BY <1>1, <1>2, GridEdits
<1>4. last \in Initiative /\ SameButGrid(last, b)
  <2> DEFINE x == [b EXCEPT !.lines = Last(writes)]
  <2>1. x \in Initiative /\ SameButGrid(x, b)
    BY <1>1, GridEdits
  <2> HIDE DEF x
  <2>2. Moved(x) \in Initiative /\ SameButGrid(Moved(x), x)
    BY <2>1, MovedLinesType
  <2>3. Moved(x) \in Initiative /\ SameButGrid(Moved(x), b)
    BY <2>1, <2>2, SameButGridAgain
  <2>4. QED
    BY <2>3 DEF x
<1>5. SaveSteps(b, writes) = Append(calls, last)
  BY DEF SaveSteps
<1> HIDE DEF calls, last
<1>6. calls \in Seq(Initiative) /\ ToSet(calls) = {calls[k] : k \in 1 .. Len(writes)}
  <2> DEFINE n == Len(writes)
  <2>1. calls \in [1 .. n -> Initiative] /\ n \in Nat
    BY <1>1, <1>3
  <2> HIDE DEF n
  <2>2. calls \in Seq(Initiative) /\ ToSet(calls) = {calls[k] : k \in 1 .. n}
    BY <2>1, ListOf
  <2>3. QED
    BY <2>2 DEF n
<1>7. /\ Append(calls, last) \in Seq(Initiative) /\ Append(calls, last) # << >>
      /\ Last(Append(calls, last)) = last
      /\ ToSet(Append(calls, last)) = ToSet(calls) \cup {last}
  BY <1>4, <1>6, AppendProperties, LastAppend, ToSetAppend
<1>8. IsGridWork(Append(calls, last), b)
  BY <1>3, <1>4, <1>6, <1>7 DEF IsGridWork
<1>9. QED
  BY <1>5, <1>7, <1>8 DEF last

LEMMA GridStepsType ==
  ASSUME NEW b \in Initiative, NEW f, IsFile(f)
  PROVE  /\ IsGridWork(GridSteps(b, f), b)
         /\ Last(GridSteps(b, f)) = Moved([b EXCEPT !.lines = Written(b.lines, RowsFor(b, f))])
<1>1. b.lines \in Seq(Line) /\ RowsFor(b, f) \in Seq(Line)
  BY RowsForType DEF Initiative
<1> DEFINE writes == WriteSteps(b.lines, RowsFor(b, f))
<1>2. writes \in Seq(Seq(Line)) /\ writes # << >>
  BY <1>1, WrittenType
<1>3. GridSteps(b, f) = SaveSteps(b, writes) /\ Last(writes) = Written(b.lines, RowsFor(b, f))
  BY DEF GridSteps, Written
<1> HIDE DEF writes
<1>4. QED
  BY <1>2, <1>3, SaveStepsType

LEMMA Concatenated ==
  ASSUME NEW V, NEW s \in Seq(V), NEW t \in Seq(V), t # << >>
  PROVE  /\ s \o t \in Seq(V) /\ s \o t # << >> /\ Last(s \o t) = Last(t)
         /\ ToSet(s \o t) = ToSet(s) \cup ToSet(t)
<1>1. /\ s \o t \in Seq(V) /\ Len(s \o t) = Len(s) + Len(t)
      /\ \A i \in 1 .. Len(s) + Len(t) : (s \o t)[i] = IF i <= Len(s) THEN s[i] ELSE t[i - Len(s)]
  BY ConcatProperties
<1>2. Len(s) \in Nat /\ Len(t) \in Nat \ {0}
  BY LenProperties, EmptySeq
<1>3. Last(s \o t) = Last(t)
  <2>1. Len(s) + Len(t) \in 1 .. Len(s) + Len(t) /\ ~(Len(s) + Len(t) <= Len(s))
        /\ (Len(s) + Len(t)) - Len(s) = Len(t)
    BY <1>2
  <2>2. (s \o t)[Len(s) + Len(t)] = t[Len(t)]
    BY <1>1, <2>1
  <2>3. QED
    BY <1>1, <2>2 DEF Last
<1>4. s \o t # << >>
  <2>1. Len(s \o t) # 0
    BY <1>1, <1>2
  <2>2. QED
    BY <2>1
<1>5. QED
  BY <1>1, <1>3, <1>4, ToSetConcat

\* The grid of b without cost lines and benefits.
Emptied(b) == [[b EXCEPT !.lines = << >>] EXCEPT !.benefits = FALSE]

LEMMA EmptiedType ==
  ASSUME NEW b \in Initiative
  PROVE  /\ Emptied(b) \in Initiative /\ SameButGrid(Emptied(b), b)
         /\ Emptied(b).lines = << >> /\ Emptied(b).benefits = FALSE
<1>1. << >> \in Seq(Line)
  OBVIOUS
<1> DEFINE x == [b EXCEPT !.lines = << >>]
<1>2. x \in Initiative /\ SameButGrid(x, b) /\ x.lines = << >>
  BY <1>1, GridEdits
<1> HIDE DEF x
<1>3. /\ [x EXCEPT !.benefits = FALSE] \in Initiative
      /\ SameButGrid([x EXCEPT !.benefits = FALSE], x)
      /\ [x EXCEPT !.benefits = FALSE].benefits = FALSE
      /\ [x EXCEPT !.benefits = FALSE].lines = x.lines
  BY <1>1, <1>2, GridEdits
<1>4. Emptied(b) = [x EXCEPT !.benefits = FALSE]
  BY DEF Emptied, x
<1>5. QED
  BY <1>2, <1>3, <1>4, SameButGridAgain

LEMMA ReplaceStepsType ==
  ASSUME NEW b \in Initiative, NEW f, IsFile(f)
  PROVE  /\ IsGridWork(ReplaceSteps(b, f), b)
         /\ Last(ReplaceSteps(b, f)) = Last(GridSteps(Emptied(b), f))
<1> DEFINE noCosts == [b EXCEPT !.lines = << >>]
           first == <<b, noCosts>>
           rest == GridSteps(Emptied(b), f)
<1>1. noCosts \in Initiative /\ SameButGrid(noCosts, b) /\ SameButGrid(b, b)
  <2>1. << >> \in Seq(Line)
    OBVIOUS
  <2>2. noCosts \in Initiative /\ SameButGrid(noCosts, b)
    BY <2>1, GridEdits
  <2>3. QED
    BY <2>2 DEF SameButGrid
<1>2. ReplaceSteps(b, f) = first \o rest
  BY DEF ReplaceSteps, Emptied
<1> HIDE DEF noCosts
<1>3. first \in Seq(Initiative) /\ ToSet(first) = {b, noCosts}
  <2>1. first \in Seq(Initiative) /\ Len(first) = 2 /\ first[1] = b /\ first[2] = noCosts
    BY <1>1
  <2>2. ToSet(first) = {first[k] : k \in 1 .. 2}
    BY <2>1, ToSetType
  <2> HIDE DEF first
  <2>3. QED
    BY <2>1, <2>2
<1>4. /\ rest \in Seq(Initiative) /\ rest # << >>
      /\ \A s \in ToSet(rest) : SameButGrid(s, b)
  <2>1. Emptied(b) \in Initiative /\ SameButGrid(Emptied(b), b)
    BY EmptiedType
  <2>2. IsGridWork(rest, Emptied(b))
    BY <2>1, GridStepsType
  <2> HIDE DEF rest
  <2>3. QED
    BY <2>1, <2>2, SameButGridAgain DEF IsGridWork
<1> HIDE DEF first, rest
<1>5. /\ first \o rest \in Seq(Initiative) /\ first \o rest # << >>
      /\ Last(first \o rest) = Last(rest)
      /\ ToSet(first \o rest) = ToSet(first) \cup ToSet(rest)
  BY <1>3, <1>4, Concatenated
<1>6. QED
  BY <1>1, <1>2, <1>3, <1>4, <1>5 DEF IsGridWork, rest

\* The file has nothing for the grid.
NoFigures(f) == ParsedLines(f) = << >> /\ ~f.benefits

LEMMA FinancialStepsType ==
  ASSUME NEW b \in Initiative, NEW f, IsFile(f)
  PROVE  /\ IsGridWork(FinancialSteps(b, f), b)
         /\ NoFigures(f) => FinancialSteps(b, f) = <<b>> /\ Last(FinancialSteps(b, f)) = b
         /\ f.format = "alchemist" /\ ~NoFigures(f)
              => Last(FinancialSteps(b, f)) = Last(GridSteps(Emptied(b), f))
<1>1. CASE NoFigures(f)
  <2> DEFINE one == <<b>>
  <2>1. FinancialSteps(b, f) = one
    BY <1>1 DEF FinancialSteps, NoFigures
  <2>2. one \in Seq(Initiative) /\ Len(one) = 1 /\ one[1] = b /\ one # << >>
    OBVIOUS
  <2> HIDE DEF one
  <2>3. ToSet(one) = {b} /\ Last(one) = b
    BY <2>2, ToSetType DEF Last
  <2>4. SameButGrid(b, b)
    BY DEF SameButGrid
  <2>5. IsGridWork(one, b)
    BY <2>2, <2>3, <2>4 DEF IsGridWork
  <2>6. QED
    BY <1>1, <2>1, <2>3, <2>5 DEF one
<1>2. CASE ~NoFigures(f) /\ f.format = "alchemist"
  <2>1. FinancialSteps(b, f) = ReplaceSteps(b, f)
    BY <1>2 DEF FinancialSteps, NoFigures
  <2>2. QED
    BY <1>2, <2>1, ReplaceStepsType
<1>3. CASE ~NoFigures(f) /\ f.format # "alchemist"
  <2>1. FinancialSteps(b, f) = GridSteps(b, f)
    BY <1>3 DEF FinancialSteps, NoFigures
  <2>2. QED
    BY <1>3, <2>1, GridStepsType
<1>4. QED
  BY <1>1, <1>2, <1>3

LEMMA NewUpdatesType ==
  ASSUME NEW b \in Initiative, NEW f, f.updates \in Seq(BookUpdates)
  PROVE  /\ NewUpdates(b, f) \in Seq(BookUpdates)
         /\ ToSet(NewUpdates(b, f)) = {u \in ToSet(f.updates) : u.summary \notin Summaries(b)}
<1> DEFINE S == {u \in ToSet(f.updates) : u.summary \notin Summaries(b)}
<1>1. NewUpdates(b, f) = Among(f.updates, S)
  BY DEF NewUpdates, Summaries
<1>2. S \subseteq ToSet(f.updates)
  OBVIOUS
<1> HIDE DEF S
<1>3. Among(f.updates, S) \in Seq(BookUpdates) /\ ToSet(Among(f.updates, S)) = ToSet(f.updates) \cap S
  BY AmongType
<1>4. QED
  BY <1>1, <1>2, <1>3 DEF S

\* What the calls of a handler on the updates leave alone.
SameButUpdates(x, y) ==
  /\ x.owner = y.owner /\ x.window = y.window /\ x.locked = y.locked
  /\ x.lines = y.lines /\ x.benefits = y.benefits

LEMMA UpdateEdits ==
  ASSUME NEW x \in Initiative, NEW posts \in Seq(BookUpdates), NEW rag \in Colours
  PROVE  /\ [x EXCEPT !.updates = posts, !.headline = rag] \in Initiative
         /\ SameButUpdates([x EXCEPT !.updates = posts, !.headline = rag], x)
         /\ [x EXCEPT !.updates = posts, !.headline = rag].updates = posts
<1>1. [x EXCEPT !.updates = posts, !.headline = rag] \in Initiative
  BY DEF Initiative
<1>2. SameButUpdates([x EXCEPT !.updates = posts, !.headline = rag], x)
  BY DEF Initiative, SameButUpdates
<1>3. [x EXCEPT !.updates = posts, !.headline = rag].updates = posts
  BY DEF Initiative
<1>4. QED
  BY <1>1, <1>2, <1>3

\* After each call a part of the new updates is there, in the end all of them.
LEMMA UpdateStepsType ==
  ASSUME NEW b \in Initiative, NEW f, f.updates \in Seq(BookUpdates)
  PROVE  LET new   == NewUpdates(b, f)
             steps == UpdateSteps(b, f)
         IN  /\ steps \in Seq(Initiative) /\ steps # << >>
             /\ \A s \in ToSet(steps) :
                  /\ SameButUpdates(s, b)
                  /\ \E m \in 0 .. Len(new) : s.updates = b.updates \o SubSeq(new, 1, m)
             /\ SameButUpdates(Last(steps), b)
             /\ Last(steps).updates = b.updates \o new
<1> DEFINE new == NewUpdates(b, f)
           n == 2 * Len(new) + 1
           posts(j) == b.updates \o SubSeq(new, 1, j \div 2)
           rag(j) == IF j < 3 THEN b.headline ELSE new[(j - 1) \div 2].rag
           step(j) == [b EXCEPT !.updates = posts(j), !.headline = rag(j)]
           steps == UpdateSteps(b, f)
<1>1. new \in Seq(BookUpdates) /\ b.updates \in Seq(BookUpdates) /\ b.headline \in Colours
  BY NewUpdatesType DEF Initiative
<1>2. steps = [j \in 1 .. n |-> step(j)]
  BY DEF UpdateSteps
<1> HIDE DEF new, steps
<1>3. Len(new) \in Nat /\ n \in Nat \ {0}
  BY <1>1, LenProperties
<1>4. ASSUME NEW j \in 1 .. n
      PROVE  /\ j \div 2 \in 0 .. Len(new) /\ SubSeq(new, 1, j \div 2) \in Seq(BookUpdates)
             /\ posts(j) \in Seq(BookUpdates) /\ rag(j) \in Colours
  <2>1. j \div 2 \in 0 .. Len(new)
    BY <1>3
  <2>2. SubSeq(new, 1, j \div 2) \in Seq(BookUpdates)
    <3> DEFINE m == j \div 2
    <3>1. m \in 0 .. Len(new)
      BY <2>1
    <3> HIDE DEF m
    <3>2. \A i \in 1 .. m : new[i] \in BookUpdates
      BY <1>1, <1>3, <3>1, ElementOfSeq
    <3>3. SubSeq(new, 1, m) \in Seq(BookUpdates)
      BY <1>3, <3>1, <3>2, SubSeqProperties
    <3>4. QED
      BY <3>3 DEF m
  <2>3. posts(j) \in Seq(BookUpdates)
    BY <1>1, <2>2, ConcatProperties
  <2>4. rag(j) \in Colours
    <3>1. CASE j < 3
      BY <1>1, <3>1
    <3>2. CASE ~(j < 3)
      <4> DEFINE i == (j - 1) \div 2
      <4>1. i \in 1 .. Len(new)
        BY <1>3, <3>2
      <4>2. rag(j) = new[i].rag
        BY <3>2
      <4> HIDE DEF i
      <4>3. new[i] \in BookUpdates
        BY <1>1, <4>1, ElementOfSeq
      <4>4. new[i].rag \in Colours
        BY <4>3, WorkbookAssumption
      <4>5. QED
        BY <4>2, <4>4
    <3>3. QED
      BY <3>1, <3>2
  <2>5. QED
    BY <2>1, <2>2, <2>3, <2>4
<1>5. ASSUME NEW j \in 1 .. n
      PROVE  /\ step(j) \in Initiative /\ SameButUpdates(step(j), b)
             /\ step(j).updates = posts(j)
  <2>1. posts(j) \in Seq(BookUpdates) /\ rag(j) \in Colours
    BY <1>4
  <2> HIDE DEF posts, rag
  <2>2. QED
    BY <2>1, UpdateEdits
<1>6. steps \in [1 .. n -> Initiative]
  <2> HIDE DEF step, n
  <2>1. QED
    BY <1>2, <1>5
<1> HIDE DEF n
<1>7. /\ steps \in Seq(Initiative) /\ Len(steps) = n
      /\ ToSet(steps) = {steps[j] : j \in 1 .. n}
  BY <1>3, <1>6, ListOf
<1>8. steps # << >>
  <2>1. Len(steps) # 0
    BY <1>3, <1>7
  <2>2. QED
    BY <2>1
<1>9. ASSUME NEW s \in ToSet(steps)
      PROVE  /\ SameButUpdates(s, b)
             /\ \E m \in 0 .. Len(new) : s.updates = b.updates \o SubSeq(new, 1, m)
  <2>1. PICK j \in 1 .. n : s = steps[j]
    BY <1>7
  <2>2. s = step(j)
    BY <1>2, <2>1
  <2>3. SameButUpdates(s, b) /\ s.updates = posts(j)
    BY <1>5, <2>2
  <2>4. j \div 2 \in 0 .. Len(new)
    BY <1>4
  <2>5. QED
    BY <2>3, <2>4
<1>10. SameButUpdates(Last(steps), b) /\ Last(steps).updates = b.updates \o new
  <2>1. n \in 1 .. n /\ n \div 2 = Len(new)
    BY <1>3 DEF n
  <2>2. Last(steps) = step(n)
    BY <1>2, <1>7, <2>1 DEF Last
  <2>3. SameButUpdates(Last(steps), b) /\ Last(steps).updates = posts(n)
    BY <1>5, <2>1, <2>2
  <2>4. SubSeq(new, 1, Len(new)) = new
    BY <1>1, SubSeqFull
  <2>5. QED
    BY <2>1, <2>3, <2>4
<1>11. QED
  BY <1>7, <1>8, <1>9, <1>10 DEF new, steps

\* A file of an initiative: an exported one or a form.
IsImportable(f) == IsExported(f) \/ f \in Filled

LEMMA ImportableFacts ==
  ASSUME NEW f, IsImportable(f)
  PROVE  /\ IsFile(f) /\ f.updates \in Seq(BookUpdates) /\ f.window \in PlannedPeriods
         /\ f.rag \in Colours \cup {""} /\ f.items \in Items(BOOLEAN)
<1>1. CASE IsExported(f)
  <2>1. IsFile(f) /\ f.updates \in Seq(BookUpdates)
    BY <1>1 DEF IsExported, Exported, IsFile
  <2>2. f.window \in PlannedPeriods /\ f.rag = "" /\ f.items \in Items(BOOLEAN)
    BY <1>1 DEF IsExported, Exported
  <2>3. QED
    BY <2>1, <2>2
<1>2. CASE f \in Filled
  <2>1. f.updates \in Seq(BookUpdates)
    <3>1. f.updates \in {<< >>}
      BY <1>2 DEF Filled
    <3>2. << >> \in Seq(BookUpdates)
      OBVIOUS
    <3>3. QED
      BY <3>1, <3>2
  <2>2. f.items \in Items(BOOLEAN)
    BY <1>2 DEF Filled, Items
  <2>3. f.window \in PlannedPeriods /\ f.rag \in Colours \cup {""}
    BY <1>2 DEF Filled
  <2>4. QED
    BY <1>2, <2>1, <2>2, <2>3 DEF IsFile
<1>3. QED
  BY <1>1, <1>2 DEF IsImportable

LEMMA OverviewType ==
  ASSUME NEW b \in Initiative, NEW f, IsImportable(f), NEW user \in Authors
  PROVE  /\ Overview(b, f, user) \in Initiative
         /\ Overview(b, f, user).owner = IF f.format = "alchemist" THEN user ELSE b.owner
         /\ Overview(b, f, user).window = IF f.window = NoPeriod THEN b.window ELSE f.window
         /\ Overview(b, f, user).locked = b.locked
         /\ Overview(b, f, user).lines = b.lines
         /\ Overview(b, f, user).benefits = b.benefits
         /\ Overview(b, f, user).updates = b.updates
<1> DEFINE owner == IF f.format = "alchemist" THEN user ELSE b.owner
           period == IF f.window = NoPeriod THEN b.window ELSE f.window
           headline == IF f.rag = "" THEN b.headline ELSE f.rag
           o == [b EXCEPT !.owner = owner, !.units = FALSE, !.window = period,
                          !.headline = headline]
<1>1. owner \in Authors \cup {""} /\ period \in PlannedPeriods /\ headline \in Colours
  BY ImportableFacts DEF Initiative
<1>2. Overview(b, f, user) = o
  BY DEF Overview
<1> HIDE DEF owner, period, headline
<1>3. o \in Initiative
  BY <1>1 DEF Initiative
<1>4. o.owner = owner /\ o.window = period /\ o.locked = b.locked
  BY DEF Initiative
<1>5. o.lines = b.lines /\ o.updates = b.updates /\ o.benefits = b.benefits
  BY DEF Initiative
<1> HIDE DEF o
<1>6. QED
  BY <1>2, <1>3, <1>4, <1>5 DEF owner, period

\* The states of an import: before it, after the overview and each call on the
\* grid, and after each call on the updates.
LEMMA ImportStepsType ==
  ASSUME NEW b \in Initiative, NEW f, IsImportable(f), NEW user \in Authors
  PROVE  LET o    == Overview(b, f, user)
             costs == FinancialSteps(o, f)
             done == Last(costs)
         IN  /\ ImportSteps(b, f, user) \in Seq(Initiative) /\ ImportSteps(b, f, user) # << >>
             /\ ToSet(ImportSteps(b, f, user)) = {b} \cup ToSet(costs) \cup ToSet(UpdateSteps(done, f))
             /\ Last(ImportSteps(b, f, user)) = Last(UpdateSteps(done, f))
             /\ o \in Initiative /\ done \in Initiative /\ SameButGrid(done, o)
<1> DEFINE o == Overview(b, f, user)
           costs == FinancialSteps(o, f)
           first == <<b>>
           done == Last(costs)
           updates == UpdateSteps(done, f)
<1>1. o \in Initiative /\ IsFile(f) /\ f.updates \in Seq(BookUpdates)
  BY OverviewType, ImportableFacts
<1> HIDE DEF o
<1>2. IsGridWork(costs, o)
  BY <1>1, FinancialStepsType
<1> HIDE DEF costs
<1>3. done \in Initiative /\ SameButGrid(done, o)
  BY <1>2, GridWorkLast
<1>4. first \in Seq(Initiative) /\ ToSet(first) = {b}
  <2>1. first \in Seq(Initiative) /\ Len(first) = 1 /\ first[1] = b
    OBVIOUS
  <2> HIDE DEF first
  <2>2. QED
    BY <2>1, ToSetType
<1>5. ImportSteps(b, f, user) = (first \o costs) \o UpdateSteps(Last(first \o costs), f)
  BY DEF ImportSteps, WithUpdates, o, costs
<1> HIDE DEF first
<1>6. /\ first \o costs \in Seq(Initiative) /\ Last(first \o costs) = done
      /\ ToSet(first \o costs) = {b} \cup ToSet(costs)
  BY <1>2, <1>4, Concatenated DEF IsGridWork
<1> HIDE DEF done
<1>7. updates \in Seq(Initiative) /\ updates # << >>
  BY <1>1, <1>3, UpdateStepsType
<1> DEFINE all == first \o costs
<1>8. all \in Seq(Initiative) /\ ImportSteps(b, f, user) = all \o updates
  BY <1>5, <1>6
<1> HIDE DEF updates, all
<1>9. /\ all \o updates \in Seq(Initiative) /\ all \o updates # << >>
      /\ Last(all \o updates) = Last(updates)
      /\ ToSet(all \o updates) = ToSet(all) \cup ToSet(updates)
  BY <1>7, <1>8, Concatenated
<1>10. ToSet(all) = {b} \cup ToSet(costs)
  BY <1>6 DEF all
<1>11. QED
  BY <1>1, <1>3, <1>8, <1>9, <1>10 DEF updates, done, costs, o

-------------------------------------------------------------------------------
(* An import that stopped is run again *)

\* If the first m rows are not kept, at least m are missing.
LEMMA AmongLater ==
  ASSUME NEW V, NEW s \in Seq(V), NEW S, NEW m \in 0 .. Len(s), \A k \in 1 .. m : s[k] \notin S
  PROVE  Len(Among(s, S)) + m <= Len(s)
<1> DEFINE Missing(u, i) == (\A k \in 1 .. i : u[k] \notin S) => Len(Among(u, S)) + i <= Len(u)
           P == {u \in Seq(V) : \A i \in 0 .. Len(u) : Missing(u, i)}
<1>1. << >> \in P
  <2>1. << >> \in Seq(V) /\ Len(<< >>) = 0
    OBVIOUS
  <2>2. Len(Among(<< >>, S)) = 0
    BY <2>1, AmongEmpty, Zenon
  <2>3. \A i \in 0 .. Len(<< >>) : i = 0
    BY <2>1
  <2>4. QED
    BY <2>1, <2>2, <2>3
<1>2. ASSUME NEW u \in Seq(V), NEW e \in V, u \in P PROVE Append(u, e) \in P
  <2> DEFINE t == Append(u, e)
  <2>1. /\ t \in Seq(V) /\ Len(t) = Len(u) + 1 /\ Len(u) \in Nat
        /\ t[Len(u) + 1] = e /\ \A k \in 1 .. Len(u) : t[k] = u[k]
    BY AppendProperties, LenProperties
  <2>2. Among(u, S) \in Seq(V) /\ Len(Among(u, S)) \in Nat
    BY AmongType, LenProperties
  <2>3. Len(Among(t, S)) = Len(Among(u, S)) + IF e \in S THEN 1 ELSE 0
    BY <2>2, AmongAppend, AppendProperties
  <2> HIDE DEF t
  <2>4. ASSUME NEW i \in 0 .. Len(t), \A k \in 1 .. i : t[k] \notin S
        PROVE  Len(Among(t, S)) + i <= Len(t)
    <3>1. CASE i <= Len(u)
      <4>1. i \in 0 .. Len(u) /\ \A k \in 1 .. i : u[k] \notin S
        BY <2>1, <2>4, <3>1
      <4>2. Len(Among(u, S)) + i <= Len(u)
        BY <1>2, <4>1
      <4>3. QED
        BY <2>1, <2>2, <2>3, <4>1, <4>2
    <3>2. CASE i = Len(u) + 1
      <4>1. e \notin S
        BY <2>1, <2>4, <3>2
      <4>2. \A k \in 1 .. Len(u) : u[k] \notin S
        BY <2>1, <2>4, <3>2
      <4>3. Len(u) \in 0 .. Len(u)
        BY <2>1
      <4>4. Len(Among(u, S)) + Len(u) <= Len(u)
        BY <1>2, <4>2, <4>3
      <4>5. QED
        BY <2>1, <2>2, <2>3, <3>2, <4>1, <4>4
    <3>3. QED
      BY <2>1, <3>1, <3>2
  <2>5. QED
    BY <2>1, <2>4 DEF t
<1> HIDE DEF P
<1>3. s \in P
  BY <1>1, <1>2, SequenceInduction
<1>4. QED
  BY <1>3 DEF P

SummariesOf(updates) == {u.summary : u \in ToSet(updates)}

\* Who had the first m of the new updates gets the others, and none of them twice.
LEMMA UpdatesResume ==
  ASSUME NEW a \in Initiative, NEW b \in Initiative, NEW f, f.updates \in Seq(BookUpdates),
         NEW m \in 0 .. Len(NewUpdates(a, f)),
         b.updates = a.updates \o SubSeq(NewUpdates(a, f), 1, m)
  PROVE  /\ SummariesOf(b.updates \o NewUpdates(b, f)) = SummariesOf(a.updates \o NewUpdates(a, f))
         /\ Len(b.updates \o NewUpdates(b, f)) <= Len(a.updates \o NewUpdates(a, f))
<1> DEFINE new == NewUpdates(a, f)
           had == SubSeq(new, 1, m)
           rest == NewUpdates(b, f)
           old == a.updates
           B == BookUpdates
           T == {u \in ToSet(f.updates) : u.summary \notin Summaries(b)}
           T0 == {u \in ToSet(f.updates) : u.summary \notin Summaries(a)}
<1>1. /\ old \in Seq(B) /\ new \in Seq(B) /\ rest \in Seq(B)
      /\ ToSet(new) = T0 /\ ToSet(rest) = T
  BY NewUpdatesType DEF Initiative
<1>2. new = Among(f.updates, T0) /\ rest = Among(f.updates, T)
  BY DEF NewUpdates, Summaries
<1>3. Len(new) \in Nat /\ m \in Nat /\ m <= Len(new) /\ \A k \in 1 .. m : k \in 1 .. Len(new)
  BY <1>1, LenProperties
<1>4. \A k \in 1 .. m : new[k] \in B
  BY <1>1, <1>3, ElementOfSeq
<1>5. /\ had \in Seq(B) /\ Len(had) = m /\ \A k \in 1 .. m : had[k] = new[k]
  <2> HIDE DEF new, B
  <2>1. /\ had \in Seq(B) /\ Len(had) = IF 1 <= m THEN m - 1 + 1 ELSE 0
        /\ \A k \in 1 .. m - 1 + 1 : had[k] = new[1 + k - 1]
    BY <1>3, <1>4, SubSeqProperties
  <2>2. m - 1 + 1 = m /\ \A k \in 1 .. m : 1 + k - 1 = k
    BY <1>3
  <2> HIDE DEF had
  <2>3. \A k \in 1 .. m : had[k] = new[k]
    BY <1>3, <2>1, <2>2
  <2>4. Len(had) = m
    BY <1>3, <2>1
  <2>5. QED
    BY <2>1, <2>3, <2>4
<1>6. b.updates = old \o had
  OBVIOUS
<1> HIDE DEF new, had, rest, old, B
<1>7. ToSet(had) = {had[k] : k \in 1 .. m} /\ ToSet(had) \subseteq ToSet(new)
  <2>1. ToSet(had) = {had[k] : k \in 1 .. m}
    BY <1>5, ToSetType
  <2>2. \A k \in 1 .. m : new[k] \in ToSet(new)
    BY <1>1, <1>3, ToSetType
  <2>3. QED
    BY <1>5, <2>1, <2>2
<1>8. ToSet(b.updates) = ToSet(old) \cup ToSet(had) /\ b.updates \in Seq(B)
      /\ Len(b.updates) = Len(old) + m
  <2>1. /\ old \o had \in Seq(B) /\ Len(old \o had) = Len(old) + Len(had)
        /\ ToSet(old \o had) = ToSet(old) \cup ToSet(had)
    <3>1. old \in Seq(B) /\ had \in Seq(B)
      BY <1>1, <1>5
    <3>2. QED
      BY <3>1, ToSetConcat
  <2> DEFINE bu == old \o had
  <2> HIDE DEF bu
  <2>2. QED
    BY <1>5, <1>6, <2>1 DEF bu
<1>9. Summaries(b) = Summaries(a) \cup SummariesOf(had)
  <2>1. Summaries(a) = SummariesOf(old)
    BY DEF Summaries, SummariesOf, old
  <2>2. Summaries(b) = SummariesOf(b.updates)
    BY DEF Summaries, SummariesOf
  <2>3. QED
    BY <1>8, <2>1, <2>2 DEF SummariesOf
<1>10. T \subseteq T0
  BY <1>9
<1>11. \A k \in 1 .. m : new[k] \notin T
  <2>1. SUFFICES ASSUME NEW k \in 1 .. m PROVE new[k].summary \in Summaries(b)
    OBVIOUS
  <2>2. new[k] \in ToSet(had)
    BY <1>5, <1>7
  <2>3. QED
    BY <1>9, <2>2 DEF SummariesOf
<1>12. rest = Among(new, T)
  <2>1. Among(Among(f.updates, T0), T) = Among(f.updates, T0 \cap T)
    <3> HIDE DEF T, T0
    <3>1. QED
      BY AmongTwice
  <2>2. T0 \cap T = T
    BY <1>10
  <2> HIDE DEF T, T0
  <2>3. QED
    BY <1>2, <2>1, <2>2
<1>13. Len(rest) + m <= Len(new)
  <2> HIDE DEF T
  <2>1. m \in 0 .. Len(new)
    BY <1>3
  <2>2. QED
    BY <1>1, <1>11, <1>12, <2>1, AmongLater
<1>14. /\ Len(b.updates \o rest) = Len(old) + m + Len(rest)
       /\ ToSet(b.updates \o rest) = ToSet(b.updates) \cup ToSet(rest)
  <2> DEFINE bu == b.updates
  <2>1. bu \in Seq(B) /\ rest \in Seq(B) /\ Len(bu) = Len(old) + m
    BY <1>1, <1>8
  <2> HIDE DEF bu
  <2>2. /\ Len(bu \o rest) = Len(bu) + Len(rest)
        /\ ToSet(bu \o rest) = ToSet(bu) \cup ToSet(rest)
    BY <2>1, ToSetConcat
  <2>3. QED
    BY <2>1, <2>2 DEF bu
<1>15. /\ Len(old \o new) = Len(old) + Len(new)
       /\ ToSet(old \o new) = ToSet(old) \cup ToSet(new)
  BY <1>1, ToSetConcat
<1>16. Len(b.updates \o rest) <= Len(old \o new)
  <2>1. Len(old) \in Nat /\ Len(rest) \in Nat
    BY <1>1, LenProperties
  <2> DEFINE retried == Len(b.updates \o rest)
             whole == Len(old \o new)
  <2>2. retried = Len(old) + m + Len(rest) /\ whole = Len(old) + Len(new)
    BY <1>14, <1>15
  <2> HIDE DEF retried, whole
  <2>3. retried <= whole
    BY <1>3, <1>13, <2>1, <2>2
  <2>4. QED
    BY <2>3 DEF retried, whole
<1>17. SummariesOf(b.updates \o rest) = SummariesOf(old \o new)
  <2>1. ToSet(b.updates \o rest) \subseteq ToSet(old \o new)
    BY <1>1, <1>7, <1>8, <1>10, <1>14, <1>15
  <2>2. ASSUME NEW u \in ToSet(old \o new)
        PROVE  \E v \in ToSet(b.updates \o rest) : v.summary = u.summary
    <3>1. CASE u \in ToSet(old)
      BY <1>8, <1>14, <3>1
    <3>2. CASE u \in T /\ u \in ToSet(new)
      BY <1>1, <1>14, <3>2
    <3>3. CASE u \notin T /\ u \in ToSet(new)
      <4>1. u.summary \in Summaries(b)
        BY <1>1, <3>3
      <4>2. PICK v \in ToSet(b.updates) : v.summary = u.summary
        BY <4>1 DEF Summaries
      <4>3. QED
        BY <1>14, <4>2
    <3>4. QED
      BY <1>15, <3>1, <3>2, <3>3
  <2>3. QED
    BY <2>1, <2>2 DEF SummariesOf
<1>18. QED
  BY <1>16, <1>17 DEF new, rest, old

\* The lines that a file leaves depend on the period and the lock alone.
LEMMA GridOutcome ==
  ASSUME NEW y \in Initiative, NEW z \in Initiative, y.window = z.window, y.locked = z.locked,
         NEW f, IsExported(f), ~NoFigures(f)
  PROVE  /\ Last(FinancialSteps(y, f)).lines = Last(FinancialSteps(z, f)).lines
         /\ Last(FinancialSteps(y, f)).benefits = Last(FinancialSteps(z, f)).benefits
<1> DEFINE ey == Emptied(y)
           ez == Emptied(z)
           ry == Written(<< >>, RowsFor(ey, f))
           rz == Written(<< >>, RowsFor(ez, f))
           my == [ey EXCEPT !.lines = ry]
           mz == [ez EXCEPT !.lines = rz]
<1>1. IsFile(f) /\ f.format = "alchemist"
  BY DEF IsFile, IsExported
<1>2. /\ ey \in Initiative /\ SameButGrid(ey, y) /\ ey.lines = << >> /\ ey.benefits = FALSE
      /\ ez \in Initiative /\ SameButGrid(ez, z) /\ ez.lines = << >> /\ ez.benefits = FALSE
  BY EmptiedType
<1>3. Last(FinancialSteps(y, f)) = Last(GridSteps(ey, f))
      /\ Last(FinancialSteps(z, f)) = Last(GridSteps(ez, f))
  BY <1>1, FinancialStepsType
<1> HIDE DEF ey, ez
<1>4. Last(GridSteps(ey, f)) = Moved(my) /\ Last(GridSteps(ez, f)) = Moved(mz)
  BY <1>1, <1>2, GridStepsType
<1>5. ey.window = ez.window /\ ey.locked = ez.locked
  BY <1>2 DEF SameButGrid
<1>6. RowsFor(ey, f) = RowsFor(ez, f)
  BY <1>2, <1>5 DEF RowsFor, Allowed
<1>7. ry = rz /\ ry \in Seq(Line)
  <2>1. << >> \in Seq(Line)
    OBVIOUS
  <2>2. RowsFor(ey, f) \in Seq(Line)
    BY <1>1, <1>2, RowsForType
  <2>3. ry \in Seq(Line)
    BY <2>1, <2>2, WrittenType
  <2>4. QED
    BY <1>6, <2>3
<1> HIDE DEF ry, rz
<1>8. /\ my \in Initiative /\ SameButGrid(my, ey) /\ my.lines = ry /\ my.benefits = ey.benefits
      /\ mz \in Initiative /\ SameButGrid(mz, ez) /\ mz.lines = rz /\ mz.benefits = ez.benefits
  <2>1. ry \in Seq(Line) /\ rz \in Seq(Line)
    BY <1>7
  <2>2. my \in Initiative /\ SameButGrid(my, ey) /\ my.lines = ry /\ my.benefits = ey.benefits
    BY <1>2, <2>1, LinesEdit
  <2>3. mz \in Initiative /\ SameButGrid(mz, ez) /\ mz.lines = rz /\ mz.benefits = ez.benefits
    BY <1>2, <2>1, LinesEdit
  <2>4. QED
    BY <2>2, <2>3
<1> HIDE DEF my, mz
<1>9. my.lines = mz.lines /\ my.window = mz.window /\ my.locked = mz.locked
      /\ my.benefits = mz.benefits
  BY <1>2, <1>5, <1>7, <1>8 DEF SameButGrid
<1>10. IsSettled(my) <=> IsSettled(mz)
  BY <1>9 DEF IsSettled
<1>11. Moved(my).lines = Moved(mz).lines /\ Moved(my).benefits = Moved(mz).benefits
  <2>1. CASE IsSettled(my)
    BY <1>8, <1>9, <1>10, <2>1, MovedLinesType
  <2>2. CASE ~IsSettled(my)
    <3>1. Moved(my).lines = Rewritten(Placed(my.window, my.lines)) /\ Moved(my).benefits = FALSE
      BY <1>8, <2>2, MovedLinesType
    <3>2. Moved(mz).lines = Rewritten(Placed(mz.window, mz.lines)) /\ Moved(mz).benefits = FALSE
      BY <1>8, <1>10, <2>2, MovedLinesType
    <3>3. QED
      BY <1>9, <3>1, <3>2
  <2>3. QED
    BY <2>1, <2>2
<1>12. QED
  BY <1>3, <1>4, <1>11

\* How far an import of f into b may have come when it stopped at s.
Reached(s, b, o, f) ==
  /\ s \in Initiative /\ s.locked = b.locked /\ s.window \in {b.window, o.window}
  /\ NoFigures(f) => s.lines = b.lines /\ s.benefits = b.benefits
  /\ \E m \in 0 .. Len(NewUpdates(b, f)) : s.updates = b.updates \o SubSeq(NewUpdates(b, f), 1, m)

LEMMA StoppedReached ==
  ASSUME NEW b \in Initiative, NEW f, IsExported(f), NEW user \in Authors,
         NEW s \in ToSet(ImportSteps(b, f, user))
  PROVE  Reached(s, b, Overview(b, f, user), f)
<1> DEFINE o == Overview(b, f, user)
           costs == FinancialSteps(o, f)
           done == Last(costs)
           new == NewUpdates(b, f)
<1>1. IsImportable(f) /\ IsFile(f) /\ f.updates \in Seq(BookUpdates)
  BY ImportableFacts DEF IsImportable
<1>2. /\ o \in Initiative /\ o.locked = b.locked /\ o.lines = b.lines
      /\ o.benefits = b.benefits /\ o.updates = b.updates
  BY <1>1, OverviewType
<1>3. /\ s \in {b} \cup ToSet(costs) \cup ToSet(UpdateSteps(done, f))
      /\ done \in Initiative /\ SameButGrid(done, o)
  BY <1>1, ImportStepsType
<1>4. new \in Seq(BookUpdates) /\ Len(new) \in Nat /\ b.updates \in Seq(BookUpdates)
  BY <1>1, NewUpdatesType, LenProperties DEF Initiative
<1>5. IsGridWork(costs, o) /\ (NoFigures(f) => costs = <<o>> /\ done = o)
  BY <1>1, <1>2, FinancialStepsType
<1>6. 0 \in 0 .. Len(new) /\ b.updates = b.updates \o SubSeq(new, 1, 0)
  <2>1. SubSeq(new, 1, 0) = << >>
    BY SubSeqEmpty
  <2>2. QED
    BY <1>4, <2>1, ConcatEmptySeq
<1> HIDE DEF o
<1>7. CASE s = b
  BY <1>6, <1>7 DEF Reached, o
<1>8. CASE s \in ToSet(costs)
  <2>1. s \in Initiative /\ SameButGrid(s, o)
    BY <1>5, <1>8, ToSetType DEF IsGridWork
  <2>2. s.updates = b.updates /\ s.locked = b.locked /\ s.window = o.window
    BY <1>2, <2>1 DEF SameButGrid
  <2>3. NoFigures(f) => s = o
    <3>1. SUFFICES ASSUME NoFigures(f) PROVE s = o
      OBVIOUS
    <3>2. costs = <<o>>
      BY <1>5, <3>1
    <3>3. ToSet(<<o>>) = {o}
      <4> DEFINE one == <<o>>
      <4>1. one \in Seq(Initiative) /\ Len(one) = 1 /\ one[1] = o
        BY <1>2
      <4> HIDE DEF one
      <4>2. ToSet(one) = {o}
        BY <4>1, ToSetType
      <4>3. QED
        BY <4>2 DEF one
    <3>4. QED
      BY <1>8, <3>2, <3>3
  <2>4. QED
    BY <1>2, <1>6, <2>1, <2>2, <2>3 DEF Reached, o
<1>9. CASE s \in ToSet(UpdateSteps(done, f))
  <2>1. NewUpdates(done, f) = new
    BY <1>2, <1>3 DEF NewUpdates, SameButGrid
  <2>2. /\ UpdateSteps(done, f) \in Seq(Initiative) /\ SameButUpdates(s, done)
        /\ \E m \in 0 .. Len(new) : s.updates = done.updates \o SubSeq(new, 1, m)
    <3> DEFINE fresh == NewUpdates(done, f)
    <3>1. /\ UpdateSteps(done, f) \in Seq(Initiative) /\ SameButUpdates(s, done)
          /\ \E m \in 0 .. Len(fresh) : s.updates = done.updates \o SubSeq(fresh, 1, m)
      <4> HIDE DEF done
      <4>1. QED
        BY <1>1, <1>3, <1>9, UpdateStepsType
    <3>2. fresh = new
      BY <2>1
    <3> HIDE DEF fresh, new, done
    <3>3. QED
      BY <3>1, <3>2
  <2>3. s \in Initiative
    BY <1>9, <2>2, ToSetType
  <2>4. done.updates = b.updates /\ s.locked = b.locked /\ s.window = o.window
    BY <1>2, <1>3, <2>2 DEF SameButGrid, SameButUpdates
  <2>5. NoFigures(f) => s.lines = b.lines /\ s.benefits = b.benefits
    BY <1>2, <1>5, <2>2 DEF SameButUpdates
  <2>6. QED
    BY <2>2, <2>3, <2>4, <2>5 DEF Reached, o
<1>10. QED
  BY <1>3, <1>7, <1>8, <1>9

\* What an import leaves.
LEMMA ImportLeaves ==
  ASSUME NEW b \in Initiative, NEW f, IsExported(f), NEW user \in Authors
  PROVE  LET o    == Overview(b, f, user)
             last == Last(ImportSteps(b, f, user))
         IN  /\ last.owner = user /\ last.window = o.window
             /\ last.updates = b.updates \o NewUpdates(b, f)
             /\ last.lines = Last(FinancialSteps(o, f)).lines
             /\ last.benefits = Last(FinancialSteps(o, f)).benefits
             /\ NoFigures(f) => last.lines = b.lines /\ last.benefits = b.benefits
<1> DEFINE o == Overview(b, f, user)
           costs == FinancialSteps(o, f)
           done == Last(costs)
           last == Last(ImportSteps(b, f, user))
<1>1. IsImportable(f) /\ IsFile(f) /\ f.updates \in Seq(BookUpdates) /\ f.format = "alchemist"
  BY ImportableFacts DEF IsImportable, IsExported
<1>2. /\ o \in Initiative /\ o.owner = user /\ o.lines = b.lines
      /\ o.benefits = b.benefits /\ o.updates = b.updates
  BY <1>1, OverviewType
<1>3. last = Last(UpdateSteps(done, f)) /\ done \in Initiative /\ SameButGrid(done, o)
  BY <1>1, ImportStepsType
<1>4. NoFigures(f) => done = o
  BY <1>1, <1>2, FinancialStepsType
<1>5. /\ SameButUpdates(Last(UpdateSteps(done, f)), done)
      /\ Last(UpdateSteps(done, f)).updates = done.updates \o NewUpdates(done, f)
  BY <1>1, <1>3, UpdateStepsType
<1>6. NewUpdates(done, f) = NewUpdates(b, f) /\ done.updates = b.updates
  BY <1>2, <1>3 DEF NewUpdates, SameButGrid
<1> HIDE DEF o, done, last
<1>7. last.owner = user /\ last.window = o.window
  BY <1>2, <1>3, <1>5 DEF SameButUpdates, SameButGrid
<1>8. last.updates = b.updates \o NewUpdates(b, f)
  BY <1>3, <1>5, <1>6
<1>9. last.lines = done.lines /\ last.benefits = done.benefits
  BY <1>3, <1>5 DEF SameButUpdates
<1>10. NoFigures(f) => last.lines = b.lines /\ last.benefits = b.benefits
  BY <1>2, <1>4, <1>9
<1>11. QED
  BY <1>7, <1>8, <1>9, <1>10 DEF o, done, last

LEMMA RetryEqualsWhole ==
  ASSUME NEW b \in Initiative, NEW f, IsExported(f), NEW user \in Authors,
         NEW s \in ToSet(ImportSteps(b, f, user))
  PROVE  EqualsWhole(Last(ImportSteps(s, f, user)), Last(ImportSteps(b, f, user)))
<1> DEFINE o == Overview(b, f, user)
           again == Overview(s, f, user)
           whole == Last(ImportSteps(b, f, user))
           retried == Last(ImportSteps(s, f, user))
<1>1. IsImportable(f) /\ f.updates \in Seq(BookUpdates)
  BY ImportableFacts DEF IsImportable
<1>2. Reached(s, b, o, f)
  BY StoppedReached
<1>3. /\ s \in Initiative /\ s.locked = b.locked /\ s.window \in {b.window, o.window}
      /\ NoFigures(f) => s.lines = b.lines /\ s.benefits = b.benefits
  BY <1>2 DEF Reached
<1>4. o \in Initiative /\ o.window = (IF f.window = NoPeriod THEN b.window ELSE f.window)
      /\ o.locked = b.locked
  BY <1>1, OverviewType
<1>5. /\ again \in Initiative
      /\ again.window = (IF f.window = NoPeriod THEN s.window ELSE f.window)
      /\ again.locked = s.locked
  BY <1>1, <1>3, OverviewType
<1>6. again.window = o.window /\ again.locked = o.locked
  BY <1>3, <1>4, <1>5
<1>7. /\ whole.owner = user /\ whole.window = o.window
      /\ whole.updates = b.updates \o NewUpdates(b, f)
      /\ whole.lines = Last(FinancialSteps(o, f)).lines
      /\ whole.benefits = Last(FinancialSteps(o, f)).benefits
      /\ NoFigures(f) => whole.lines = b.lines /\ whole.benefits = b.benefits
  BY ImportLeaves
<1>8. /\ retried.owner = user /\ retried.window = again.window
      /\ retried.updates = s.updates \o NewUpdates(s, f)
      /\ retried.lines = Last(FinancialSteps(again, f)).lines
      /\ retried.benefits = Last(FinancialSteps(again, f)).benefits
      /\ NoFigures(f) => retried.lines = s.lines /\ retried.benefits = s.benefits
  BY <1>3, ImportLeaves
<1> HIDE DEF o, again, whole, retried
<1>9. retried.lines = whole.lines /\ retried.benefits = whole.benefits
  <2>1. CASE NoFigures(f)
    BY <1>3, <1>7, <1>8, <2>1
  <2>2. CASE ~NoFigures(f)
    <3>1. /\ Last(FinancialSteps(again, f)).lines = Last(FinancialSteps(o, f)).lines
          /\ Last(FinancialSteps(again, f)).benefits = Last(FinancialSteps(o, f)).benefits
      BY <1>4, <1>5, <1>6, <2>2, GridOutcome
    <3>2. QED
      BY <1>7, <1>8, <3>1
  <2>3. QED
    BY <2>1, <2>2
<1>10. PICK m \in 0 .. Len(NewUpdates(b, f)) :
         s.updates = b.updates \o SubSeq(NewUpdates(b, f), 1, m)
  BY <1>2 DEF Reached
<1>11. /\ SummariesOf(s.updates \o NewUpdates(s, f)) = SummariesOf(b.updates \o NewUpdates(b, f))
       /\ Len(s.updates \o NewUpdates(s, f)) <= Len(b.updates \o NewUpdates(b, f))
  BY <1>1, <1>3, <1>10, UpdatesResume
<1>12. Summaries(retried) = Summaries(whole) /\ Len(retried.updates) <= Len(whole.updates)
  BY <1>7, <1>8, <1>11 DEF Summaries, SummariesOf
<1>13. SameLines(retried, whole)
  BY <1>9 DEF SameLines
<1>14. QED
  BY <1>6, <1>7, <1>8, <1>9, <1>12, <1>13 DEF EqualsWhole, retried, whole

-------------------------------------------------------------------------------
(* Every step keeps the types *)

LEMMA BlankType ==
  /\ Blank \in Initiative
  /\ \A lines \in Seq(Line) : [Blank EXCEPT !.live = TRUE, !.lines = lines] \in Initiative
<1>1. << >> \in Seq(Line) /\ << >> \in Seq(BookUpdates)
  OBVIOUS
<1>2. NoPeriod \in PlannedPeriods
  BY DEF PlannedPeriods
<1>3. [kpi |-> "none", risk |-> "none", milestone |-> "none"] \in Items({"none", "new", "worked"})
  BY DEF Items
<1>4. Blank \in Initiative
  BY <1>1, <1>2, <1>3 DEF Blank, Initiative, Colours
<1>5. ASSUME NEW x \in Initiative, NEW lines \in Seq(Line)
      PROVE  [x EXCEPT !.live = TRUE, !.lines = lines] \in Initiative
  BY DEF Initiative
<1>6. QED
  BY <1>4, <1>5

Progress == {"none", "new", "worked"}

LEMMA ItemEdits ==
  ASSUME NEW x \in Initiative, NEW v \in Progress
  PROVE  /\ [x EXCEPT !.items.kpi = v] \in Initiative
         /\ [x EXCEPT !.items.risk = v] \in Initiative
         /\ [x EXCEPT !.items.milestone = v] \in Initiative
<1>1. x.items \in Items(Progress)
  BY DEF Initiative, Progress
<1>2. ASSUME NEW i \in Items(Progress) PROVE [x EXCEPT !.items = i] \in Initiative
  BY DEF Initiative, Progress
<1>3. [x.items EXCEPT !.kpi = v] \in Items(Progress)
  BY <1>1 DEF Items
<1>4. [x.items EXCEPT !.risk = v] \in Items(Progress)
  BY <1>1 DEF Items
<1>5. [x.items EXCEPT !.milestone = v] \in Items(Progress)
  BY <1>1 DEF Items
<1>6. [x EXCEPT !.items.kpi = v] \in Initiative
  BY <1>2, <1>3
<1>7. [x EXCEPT !.items.risk = v] \in Initiative
  BY <1>2, <1>4
<1>8. [x EXCEPT !.items.milestone = v] \in Initiative
  BY <1>2, <1>5
<1>9. QED
  BY <1>6, <1>7, <1>8

LEMMA WithItemsType ==
  ASSUME NEW steps \in Seq(Initiative), steps # << >>, NEW f
  PROVE  WithItems(steps, f) \in Seq(Initiative) /\ WithItems(steps, f) # << >>
<1> DEFINE kpis == [Last(steps) EXCEPT !.items.kpi = ReadItem(f, "kpi")]
           risks == [kpis EXCEPT !.items.risk = ReadItem(f, "risk")]
           reached == [risks EXCEPT !.items.milestone = ReadItem(f, "milestone")]
           more == <<kpis, risks, reached>>
<1>1. \A x : ReadItem(f, x) \in Progress
  BY DEF ReadItem, Progress
<1>2. Last(steps) \in Initiative
  BY LastType
<1>3. kpis \in Initiative
  BY <1>1, <1>2, ItemEdits
<1> HIDE DEF kpis
<1>4. risks \in Initiative
  BY <1>1, <1>3, ItemEdits
<1> HIDE DEF risks
<1>5. reached \in Initiative
  BY <1>1, <1>4, ItemEdits
<1>6. WithItems(steps, f) = steps \o more
  BY DEF WithItems, kpis, risks
<1> HIDE DEF reached
<1>7. more \in Seq(Initiative) /\ Len(more) = 3
  BY <1>3, <1>4, <1>5
<1>8. more # << >>
  BY <1>7
<1> HIDE DEF more
<1>9. steps \o more \in Seq(Initiative) /\ steps \o more # << >>
  BY <1>7, <1>8, Concatenated
<1>10. QED
  BY <1>6, <1>9

LEMMA WithUpdatesType ==
  ASSUME NEW steps \in Seq(Initiative), steps # << >>, NEW f, f.updates \in Seq(BookUpdates)
  PROVE  WithUpdates(steps, f) \in Seq(Initiative) /\ WithUpdates(steps, f) # << >>
<1> DEFINE last == Last(steps)
           updates == UpdateSteps(last, f)
<1>1. last \in Initiative
  BY LastType
<1> HIDE DEF last
<1>2. updates \in Seq(Initiative) /\ updates # << >>
  BY <1>1, UpdateStepsType
<1>3. WithUpdates(steps, f) = steps \o updates
  BY DEF WithUpdates, last
<1> HIDE DEF updates
<1>4. steps \o updates \in Seq(Initiative) /\ steps \o updates # << >>
  BY <1>2, Concatenated
<1>5. QED
  BY <1>3, <1>4

LEMMA CreateStepsType ==
  ASSUME NEW f, IsImportable(f), NEW user \in Authors
  PROVE  CreateSteps(f, user) \in Seq(Initiative)
<1> DEFINE owner == IF f.format = "alchemist" THEN user ELSE ""
           created == [Blank EXCEPT !.live = TRUE, !.window = f.window, !.owner = owner]
           first == <<created>>
           costs == FinancialSteps(created, f)
           figures == first \o costs
           items == WithItems(figures, f)
<1>1. IsFile(f) /\ f.updates \in Seq(BookUpdates) /\ f.window \in PlannedPeriods
  BY ImportableFacts
<1>2. owner \in Authors \cup {""}
  OBVIOUS
<1> HIDE DEF owner
<1>3. created \in Initiative
  <2>1. ASSUME NEW x \in Initiative, NEW w \in PlannedPeriods
        PROVE  [x EXCEPT !.live = TRUE, !.window = w, !.owner = owner] \in Initiative
    BY <1>2 DEF Initiative
  <2>2. QED
    BY <1>1, <2>1, BlankType
<1>4. CreateSteps(f, user) = WithUpdates(items, f)
  BY DEF CreateSteps, owner
<1> HIDE DEF created
<1>5. costs \in Seq(Initiative) /\ costs # << >>
  BY <1>1, <1>3, FinancialStepsType DEF IsGridWork
<1>6. first \in Seq(Initiative)
  BY <1>3
<1> HIDE DEF first, costs
<1>7. figures \in Seq(Initiative) /\ figures # << >>
  BY <1>5, <1>6, Concatenated
<1> HIDE DEF figures
<1>8. items \in Seq(Initiative) /\ items # << >>
  BY <1>7, WithItemsType
<1> HIDE DEF items
<1>9. QED
  BY <1>1, <1>4, <1>8, WithUpdatesType

LEMMA SheetTyped ==
  ASSUME WorkbookTypeOK
  PROVE  /\ sheet.format \in {"alchemist", "template"} => IsImportable(sheet)
         /\ sheet.format = "financial" => IsFile(sheet)
         /\ sheet.format = "alchemist" => IsExported(sheet)
<1>1. CASE sheet = NoSheet
  BY <1>1 DEF NoSheet
<1>2. CASE sheet \in Filled
  BY <1>2 DEF Filled, IsImportable
<1>3. CASE sheet \in Entered
  BY <1>3 DEF Entered, IsFile
<1>4. CASE sheet.format = "alchemist" /\ sheet \in Exported(12 * Len(sheet.years))
  BY <1>4 DEF IsExported, IsImportable
<1>5. QED
  BY <1>1, <1>2, <1>3, <1>4 DEF WorkbookTypeOK

LEMMA StoreType ==
  ASSUME WorkbookTypeOK, NEW b \in Books, NEW record \in Initiative, Store(b, record),
         edits' \in Nat
  PROVE  WorkbookTypeOK'
<1>1. book' \in [Books -> Initiative]
  BY DEF WorkbookTypeOK, Store
<1>2. sheet' = sheet /\ inflation' = inflation
  BY DEF Store
<1>3. QED
  BY <1>1, <1>2 DEF WorkbookTypeOK

LEMMA PeopleSteps ==
  ASSUME WorkbookTypeOK, NEW b \in Books,
         \/ \E line \in BookLines : EnterLine(b, line)
         \/ EnterBenefits(b)
         \/ \E w \in BookWindows : PlanPeriod(b, w)
         \/ LockPlan(b)
         \/ \E u \in BookUpdates : Post(b, u)
         \/ \E k \in DOMAIN book[b].updates : Unpost(b, k)
         \/ Work(b)
  PROVE  WorkbookTypeOK'
<1> DEFINE x == book[b]
<1>1. x \in Initiative /\ edits \in Nat
  BY DEF WorkbookTypeOK
<1>2. ASSUME NEW line \in BookLines, EnterLine(b, line) PROVE WorkbookTypeOK'
  <2> DEFINE rows == <<line>>
             asked == Asking(rows)
             lines == Append(x.lines, asked[1])
  <2>1. line \in Line
    BY WorkbookAssumption
  <2>2. rows \in Seq(Line) /\ Len(rows) = 1
    BY <2>1
  <2> HIDE DEF rows
  <2>3. asked \in Seq(Line) /\ Len(asked) = 1
    BY <2>2, AskingType
  <2>4. asked[1] \in Line
    <3>1. 1 \in 1 .. Len(asked)
      BY <2>3
    <3> HIDE DEF asked
    <3>2. QED
      BY <2>3, <3>1, ElementOfSeq
  <2>5. x.lines \in Seq(Line)
    BY <1>1 DEF Initiative
  <2>6. lines \in Seq(Line)
    BY <2>4, <2>5, AppendProperties
  <2>7. Store(b, [x EXCEPT !.lines = lines]) /\ edits' \in Nat
    BY <1>1, <1>2 DEF EnterLine, Edit, rows
  <2> HIDE DEF lines, x
  <2>8. [x EXCEPT !.lines = lines] \in Initiative
    BY <1>1, <2>6, GridEdits
  <2>9. QED
    BY <2>7, <2>8, StoreType
<1>3. ASSUME EnterBenefits(b) PROVE WorkbookTypeOK'
  <2>1. Store(b, [x EXCEPT !.benefits = TRUE]) /\ edits' \in Nat
    BY <1>1, <1>3 DEF EnterBenefits, Edit
  <2>2. [x EXCEPT !.benefits = TRUE] \in Initiative
    BY <1>1 DEF Initiative
  <2>3. QED
    BY <2>1, <2>2, StoreType
<1>4. ASSUME NEW w \in BookWindows, PlanPeriod(b, w) PROVE WorkbookTypeOK'
  <2>1. Store(b, [x EXCEPT !.window = w]) /\ edits' \in Nat
    BY <1>1, <1>4 DEF PlanPeriod, Edit
  <2>2. [x EXCEPT !.window = w] \in Initiative
    BY <1>1 DEF Initiative, PlannedPeriods
  <2>3. QED
    BY <2>1, <2>2, StoreType
<1>5. ASSUME LockPlan(b) PROVE WorkbookTypeOK'
  <2>1. Store(b, [x EXCEPT !.locked = TRUE]) /\ edits' \in Nat
    BY <1>1, <1>5 DEF LockPlan, Edit
  <2>2. [x EXCEPT !.locked = TRUE] \in Initiative
    BY <1>1 DEF Initiative
  <2>3. QED
    BY <2>1, <2>2, StoreType
<1>6. ASSUME NEW u \in BookUpdates, Post(b, u) PROVE WorkbookTypeOK'
  <2> DEFINE posts == Append(x.updates, u)
             rag == u.rag
  <2>1. Store(b, [x EXCEPT !.updates = posts, !.headline = rag]) /\ edits' \in Nat
    <3>1. Store(b, [x EXCEPT !.updates = Append(@, u), !.headline = u.rag])
      BY <1>6 DEF Post
    <3>2. [x EXCEPT !.updates = Append(@, u), !.headline = u.rag]
            = [x EXCEPT !.updates = posts, !.headline = rag]
      BY <1>1 DEF Initiative
    <3>3. Edit
      BY <1>6 DEF Post
    <3>4. edits' \in Nat
      BY <1>1, <3>3 DEF Edit
    <3>5. QED
      BY <3>1, <3>2, <3>4
  <2>2. posts \in Seq(BookUpdates)
    BY <1>1, AppendProperties DEF Initiative
  <2>3. rag \in Colours
    <3>1. u \in [summary : STRING, rag : Colours]
      BY WorkbookAssumption
    <3>2. QED
      BY <3>1
  <2> HIDE DEF posts, rag
  <2>4. [x EXCEPT !.updates = posts, !.headline = rag] \in Initiative
    BY <1>1, <2>2, <2>3, UpdateEdits
  <2>5. QED
    BY <2>1, <2>4, StoreType
<1>7. ASSUME NEW k \in DOMAIN book[b].updates, Unpost(b, k) PROVE WorkbookTypeOK'
  <2> DEFINE s == x.updates
             rest == RemoveAt(s, k)
  <2>1. Store(b, [x EXCEPT !.updates = rest]) /\ edits' \in Nat
    BY <1>1, <1>7 DEF Unpost, Edit
  <2>2. s \in Seq(BookUpdates) /\ k \in 1 .. Len(s) /\ Len(s) \in Nat
    BY <1>1, LenProperties DEF Initiative
  <2>3. rest = SubSeq(s, 1, k - 1) \o SubSeq(s, k + 1, Len(s))
    BY DEF RemoveAt
  <2> HIDE DEF s, rest
  <2>4. (\A i \in 1 .. k - 1 : s[i] \in BookUpdates) /\ (\A i \in k + 1 .. Len(s) : s[i] \in BookUpdates)
    BY <2>2, ElementOfSeq
  <2>5. SubSeq(s, 1, k - 1) \in Seq(BookUpdates) /\ SubSeq(s, k + 1, Len(s)) \in Seq(BookUpdates)
    BY <2>2, <2>4, SubSeqProperties
  <2>6. rest \in Seq(BookUpdates)
    BY <2>3, <2>5, ConcatProperties
  <2>7. [x EXCEPT !.updates = rest] \in Initiative
    BY <1>1, <2>6 DEF Initiative
  <2>8. QED
    BY <2>1, <2>7, StoreType
<1>8. ASSUME Work(b) PROVE WorkbookTypeOK'
  <2> DEFINE done == [i \in DOMAIN x.items |-> "worked"]
  <2>1. Store(b, [x EXCEPT !.units = TRUE, !.items = done]) /\ edits' \in Nat
    BY <1>1, <1>8 DEF Work, Edit
  <2>2. done \in Items({"none", "new", "worked"})
    BY <1>1 DEF Initiative, Items
  <2> HIDE DEF done
  <2>3. [x EXCEPT !.units = TRUE, !.items = done] \in Initiative
    BY <1>1, <2>2 DEF Initiative
  <2>4. QED
    BY <2>1, <2>3, StoreType
<1>9. QED
  BY <1>2, <1>3, <1>4, <1>5, <1>6, <1>7, <1>8

LEMMA RunsType ==
  ASSUME WorkbookTypeOK, NEW b \in Books, NEW steps \in Seq(Initiative), steps # << >>,
         Runs(b, steps)
  PROVE  WorkbookTypeOK'
<1>1. edits \in Nat
  BY DEF WorkbookTypeOK
<1>2. CASE Store(b, Last(steps)) /\ UNCHANGED edits
  BY <1>1, <1>2, LastType, StoreType
<1>3. CASE Edit /\ \E k \in 2 .. Len(steps) - 1 : Store(b, steps[k])
  <2>1. PICK k \in 2 .. Len(steps) - 1 : Store(b, steps[k])
    BY <1>3
  <2>2. k \in 1 .. Len(steps) /\ edits' \in Nat
    BY <1>1, <1>3, LenProperties DEF Edit
  <2>3. steps[k] \in Initiative
    BY <2>2, ElementOfSeq
  <2>4. QED
    BY <2>1, <2>2, <2>3, StoreType
<1>4. QED
  BY <1>2, <1>3 DEF Runs

LEMMA ExportStep ==
  ASSUME WorkbookTypeOK, NEW b \in Books, ExportInitiative(b)
  PROVE  WorkbookTypeOK'
<1> DEFINE x == Moved(book[b])
<1>1. x \in Initiative
  BY MovedLinesType DEF WorkbookTypeOK
<1> HIDE DEF x
<1>2. book' = [book EXCEPT ![b] = x] /\ book \in [Books -> Initiative]
  BY DEF ExportInitiative, WorkbookTypeOK, x
<1>3. book' \in [Books -> Initiative] /\ book'[b] = x
  BY <1>1, <1>2
<1>4. sheet' = sheet \/ sheet' = Workbook(x, b)
  BY <1>3 DEF ExportInitiative
<1>5. IsExported(Workbook(x, b))
  BY <1>1, WorkbookFileType
<1>6. \/ sheet' \in {NoSheet} \cup Filled \cup Entered
      \/ sheet'.format = "alchemist" /\ sheet' \in Exported(12 * Len(sheet'.years))
  BY <1>4, <1>5 DEF IsExported, WorkbookTypeOK
<1>7. inflation' = inflation /\ edits' = edits
  BY DEF ExportInitiative
<1>8. QED
  BY <1>3, <1>6, <1>7 DEF WorkbookTypeOK

LEMMA FileSteps ==
  ASSUME WorkbookTypeOK,
         \/ \E b \in Books : ExportFinancials(b)
         \/ \E form \in BookForms : FillTemplate(form)
         \/ \E mode \in Modes : SetInflation(mode)
  PROVE  WorkbookTypeOK'
<1>1. ASSUME NEW b \in Books, ExportFinancials(b) PROVE WorkbookTypeOK'
  <2> DEFINE x == book[b]
             lines == Once(Listed(x.lines))
  <2>1. x.lines \in Seq(Line)
    BY DEF WorkbookTypeOK, Initiative
  <2>2. lines \in Seq(Line)
    BY <2>1, ListedType, OnceType
  <2>3. sheet' = [format |-> "financial", of |-> "", valid |-> TRUE, lines |-> lines]
    BY <1>1 DEF ExportFinancials, FinancialBook
  <2> HIDE DEF lines
  <2>4. sheet' \in Entered
    BY <2>2, <2>3 DEF Entered
  <2>5. QED
    BY <1>1, <2>4 DEF WorkbookTypeOK, ExportFinancials
<1>2. ASSUME NEW form \in BookForms, FillTemplate(form) PROVE WorkbookTypeOK'
  <2>1. form \in [line : Line, window : PlannedPeriods, rag : Colours \cup {""}, valid : BOOLEAN]
    BY WorkbookAssumption
  <2> DEFINE lines == <<form.line>>
             items == [kpi |-> TRUE, risk |-> TRUE, milestone |-> TRUE]
  <2>2. lines \in Seq(Line)
    <3>1. form.line \in Line
      BY <2>1
    <3>2. QED
      BY <3>1
  <2>3. items \in Items({TRUE})
    BY DEF Items
  <2>4. sheet' = Template(form)
    BY <1>2 DEF FillTemplate
  <2>5. Template(form)
          = [format |-> "template", of |-> "", valid |-> form.valid, rag |-> form.rag,
             window |-> form.window, lines |-> lines, benefits |-> FALSE, updates |-> << >>,
             items |-> items]
    BY DEF Template
  <2> HIDE DEF lines, items
  <2>6. Template(form) \in Filled
    <3> DEFINE v == form.valid
               w == form.window
               g == form.rag
    <3>1. v \in BOOLEAN /\ w \in PlannedPeriods /\ g \in Colours \cup {""}
      BY <2>1
    <3> DEFINE none == << >>
               I == Items({TRUE})
               G == Colours \cup {""}
    <3>2. Template(form)
            = [format |-> "template", of |-> "", valid |-> v, rag |-> g, window |-> w,
               lines |-> lines, benefits |-> FALSE, updates |-> none, items |-> items]
      BY <2>5
    <3>3. Filled = [format : {"template"}, of : {""}, valid : BOOLEAN, rag : G,
                    window : PlannedPeriods, lines : Seq(Line), benefits : {FALSE},
                    updates : {none}, items : I]
      BY DEF Filled
    <3>4. v \in BOOLEAN /\ w \in PlannedPeriods /\ g \in G /\ items \in I
      BY <2>3, <3>1
    <3> HIDE DEF v, w, g, none, I, G
    <3>5. [format |-> "template", of |-> "", valid |-> v, rag |-> g, window |-> w,
           lines |-> lines, benefits |-> FALSE, updates |-> none, items |-> items]
          \in [format : {"template"}, of : {""}, valid : BOOLEAN, rag : G,
               window : PlannedPeriods, lines : Seq(Line), benefits : {FALSE},
               updates : {none}, items : I]
      BY <2>2, <3>4
    <3>6. QED
      BY <3>2, <3>3, <3>5
  <2>7. edits' \in Nat
    BY <1>2 DEF FillTemplate, Edit, WorkbookTypeOK
  <2>8. QED
    BY <1>2, <2>4, <2>6, <2>7 DEF WorkbookTypeOK, FillTemplate
<1>3. ASSUME NEW mode \in Modes, SetInflation(mode) PROVE WorkbookTypeOK'
  BY <1>3 DEF SetInflation, Edit, WorkbookTypeOK
<1>4. QED
  BY <1>1, <1>2, <1>3

LEMMA ImportSteppers ==
  ASSUME WorkbookTypeOK, NEW b \in Books,
         \/ \E user \in Authors : ImportInto(b, user)
         \/ ImportFinancials(b)
         \/ \E user \in Authors : ImportTemplate(b, user)
  PROVE  WorkbookTypeOK'
<1>1. book[b] \in Initiative /\ edits \in Nat
  BY DEF WorkbookTypeOK
<1>2. ASSUME NEW user \in Authors, ImportInto(b, user) PROVE WorkbookTypeOK'
  <2>1. IsImportable(sheet) /\ Runs(b, ImportSteps(book[b], sheet, user))
    BY <1>2, SheetTyped DEF ImportInto
  <2> DEFINE steps == ImportSteps(book[b], sheet, user)
  <2>2. steps \in Seq(Initiative) /\ steps # << >>
    BY <1>1, <2>1, ImportStepsType
  <2> HIDE DEF steps
  <2>3. QED
    BY <2>1, <2>2, RunsType DEF steps
<1>3. ASSUME ImportFinancials(b) PROVE WorkbookTypeOK'
  <2>1. IsFile(sheet) /\ Runs(b, GridSteps(book[b], sheet))
    BY <1>3, SheetTyped DEF ImportFinancials
  <2> DEFINE steps == GridSteps(book[b], sheet)
  <2>2. steps \in Seq(Initiative) /\ steps # << >>
    BY <1>1, <2>1, GridStepsType DEF IsGridWork
  <2> HIDE DEF steps
  <2>3. QED
    BY <2>1, <2>2, RunsType DEF steps
<1>4. ASSUME NEW user \in Authors, ImportTemplate(b, user) PROVE WorkbookTypeOK'
  <2> DEFINE steps == CreateSteps(sheet, user)
  <2>1. IsImportable(sheet) /\ edits' \in Nat /\ \E record \in ToSet(steps) : Store(b, record)
    BY <1>1, <1>4, SheetTyped DEF ImportTemplate, Edit
  <2>2. steps \in Seq(Initiative)
    BY <2>1, CreateStepsType
  <2> HIDE DEF steps
  <2>3. PICK record \in ToSet(steps) : Store(b, record)
    BY <2>1
  <2>4. record \in Initiative
    BY <2>2, ToSetType
  <2>5. QED
    BY <2>1, <2>3, <2>4, StoreType
<1>5. QED
  BY <1>2, <1>3, <1>4

\* Every initiative has a record of its type, and a file the columns of its years,
\* whatever is entered, exported, imported or stopped.
THEOREM WorkbookTyped == WorkbookSpec => []WorkbookTypeOK
<1>1. WorkbookInit => WorkbookTypeOK
  <2>1. SUFFICES ASSUME WorkbookInit PROVE WorkbookTypeOK
    OBVIOUS
  <2>2. PICK b \in Books, lines \in BookStarts :
          book = [c \in Books |-> IF c = b THEN [Blank EXCEPT !.live = TRUE, !.lines = lines]
                                           ELSE Blank]
    BY <2>1 DEF WorkbookInit
  <2>3. lines \in Seq(Line)
    BY WorkbookAssumption
  <2> DEFINE start == [Blank EXCEPT !.live = TRUE, !.lines = lines]
  <2>4. start \in Initiative /\ Blank \in Initiative
    BY <2>3, BlankType
  <2> HIDE DEF start
  <2>5. book \in [Books -> Initiative]
    BY <2>2, <2>4 DEF start
  <2>6. QED
    BY <2>1, <2>5 DEF Modes, WorkbookInit, WorkbookTypeOK
<1>2. WorkbookTypeOK /\ [WorkbookNext]_bookVars => WorkbookTypeOK'
  <2>1. SUFFICES ASSUME WorkbookTypeOK, [WorkbookNext]_bookVars PROVE WorkbookTypeOK'
    OBVIOUS
  <2>2. CASE UNCHANGED bookVars
    BY <2>1, <2>2 DEF bookVars, WorkbookTypeOK
  <2>3. CASE WorkbookNext
    BY <2>1, <2>3, PeopleSteps, ExportStep, FileSteps, ImportSteppers DEF WorkbookNext
  <2>4. QED
    BY <2>1, <2>2, <2>3
<1>3. QED
  BY <1>1, <1>2, PTL DEF WorkbookSpec

\* An import that stopped after any of its calls, run again by the same user,
\* leaves what an import that never stopped leaves, for every grid, file, period
\* and lock.
THEOREM RetriesCompleteAlways == WorkbookSpec => []RetryCompletes
<1>1. WorkbookTypeOK => RetryCompletes
  <2>1. SUFFICES ASSUME WorkbookTypeOK, NEW b \in Books, NEW user \in Authors,
                        sheet.format = "alchemist",
                        NEW s \in ToSet(ImportSteps(book[b], sheet, user))
                 PROVE  EqualsWhole(Last(ImportSteps(s, sheet, user)),
                                    Last(ImportSteps(book[b], sheet, user)))
    BY DEF RetryCompletes, RetriesComplete
  <2>2. IsExported(sheet) /\ book[b] \in Initiative
    BY <2>1, SheetTyped DEF WorkbookTypeOK
  <2>3. QED
    BY <2>1, <2>2, RetryEqualsWhole
<1>2. QED
  BY <1>1, WorkbookTyped, PTL

-------------------------------------------------------------------------------
(* Sums of lists, term by term *)

LEMMA Prefix ==
  ASSUME NEW V, NEW n \in Nat, NEW f \in [1 .. n + 1 -> V]
  PROVE  /\ [k \in 1 .. n |-> f[k]] \in [1 .. n -> V] /\ [k \in 1 .. n |-> f[k]] \in Seq(V)
         /\ f[n + 1] \in V /\ f = Append([k \in 1 .. n |-> f[k]], f[n + 1])
<1> DEFINE g == [k \in 1 .. n |-> f[k]]
<1>1. n + 1 \in 1 .. n + 1 /\ \A k \in 1 .. n : k \in 1 .. n + 1
  OBVIOUS
<1>2. g \in [1 .. n -> V] /\ f[n + 1] \in V
  BY <1>1
<1>3. g \in Seq(V) /\ Len(g) = n
  BY <1>2, ListOf
<1>4. f \in Seq(V) /\ Len(f) = n + 1
  <2>1. n + 1 \in Nat
    OBVIOUS
  <2>2. QED
    BY <2>1, ListOf
<1>5. Append(g, f[n + 1]) = f
  <2> DEFINE t == Append(g, f[n + 1])
  <2>1. t \in Seq(V) /\ Len(t) = n + 1 /\ t[n + 1] = f[n + 1] /\ \A k \in 1 .. n : t[k] = g[k]
    BY <1>2, <1>3, AppendProperties
  <2>2. \A k \in 1 .. n : g[k] = f[k]
    OBVIOUS
  <2> HIDE DEF t, g
  <2>3. \A k \in 1 .. n + 1 : t[k] = f[k]
    <3>1. \A k \in 1 .. n + 1 : k \in 1 .. n \/ k = n + 1
      OBVIOUS
    <3>2. QED
      BY <2>1, <2>2, <3>1
  <2>4. QED
    BY <1>4, <2>1, <2>3, SeqEqual DEF t
<1>6. QED
  BY <1>2, <1>3, <1>5

\* The last term apart.
LEMMA TotalLast ==
  ASSUME NEW n \in Nat, NEW f \in [1 .. n + 1 -> Nat]
  PROVE  /\ Total(f) = Total([k \in 1 .. n |-> f[k]]) + f[n + 1]
         /\ f[n + 1] \in Nat /\ [k \in 1 .. n |-> f[k]] \in [1 .. n -> Nat]
<1> DEFINE g == [k \in 1 .. n |-> f[k]]
           e == f[n + 1]
<1>1. g \in Seq(Nat) /\ e \in Nat /\ f = Append(g, e) /\ g \in [1 .. n -> Nat]
  BY Prefix
<1> HIDE DEF g, e
<1>2. Total(Append(g, e)) = Total(g) + e
  BY <1>1, TotalAppend
<1>3. Total(f) = Total(g) + e
  BY <1>1, <1>2
<1>4. QED
  BY <1>1, <1>3 DEF g, e

LEMMA NoTerms ==
  ASSUME NEW V, NEW f \in [1 .. 0 -> V]
  PROVE  f = << >>
<1>1. f \in Seq(V) /\ Len(f) = 0
  BY ListOf
<1>2. QED
  BY <1>1, EmptySeq

LEMMA TotalPlus ==
  ASSUME NEW n \in Nat, NEW f \in [1 .. n -> Nat], NEW g \in [1 .. n -> Nat]
  PROVE  Total([k \in 1 .. n |-> f[k] + g[k]]) = Total(f) + Total(g)
<1> DEFINE Sums(m) == \A p, q \in [1 .. m -> Nat] :
                        Total([k \in 1 .. m |-> p[k] + q[k]]) = Total(p) + Total(q)
           P == {m \in Nat : Sums(m)}
<1>1. 0 \in P
  <2>1. SUFFICES ASSUME NEW p \in [1 .. 0 -> Nat], NEW q \in [1 .. 0 -> Nat]
                 PROVE  Total([k \in 1 .. 0 |-> p[k] + q[k]]) = Total(p) + Total(q)
    OBVIOUS
  <2>2. [k \in 1 .. 0 |-> p[k] + q[k]] \in [1 .. 0 -> Nat]
    OBVIOUS
  <2>3. [k \in 1 .. 0 |-> p[k] + q[k]] = << >> /\ p = << >> /\ q = << >>
    BY <2>2, NoTerms
  <2>4. QED
    BY <2>3, TotalEmpty
<1>2. ASSUME NEW m \in Nat, m \in P PROVE m + 1 \in P
  <2>1. Sums(m)
    BY <1>2
  <2>0. SUFFICES Sums(m + 1)
    <3> HIDE DEF Sums
    <3>1. QED
      OBVIOUS
  <2>2. SUFFICES ASSUME NEW p \in [1 .. m + 1 -> Nat], NEW q \in [1 .. m + 1 -> Nat]
                 PROVE  Total([k \in 1 .. m + 1 |-> p[k] + q[k]]) = Total(p) + Total(q)
    OBVIOUS
  <2> DEFINE pq == [k \in 1 .. m + 1 |-> p[k] + q[k]]
             p1 == [k \in 1 .. m |-> p[k]]
             q1 == [k \in 1 .. m |-> q[k]]
             pq1 == [k \in 1 .. m |-> pq[k]]
  <2>3. pq \in [1 .. m + 1 -> Nat]
    OBVIOUS
  <2>4. Total(p) = Total(p1) + p[m + 1] /\ p[m + 1] \in Nat /\ p1 \in [1 .. m -> Nat]
    BY TotalLast
  <2>5. Total(q) = Total(q1) + q[m + 1] /\ q[m + 1] \in Nat /\ q1 \in [1 .. m -> Nat]
    BY TotalLast
  <2>6. pq[m + 1] = p[m + 1] + q[m + 1]
    OBVIOUS
  <2>7. pq1 = [k \in 1 .. m |-> p1[k] + q1[k]]
    OBVIOUS
  <2> HIDE DEF pq
  <2>8. Total(pq) = Total(pq1) + pq[m + 1]
    BY <2>3, TotalLast
  <2> HIDE DEF p1, q1, pq1
  <2>9. Total(pq1) = Total(p1) + Total(q1)
    BY <2>1, <2>4, <2>5, <2>7
  <2>10. Total(p1) \in Nat /\ Total(q1) \in Nat
    BY <2>4, <2>5, ListOf, TotalNat
  <2>11. QED
    BY <2>4, <2>5, <2>6, <2>8, <2>9, <2>10 DEF pq
<1> HIDE DEF P
<1>3. n \in P
  BY <1>1, <1>2, Induction
<1>4. QED
  BY <1>3 DEF P

LEMMA TotalOf ==
  ASSUME NEW n \in Nat, NEW f \in [1 .. n -> Nat]
  PROVE  Total(f) \in Nat
  BY ListOf, TotalNat

\* A list with one term that counts, and a list with none.
LEMMA TotalOne ==
  ASSUME NEW n \in Nat, NEW a \in Nat, NEW p \in Nat \ {0}
  PROVE  Total([k \in 1 .. n |-> IF k = p THEN a ELSE 0]) = IF p <= n THEN a ELSE 0
<1> DEFINE f(m) == [k \in 1 .. m |-> IF k = p THEN a ELSE 0]
           P == {m \in Nat : Total(f(m)) = IF p <= m THEN a ELSE 0}
<1>1. 0 \in P
  <2>1. f(0) \in [1 .. 0 -> Nat]
    OBVIOUS
  <2>2. f(0) = << >>
    BY <2>1, NoTerms
  <2> HIDE DEF f
  <2>3. Total(f(0)) = 0
    BY <2>2, TotalEmpty
  <2>4. QED
    BY <2>3
<1>2. ASSUME NEW m \in Nat, m \in P PROVE m + 1 \in P
  <2>1. Total(f(m)) = IF p <= m THEN a ELSE 0
    BY <1>2
  <2>2. f(m + 1) \in [1 .. m + 1 -> Nat]
    OBVIOUS
  <2>3. [k \in 1 .. m |-> f(m + 1)[k]] = f(m) /\ f(m + 1)[m + 1] = IF m + 1 = p THEN a ELSE 0
    OBVIOUS
  <2> HIDE DEF f
  <2>4. Total(f(m + 1)) = Total([k \in 1 .. m |-> f(m + 1)[k]]) + f(m + 1)[m + 1]
    BY <2>2, TotalLast
  <2>5. Total(f(m + 1)) = (IF p <= m THEN a ELSE 0) + (IF m + 1 = p THEN a ELSE 0)
    BY <2>1, <2>3, <2>4
  <2>6. QED
    BY <2>5
<1> HIDE DEF P
<1>3. n \in P
  BY <1>1, <1>2, Induction
<1>4. QED
  BY <1>3 DEF P

LEMMA TotalNone ==
  ASSUME NEW n \in Nat, NEW f \in [1 .. n -> Nat], \A k \in 1 .. n : f[k] = 0
  PROVE  Total(f) = 0
<1>1. n + 1 \in Nat \ {0} /\ ~(n + 1 <= n)
  OBVIOUS
<1>2. f = [k \in 1 .. n |-> IF k = n + 1 THEN 0 ELSE 0]
  OBVIOUS
<1> DEFINE p == n + 1
<1> HIDE DEF p
<1>3. Total([k \in 1 .. n |-> IF k = p THEN 0 ELSE 0]) = IF p <= n THEN 0 ELSE 0
  BY <1>1, TotalOne DEF p
<1>4. QED
  BY <1>2, <1>3 DEF p

LEMMA TotalTimes ==
  ASSUME NEW n \in Nat, NEW f \in [1 .. n -> Nat]
  PROVE  Total([k \in 1 .. n |-> 12 * f[k]]) = 12 * Total(f)
<1> DEFINE g1 == f
           g2 == [k \in 1 .. n |-> g1[k] + g1[k]]
           g4 == [k \in 1 .. n |-> g2[k] + g2[k]]
           g8 == [k \in 1 .. n |-> g4[k] + g4[k]]
           g12 == [k \in 1 .. n |-> g8[k] + g4[k]]
<1>1. g2 \in [1 .. n -> Nat] /\ g4 \in [1 .. n -> Nat] /\ g8 \in [1 .. n -> Nat]
  OBVIOUS
<1>2. g12 = [k \in 1 .. n |-> 12 * f[k]]
  OBVIOUS
<1> HIDE DEF g2, g4, g8, g12
<1>3. Total(g2) = Total(f) + Total(f)
  BY TotalPlus DEF g2
<1>4. Total(g4) = Total(g2) + Total(g2)
  BY <1>1, TotalPlus DEF g4
<1>5. Total(g8) = Total(g4) + Total(g4)
  BY <1>1, TotalPlus DEF g8
<1>6. Total(g12) = Total(g8) + Total(g4)
  BY <1>1, TotalPlus DEF g12
<1>7. Total(f) \in Nat
  BY TotalOf
<1>8. QED
  BY <1>2, <1>3, <1>4, <1>5, <1>6, <1>7

\* By rows or by columns.
LEMMA TotalSwap ==
  ASSUME NEW n \in Nat, NEW m \in Nat, NEW F \in [1 .. n -> [1 .. m -> Nat]]
  PROVE  /\ [k \in 1 .. m |-> Total([j \in 1 .. n |-> F[j][k]])] \in [1 .. m -> Nat]
         /\ Total([j \in 1 .. n |-> Total(F[j])])
              = Total([k \in 1 .. m |-> Total([j \in 1 .. n |-> F[j][k]])])
<1> DEFINE Column(H, i, k) == [j \in 1 .. i |-> H[j][k]]
           Columns(H, i) == [k \in 1 .. m |-> Total(Column(H, i, k))]
           Row1(H, i) == [j \in 1 .. i |-> Total(H[j])]
           Swaps(i) == \A H \in [1 .. i -> [1 .. m -> Nat]] : Total(Row1(H, i)) = Total(Columns(H, i))
           P == {i \in Nat : Swaps(i)}
<1>1. ASSUME NEW i \in Nat, NEW H \in [1 .. i -> [1 .. m -> Nat]]
      PROVE  /\ Row1(H, i) \in [1 .. i -> Nat] /\ Columns(H, i) \in [1 .. m -> Nat]
             /\ \A k \in 1 .. m : Column(H, i, k) \in [1 .. i -> Nat]
  <2>1. \A k \in 1 .. m : Column(H, i, k) \in [1 .. i -> Nat]
    OBVIOUS
  <2>2. \A j \in 1 .. i : H[j] \in [1 .. m -> Nat]
    OBVIOUS
  <2>3. \A j \in 1 .. i : Total(H[j]) \in Nat
    BY <2>2, TotalOf
  <2> HIDE DEF Column
  <2>4. \A k \in 1 .. m : Total(Column(H, i, k)) \in Nat
    BY <2>1, TotalOf
  <2>5. QED
    BY <2>1, <2>3, <2>4
<1>2. 0 \in P
  <2>1. SUFFICES ASSUME NEW H \in [1 .. 0 -> [1 .. m -> Nat]]
                 PROVE  Total(Row1(H, 0)) = Total(Columns(H, 0))
    OBVIOUS
  <2>2. Row1(H, 0) \in [1 .. 0 -> Nat] /\ Columns(H, 0) \in [1 .. m -> Nat]
        /\ \A k \in 1 .. m : Column(H, 0, k) \in [1 .. 0 -> Nat]
    BY <1>1
  <2> HIDE DEF Row1, Column
  <2>3. Row1(H, 0) = << >>
    BY <2>2, NoTerms
  <2>4. \A k \in 1 .. m : Column(H, 0, k) = << >>
    BY <2>2, NoTerms
  <2>5. \A k \in 1 .. m : Columns(H, 0)[k] = 0
    BY <2>4, TotalEmpty
  <2> HIDE DEF Columns
  <2>6. Total(Columns(H, 0)) = 0
    BY <2>2, <2>5, TotalNone
  <2>7. QED
    BY <2>3, <2>6, TotalEmpty
<1>3. ASSUME NEW i \in Nat, i \in P PROVE i + 1 \in P
  <2>1. Swaps(i)
    BY <1>3
  <2>0. SUFFICES Swaps(i + 1)
    <3> HIDE DEF Swaps
    <3>1. QED
      OBVIOUS
  <2>2. SUFFICES ASSUME NEW H \in [1 .. i + 1 -> [1 .. m -> Nat]]
                 PROVE  Total(Row1(H, i + 1)) = Total(Columns(H, i + 1))
    OBVIOUS
  <2> DEFINE G == [j \in 1 .. i |-> H[j]]
             f == H[i + 1]
  <2>3. G \in [1 .. i -> [1 .. m -> Nat]] /\ f \in [1 .. m -> Nat]
    BY Prefix
  <2>4. /\ Row1(H, i + 1) \in [1 .. i + 1 -> Nat] /\ Columns(H, i + 1) \in [1 .. m -> Nat]
        /\ \A k \in 1 .. m : Column(H, i + 1, k) \in [1 .. i + 1 -> Nat]
    <3>1. i + 1 \in Nat
      OBVIOUS
    <3>2. QED
      BY <1>1, <3>1
  <2>5. Row1(G, i) \in [1 .. i -> Nat] /\ Columns(G, i) \in [1 .. m -> Nat]
    BY <1>1, <2>3
  <2>6. [j \in 1 .. i |-> Row1(H, i + 1)[j]] = Row1(G, i) /\ Row1(H, i + 1)[i + 1] = Total(f)
    OBVIOUS
  <2>7. \A k \in 1 .. m :
          [j \in 1 .. i |-> Column(H, i + 1, k)[j]] = Column(G, i, k) /\ Column(H, i + 1, k)[i + 1] = f[k]
    OBVIOUS
  <2>8. Total(Row1(H, i + 1)) = Total(Row1(G, i)) + Total(f)
    <3> HIDE DEF Row1, G, f
    <3>1. Total(Row1(H, i + 1)) = Total([j \in 1 .. i |-> Row1(H, i + 1)[j]]) + Row1(H, i + 1)[i + 1]
      BY <2>4, TotalLast
    <3>2. QED
      BY <2>6, <3>1
  <2>9. ASSUME NEW k \in 1 .. m PROVE Total(Column(H, i + 1, k)) = Total(Column(G, i, k)) + f[k]
    <3> HIDE DEF Column, G, f
    <3>1. Total(Column(H, i + 1, k))
            = Total([j \in 1 .. i |-> Column(H, i + 1, k)[j]]) + Column(H, i + 1, k)[i + 1]
      BY <2>4, TotalLast
    <3>2. QED
      BY <2>7, <3>1
  <2>10. Columns(H, i + 1) = [k \in 1 .. m |-> Columns(G, i)[k] + f[k]]
    <3> HIDE DEF Column, G, f
    <3>1. QED
      BY <2>9
  <2> HIDE DEF Columns, G, f, Row1
  <2>11. Total(Columns(H, i + 1)) = Total(Columns(G, i)) + Total(f)
    <3> DEFINE c == Columns(G, i)
    <3>1. c \in [1 .. m -> Nat] /\ Columns(H, i + 1) = [k \in 1 .. m |-> c[k] + f[k]]
      BY <2>5, <2>10
    <3> HIDE DEF c
    <3>2. Total([k \in 1 .. m |-> c[k] + f[k]]) = Total(c) + Total(f)
      BY <2>3, <3>1, TotalPlus
    <3>3. QED
      BY <3>1, <3>2 DEF c
  <2>12. Total(Row1(G, i)) = Total(Columns(G, i))
    BY <2>1, <2>3
  <2>13. QED
    BY <2>8, <2>11, <2>12
<1>4. Columns(F, n) \in [1 .. m -> Nat]
  BY <1>1
<1> HIDE DEF P
<1>5. n \in P
  BY <1>2, <1>3, Induction
<1>6. Total(Row1(F, n)) = Total(Columns(F, n))
  BY <1>5 DEF P
<1>7. QED
  BY <1>4, <1>6


\* What f makes of each element of s.
Along(f, s) == [k \in DOMAIN s |-> f[s[k]]]

LEMMA AlongShape ==
  ASSUME NEW V, NEW s \in Seq(V), NEW f
  PROVE  /\ Len(Along(f, s)) = Len(s) /\ DOMAIN Along(f, s) = 1 .. Len(s)
         /\ \A k \in 1 .. Len(s) : Along(f, s)[k] = f[s[k]]
         /\ Along(f, s) = [k \in 1 .. Len(s) |-> f[s[k]]]
<1>1. DOMAIN s = 1 .. Len(s) /\ Len(s) \in Nat
  BY LenProperties
<1>2. Along(f, s) = [k \in 1 .. Len(s) |-> f[s[k]]]
  BY <1>1 DEF Along
<1>3. QED
  BY <1>1, <1>2

LEMMA AlongType ==
  ASSUME NEW V, NEW s \in Seq(V), NEW W, NEW f, \A v \in V : f[v] \in W
  PROVE  Along(f, s) \in Seq(W) /\ Along(f, s) \in [1 .. Len(s) -> W]
<1> DEFINE n == Len(s)
<1>1. n \in Nat /\ \A k \in 1 .. n : f[s[k]] \in W
  BY LenProperties, ElementOfSeq
<1>2. Along(f, s) = [k \in 1 .. n |-> f[s[k]]]
  BY AlongShape
<1> HIDE DEF n
<1>3. Along(f, s) \in [1 .. n -> W]
  BY <1>1, <1>2
<1>4. QED
  BY <1>1, <1>3, ListOf DEF n

LEMMA AlongAppend ==
  ASSUME NEW V, NEW s \in Seq(V), NEW e \in V, NEW f
  PROVE  Along(f, Append(s, e)) = Append(Along(f, s), f[e])
<1> DEFINE n == Len(s)
           t == Append(s, e)
           a == Along(f, s)
           x == f[e]
<1>1. n \in Nat /\ t \in Seq(V) /\ Len(t) = n + 1 /\ t[n + 1] = e /\ \A k \in 1 .. n : t[k] = s[k]
  BY LenProperties, AppendProperties
<1>2. a = [k \in 1 .. n |-> f[s[k]]] /\ Len(a) = n
  BY AlongShape
<1> HIDE DEF n, t
<1>3. Along(f, t) = [k \in 1 .. n + 1 |-> f[t[k]]]
  BY <1>1, AlongShape
<1> HIDE DEF a, x
<1>4. Append(a, x) = [k \in 1 .. n + 1 |-> IF k = n + 1 THEN x ELSE a[k]]
  BY <1>1, <1>2
<1>5. \A k \in 1 .. n + 1 : f[t[k]] = IF k = n + 1 THEN x ELSE a[k]
  BY <1>1, <1>2 DEF x
<1>6. QED
  BY <1>3, <1>4, <1>5 DEF a, t, x

LEMMA AlongEmpty ==
  ASSUME NEW f
  PROVE  Along(f, << >>) = << >>
  BY DEF Along

\* Elements that count for nothing may be left out.
LEMMA TotalAmong ==
  ASSUME NEW V, NEW s \in Seq(V), NEW S, NEW f, \A v \in V : f[v] \in Nat,
         \A v \in ToSet(s) : v \notin S => f[v] = 0
  PROVE  Total(Along(f, Among(s, S))) = Total(Along(f, s))
<1> DEFINE Counts(u) == Total(Along(f, Among(u, S))) = Total(Along(f, u))
           P == {u \in Seq(V) : (\A v \in ToSet(u) : v \notin S => f[v] = 0) => Counts(u)}
<1>1. << >> \in P
  <2>1. << >> \in Seq(V) /\ Among(<< >>, S) = << >>
    BY AmongEmpty
  <2>2. Counts(<< >>)
    BY <2>1, Zenon
  <2>3. QED
    BY <2>1, <2>2
<1>2. ASSUME NEW u \in Seq(V), NEW e \in V, u \in P PROVE Append(u, e) \in P
  <2>1. Append(u, e) \in Seq(V) /\ ToSet(Append(u, e)) = ToSet(u) \cup {e}
    BY AppendProperties, ToSetAppend
  <2>2. SUFFICES ASSUME \A v \in ToSet(Append(u, e)) : v \notin S => f[v] = 0
                 PROVE  Counts(Append(u, e))
    BY <2>1
  <2>3. Counts(u) /\ (e \notin S => f[e] = 0)
    BY <1>2, <2>1, <2>2
  <2> DEFINE a == Among(u, S)
  <2>4. a \in Seq(V)
    BY AmongType
  <2>5. Along(f, u) \in Seq(Nat) /\ Along(f, a) \in Seq(Nat)
    BY <2>4, AlongType
  <2>6. Along(f, Append(u, e)) = Append(Along(f, u), f[e]) /\ f[e] \in Nat
    BY AlongAppend
  <2>7. Total(Along(f, Append(u, e))) = Total(Along(f, u)) + f[e] /\ Total(Along(f, u)) \in Nat
    BY <2>5, <2>6, TotalAppend, TotalNat
  <2>8. Among(Append(u, e), S) = IF e \in S THEN Append(a, e) ELSE a
    BY AmongAppend
  <2> HIDE DEF a
  <2>9. CASE e \in S
    <3>1. Along(f, Append(a, e)) = Append(Along(f, a), f[e])
      BY <2>4, AlongAppend
    <3>2. Total(Along(f, Append(a, e))) = Total(Along(f, a)) + f[e]
      BY <2>5, <2>6, <3>1, TotalAppend
    <3>3. QED
      BY <2>3, <2>7, <2>8, <2>9, <3>2 DEF a
  <2>10. CASE e \notin S
    BY <2>3, <2>7, <2>8, <2>10 DEF a
  <2>11. QED
    BY <2>9, <2>10
<1> HIDE DEF P
<1>3. s \in P
  BY <1>1, <1>2, SequenceInduction
<1>4. QED
  BY <1>3 DEF P

-------------------------------------------------------------------------------
(* Planned costs *)

PlanOfLine == [r \in Line |-> r.plan]

LEMMA PlannedAlong ==
  ASSUME NEW lines \in Seq(Line)
  PROVE  /\ Planned(lines) = Total(Along(PlanOfLine, lines))
         /\ \A r \in Line : r.plan \in Nat /\ PlanOfLine[r] = r.plan /\ PlanOfLine[r] \in Nat
<1>1. \A r \in Line : r.plan \in Nat
  BY DEF Line
<1>2. PlanOfLine \in [Line -> Nat] /\ \A r \in Line : PlanOfLine[r] = r.plan
  BY <1>1 DEF PlanOfLine
<1>3. DOMAIN lines = 1 .. Len(lines) /\ \A k \in 1 .. Len(lines) : lines[k] \in Line
  BY LenProperties, ElementOfSeq
<1>4. \A k \in DOMAIN lines : InLane(lines[k], "plan") = lines[k].plan
  BY DEF InLane
<1>5. \A k \in DOMAIN lines : PlanOfLine[lines[k]] = lines[k].plan
  BY <1>2, <1>3
<1>6. Lane(lines, "plan") = Along(PlanOfLine, lines)
  BY <1>4, <1>5 DEF Lane, Along
<1>7. QED
  BY <1>1, <1>2, <1>6 DEF Planned

LEMMA PlannedNothing == Planned(<< >>) = 0
<1>1. << >> \in Seq(Line)
  OBVIOUS
<1>2. QED
  BY <1>1, PlannedAlong, AlongEmpty, TotalEmpty

LEMMA PlannedAppended ==
  ASSUME NEW lines \in Seq(Line), NEW r \in Line
  PROVE  /\ Planned(Append(lines, r)) = Planned(lines) + r.plan
         /\ Planned(lines) \in Nat /\ r.plan \in Nat
<1>1. Planned(lines) = Total(Along(PlanOfLine, lines)) /\ (\A x \in Line : PlanOfLine[x] \in Nat)
      /\ r.plan \in Nat /\ PlanOfLine[r] = r.plan
  BY PlannedAlong
<1>2. Append(lines, r) \in Seq(Line)
  BY AppendProperties
<1>3. Planned(Append(lines, r)) = Total(Along(PlanOfLine, Append(lines, r)))
  BY <1>2, PlannedAlong
<1>4. Along(PlanOfLine, Append(lines, r)) = Append(Along(PlanOfLine, lines), PlanOfLine[r])
  BY AlongAppend
<1>5. Along(PlanOfLine, lines) \in Seq(Nat)
  BY <1>1, AlongType
<1>6. QED
  BY <1>1, <1>3, <1>4, <1>5, TotalAppend, PlannedType

LEMMA ConcatAppend ==
  ASSUME NEW V, NEW s \in Seq(V), NEW t \in Seq(V), NEW e \in V
  PROVE  s \o Append(t, e) = Append(s \o t, e)
  OBVIOUS

LEMMA ConcatEmpty ==
  ASSUME NEW V, NEW s \in Seq(V)
  PROVE  s \o << >> = s
  OBVIOUS

LEMMA PlannedConcat ==
  ASSUME NEW s \in Seq(Line), NEW t \in Seq(Line)
  PROVE  Planned(s \o t) = Planned(s) + Planned(t)
<1> DEFINE P == {u \in Seq(Line) : Planned(s \o u) = Planned(s) + Planned(u)}
<1>1. << >> \in P
  <2>1. << >> \in Seq(Line) /\ s \o << >> = s /\ Planned(s) \in Nat
    BY ConcatEmpty, PlannedType
  <2>2. QED
    BY <2>1, PlannedNothing
<1>2. ASSUME NEW u \in Seq(Line), NEW e \in Line, u \in P PROVE Append(u, e) \in P
  <2>1. Append(u, e) \in Seq(Line)
    BY AppendProperties
  <2>2. s \o u \in Seq(Line)
    BY ToSetConcat
  <2>3. s \o Append(u, e) = Append(s \o u, e)
    BY ConcatAppend
  <2>4. Planned(Append(s \o u, e)) = Planned(s \o u) + e.plan
    BY <2>2, PlannedAppended
  <2>5. Planned(Append(u, e)) = Planned(u) + e.plan /\ Planned(u) \in Nat /\ e.plan \in Nat
    BY PlannedAppended
  <2>6. Planned(s) \in Nat
    BY PlannedType
  <2>7. Planned(s \o u) = Planned(s) + Planned(u)
    BY <1>2
  <2>8. Planned(s \o Append(u, e)) = Planned(s) + Planned(Append(u, e))
    BY <2>3, <2>4, <2>5, <2>6, <2>7
  <2>9. QED
    BY <2>1, <2>8
<1> HIDE DEF P
<1>3. t \in P
  BY <1>1, <1>2, SequenceInduction
<1>4. QED
  BY <1>3 DEF P

\* The parts of a list cost what it costs, whichever they are.
LEMMA PlannedByClass ==
  ASSUME NEW rows \in Seq(Line), NEW C, NEW V, NEW keys \in Seq(V), Apart(keys),
         \A r \in ToSet(rows) : C[r] \in ToSet(keys)
  PROVE  /\ [j \in 1 .. Len(keys) |-> Planned(Among(rows, {r \in Line : C[r] = keys[j]}))]
              \in [1 .. Len(keys) -> Nat]
         /\ Total([j \in 1 .. Len(keys) |-> Planned(Among(rows, {r \in Line : C[r] = keys[j]}))])
              = Planned(rows)
<1> DEFINE n == Len(keys)
           Of(j) == {r \in Line : C[r] = keys[j]}
           Parts(u) == [j \in 1 .. n |-> Planned(Among(u, Of(j)))]
           P == {u \in Seq(Line) : (\A r \in ToSet(u) : C[r] \in ToSet(keys))
                                     => Total(Parts(u)) = Planned(u)}
<1>1. n \in Nat /\ DOMAIN keys = 1 .. n /\ ToSet(keys) = {keys[j] : j \in 1 .. n}
  BY LenProperties, ToSetType
<1> HIDE DEF n, Of
<1>2. ASSUME NEW u \in Seq(Line) PROVE Parts(u) \in [1 .. n -> Nat]
  <2>1. \A j \in 1 .. n : Among(u, Of(j)) \in Seq(Line)
    BY AmongType
  <2>2. \A j \in 1 .. n : Planned(Among(u, Of(j))) \in Nat
    BY <2>1, PlannedType
  <2>3. QED
    BY <2>2
<1>3. << >> \in P
  <2>1. << >> \in Seq(Line)
    OBVIOUS
  <2>2. \A j \in 1 .. n : Among(<< >>, Of(j)) = << >>
    BY AmongEmpty
  <2>3. \A j \in 1 .. n : Parts(<< >>)[j] = 0
    BY <2>2, PlannedNothing
  <2>4. Parts(<< >>) \in [1 .. n -> Nat]
    BY <1>2, <2>1
  <2> HIDE DEF Parts
  <2>5. Total(Parts(<< >>)) = 0
    BY <1>1, <2>3, <2>4, TotalNone
  <2>6. QED
    BY <2>1, <2>5, PlannedNothing
<1>4. ASSUME NEW u \in Seq(Line), NEW e \in Line, u \in P PROVE Append(u, e) \in P
  <2>1. Append(u, e) \in Seq(Line) /\ ToSet(Append(u, e)) = ToSet(u) \cup {e}
    BY AppendProperties, ToSetAppend
  <2>2. SUFFICES ASSUME \A r \in ToSet(Append(u, e)) : C[r] \in ToSet(keys)
                 PROVE  Total(Parts(Append(u, e))) = Planned(Append(u, e))
    BY <2>1
  <2>3. Total(Parts(u)) = Planned(u) /\ C[e] \in ToSet(keys)
    BY <1>4, <2>1, <2>2
  <2>4. PICK p \in 1 .. n : keys[p] = C[e]
    BY <1>1, <2>3
  <2>5. \A j \in 1 .. n : e \in Of(j) <=> j = p
    BY <1>1, <2>4 DEF Of, Apart
  <2> DEFINE a == e.plan
             One == [k \in 1 .. n |-> IF k = p THEN a ELSE 0]
  <2>6. Planned(Append(u, e)) = Planned(u) + a /\ a \in Nat /\ Planned(u) \in Nat
    BY PlannedAppended
  <2>7. ASSUME NEW j \in 1 .. n
        PROVE  Planned(Among(Append(u, e), Of(j))) = Planned(Among(u, Of(j))) + IF j = p THEN a ELSE 0
    <3>1. Among(u, Of(j)) \in Seq(Line)
      BY AmongType
    <3>2. Among(Append(u, e), Of(j)) = IF e \in Of(j) THEN Append(Among(u, Of(j)), e) ELSE Among(u, Of(j))
      BY AmongAppend
    <3>3. /\ Planned(Append(Among(u, Of(j)), e)) = Planned(Among(u, Of(j))) + a
          /\ Planned(Among(u, Of(j))) \in Nat
      BY <3>1, PlannedAppended
    <3>4. CASE j = p
      BY <2>5, <3>2, <3>3, <3>4
    <3>5. CASE j # p
      BY <2>5, <3>2, <3>3, <3>5
    <3>6. QED
      BY <3>4, <3>5
  <2> HIDE DEF a
  <2>8. One \in [1 .. n -> Nat] /\ Parts(u) \in [1 .. n -> Nat]
    BY <1>2, <2>6
  <2>9. Parts(Append(u, e)) = [j \in 1 .. n |-> Parts(u)[j] + One[j]]
    BY <2>7
  <2>10. Total(One) = a
    <3>1. p \in Nat \ {0} /\ p <= n
      BY <1>1
    <3>2. Total([k \in 1 .. n |-> IF k = p THEN a ELSE 0]) = IF p <= n THEN a ELSE 0
      BY <1>1, <2>6, <3>1, TotalOne
    <3>3. QED
      BY <3>1, <3>2
  <2> HIDE DEF Parts, One
  <2>11. Total([j \in 1 .. n |-> Parts(u)[j] + One[j]]) = Total(Parts(u)) + Total(One)
    <3> DEFINE q == Parts(u)
    <3>1. q \in [1 .. n -> Nat]
      BY <2>8
    <3> HIDE DEF q
    <3>2. Total([j \in 1 .. n |-> q[j] + One[j]]) = Total(q) + Total(One)
      BY <1>1, <2>8, <3>1, TotalPlus
    <3>3. QED
      BY <3>2 DEF q
  <2>12. QED
    BY <2>3, <2>6, <2>9, <2>10, <2>11
<1> HIDE DEF P
<1>5. rows \in P
  BY <1>3, <1>4, SequenceInduction
<1>6. Total(Parts(rows)) = Planned(rows)
  BY <1>5 DEF P
<1>7. Parts(rows) \in [1 .. n -> Nat]
  BY <1>2
<1>8. QED
  BY <1>6, <1>7 DEF n, Of


LEMMA PlannedParts ==
  ASSUME NEW rows \in Seq(Line), NEW S, NEW T, S \cap T = {}, ToSet(rows) \subseteq S \cup T
  PROVE  /\ Planned(Among(rows, S)) + Planned(Among(rows, T)) = Planned(rows)
         /\ Planned(Among(rows, S)) \in Nat /\ Planned(Among(rows, T)) \in Nat
<1> DEFINE Parts(u) == Planned(Among(u, S)) + Planned(Among(u, T)) = Planned(u)
           P == {u \in Seq(Line) : ToSet(u) \subseteq S \cup T => Parts(u)}
<1>1. ASSUME NEW u \in Seq(Line) PROVE Planned(Among(u, S)) \in Nat /\ Planned(Among(u, T)) \in Nat
  <2>1. Among(u, S) \in Seq(Line) /\ Among(u, T) \in Seq(Line)
    BY AmongType
  <2>2. QED
    BY <2>1, PlannedType
<1>2. << >> \in P
  <2>1. Among(<< >>, S) = << >> /\ Among(<< >>, T) = << >> /\ << >> \in Seq(Line)
    BY AmongEmpty
  <2>2. Parts(<< >>)
    BY <2>1, PlannedNothing
  <2>3. QED
    BY <2>1, <2>2
<1>3. ASSUME NEW u \in Seq(Line), NEW e \in Line, u \in P PROVE Append(u, e) \in P
  <2>1. SUFFICES ASSUME ToSet(Append(u, e)) \subseteq S \cup T PROVE Parts(Append(u, e))
    BY AppendProperties
  <2>2. ToSet(Append(u, e)) = ToSet(u) \cup {e}
    BY ToSetAppend
  <2>3. Parts(u) /\ e \in S \cup T
    BY <1>3, <2>1, <2>2
  <2>4. Planned(Append(u, e)) = Planned(u) + e.plan /\ e.plan \in Nat /\ Planned(u) \in Nat
    BY PlannedAppended
  <2>5. ASSUME NEW K
        PROVE  Planned(Among(Append(u, e), K)) = Planned(Among(u, K)) + IF e \in K THEN e.plan ELSE 0
    <3>1. Among(u, K) \in Seq(Line)
      BY AmongType
    <3>2. Among(Append(u, e), K) = IF e \in K THEN Append(Among(u, K), e) ELSE Among(u, K)
      BY AmongAppend
    <3>3. Planned(Append(Among(u, K), e)) = Planned(Among(u, K)) + e.plan /\ Planned(Among(u, K)) \in Nat
      BY <3>1, PlannedAppended
    <3>4. QED
      BY <3>2, <3>3
  <2>6. CASE e \in S
    <3>1. e \notin T
      BY <2>6
    <3>2. QED
      BY <1>1, <2>3, <2>4, <2>5, <2>6, <3>1
  <2>7. CASE e \in T
    <3>1. e \notin S
      BY <2>7
    <3>2. QED
      BY <1>1, <2>3, <2>4, <2>5, <2>7, <3>1
  <2>8. QED
    BY <2>3, <2>6, <2>7
<1> HIDE DEF P
<1>4. rows \in P
  BY <1>2, <1>3, SequenceInduction
<1>5. QED
  BY <1>1, <1>4 DEF P

\* The order of the list is not in the sum.
LEMMA PlannedListed ==
  ASSUME NEW lines \in Seq(Line)
  PROVE  Planned(Listed(lines)) = Planned(lines)
<1> DEFINE P == {u \in Seq(Line) : Planned(Listed(u)) = Planned(u)}
<1>1. << >> \in P
  <2>1. << >> \in Seq(Line)
    OBVIOUS
  <2>2. QED
    BY <2>1, ListedEmpty
<1>2. ASSUME NEW u \in Seq(Line), NEW e \in Line, u \in P PROVE Append(u, e) \in P
  <2> DEFINE s == Listed(u)
             after == {q \in ToSet(s) : Earlier(e, q)}
             before == ToSet(s) \ after
  <2>1. s \in Seq(Line) /\ Append(u, e) \in Seq(Line)
    BY ListedType, AppendProperties
  <2>2. Listed(Append(u, e)) = Append(Among(s, before), e) \o Among(s, after)
    BY ListingAppend DEF Inserted
  <2>3. before \cap after = {} /\ ToSet(s) \subseteq before \cup after
    OBVIOUS
  <2>4. Planned(s) = Planned(u)
    BY <1>2
  <2> HIDE DEF s, after, before
  <2>5. Among(s, before) \in Seq(Line) /\ Among(s, after) \in Seq(Line)
    BY <2>1, AmongType
  <2>6. Append(Among(s, before), e) \in Seq(Line)
    BY <2>5, AppendProperties
  <2>7. Planned(Append(Among(s, before), e) \o Among(s, after))
          = Planned(Append(Among(s, before), e)) + Planned(Among(s, after))
    BY <2>5, <2>6, PlannedConcat
  <2>8. Planned(Append(Among(s, before), e)) = Planned(Among(s, before)) + e.plan /\ e.plan \in Nat
    BY <2>5, PlannedAppended
  <2>9. /\ Planned(Among(s, before)) + Planned(Among(s, after)) = Planned(s)
        /\ Planned(Among(s, before)) \in Nat /\ Planned(Among(s, after)) \in Nat
    BY <2>1, <2>3, PlannedParts
  <2>10. Planned(Append(u, e)) = Planned(u) + e.plan
    BY PlannedAppended
  <2>11. Planned(Listed(Append(u, e))) = Planned(Append(u, e))
    BY <2>2, <2>4, <2>7, <2>8, <2>9, <2>10
  <2>12. QED
    BY <2>1, <2>11
<1> HIDE DEF P
<1>3. lines \in P
  BY <1>1, <1>2, SequenceInduction
<1>4. QED
  BY <1>3 DEF P

CostOfRows == [rows \in Seq(Line) |-> Planned(rows)]

LEMMA PlannedFlatten ==
  ASSUME NEW ss \in Seq(Seq(Line))
  PROVE  Planned(FlattenSeq(ss)) = Total(Along(CostOfRows, ss))
<1>1. \A u \in Seq(Line) : CostOfRows[u] = Planned(u) /\ CostOfRows[u] \in Nat
  BY PlannedType DEF CostOfRows
<1> DEFINE P == {u \in Seq(Seq(Line)) : Planned(FlattenSeq(u)) = Total(Along(CostOfRows, u))}
<1>2. << >> \in P
  <2>1. << >> \in Seq(Seq(Line)) /\ FlattenSeq(<< >>) = << >> /\ Along(CostOfRows, << >>) = << >>
    BY FlattenEmpty, AlongEmpty
  <2>2. QED
    BY <2>1, PlannedNothing, TotalEmpty
<1>3. ASSUME NEW u \in Seq(Seq(Line)), NEW e \in Seq(Line), u \in P PROVE Append(u, e) \in P
  <2>1. Append(u, e) \in Seq(Seq(Line))
    BY AppendProperties
  <2>2. FlattenSeq(Append(u, e)) = FlattenSeq(u) \o e /\ FlattenSeq(u) \in Seq(Line)
    BY FlattenAppend, FlattenType
  <2>3. Planned(FlattenSeq(u) \o e) = Planned(FlattenSeq(u)) + Planned(e)
    BY <2>2, PlannedConcat
  <2>4. Along(CostOfRows, Append(u, e)) = Append(Along(CostOfRows, u), CostOfRows[e])
    BY AlongAppend
  <2>5. Along(CostOfRows, u) \in Seq(Nat)
    BY <1>1, AlongType
  <2>6. Total(Append(Along(CostOfRows, u), CostOfRows[e])) = Total(Along(CostOfRows, u)) + CostOfRows[e]
    BY <1>1, <2>5, TotalAppend
  <2>7. Planned(FlattenSeq(u)) = Total(Along(CostOfRows, u))
    BY <1>3
  <2>8. Planned(FlattenSeq(Append(u, e))) = Total(Along(CostOfRows, Append(u, e)))
    BY <1>1, <2>2, <2>3, <2>4, <2>6, <2>7
  <2>9. QED
    BY <2>1, <2>8
<1> HIDE DEF P
<1>4. ss \in P
  BY <1>2, <1>3, SequenceInduction
<1>5. QED
  BY <1>4 DEF P

-------------------------------------------------------------------------------
(* Lists in which no two lines have one key *)

Single(rows) == Apart(KeysOf(rows))

LEMMA KeysOfAppend ==
  ASSUME NEW rows \in Seq(Line), NEW r \in Line
  PROVE  KeysOf(Append(rows, r)) = Append(KeysOf(rows), KeyOf(r))
<1> DEFINE f == [q \in Line |-> KeyOf(q)]
<1>1. \A u \in Seq(Line) : KeysOf(u) = Along(f, u)
  <2>1. SUFFICES ASSUME NEW u \in Seq(Line) PROVE KeysOf(u) = Along(f, u)
    OBVIOUS
  <2>2. DOMAIN u = 1 .. Len(u) /\ \A k \in 1 .. Len(u) : u[k] \in Line
    BY LenProperties, ElementOfSeq
  <2>3. \A k \in DOMAIN u : KeyOf(u[k]) = f[u[k]]
    BY <2>2
  <2> HIDE DEF f
  <2>4. QED
    BY <2>3 DEF KeysOf, Along
<1>2. f[r] = KeyOf(r)
  OBVIOUS
<1> HIDE DEF f
<1>3. Append(rows, r) \in Seq(Line)
  BY AppendProperties
<1>4. Along(f, Append(rows, r)) = Append(Along(f, rows), f[r])
  BY AlongAppend
<1>5. QED
  BY <1>1, <1>2, <1>3, <1>4

LEMMA SingleAppend ==
  ASSUME NEW rows \in Seq(Line), NEW r \in Line
  PROVE  Single(Append(rows, r)) <=> Single(rows) /\ \A q \in ToSet(rows) : KeyOf(q) # KeyOf(r)
<1> DEFINE ks == KeysOf(rows)
           e == KeyOf(r)
<1>1. ks \in Seq(Keys) /\ ToSet(ks) = {KeyOf(q) : q \in ToSet(rows)} /\ e \in Keys
  BY KeysOfType, KeyType
<1>2. KeysOf(Append(rows, r)) = Append(ks, e)
  BY KeysOfAppend
<1> HIDE DEF ks, e
<1>3. Apart(Append(ks, e)) <=> Apart(ks) /\ e \notin ToSet(ks)
  BY <1>1, ApartAppend
<1>4. e \notin ToSet(ks) <=> \A q \in ToSet(rows) : KeyOf(q) # e
  BY <1>1
<1>5. QED
  BY <1>2, <1>3, <1>4 DEF Single, ks, e

LEMMA SingleEmpty == Single(<< >>)
  BY DEF Single, Apart, KeysOf

LEMMA SingleConcat ==
  ASSUME NEW s \in Seq(Line), NEW t \in Seq(Line), Single(s), Single(t),
         \A q \in ToSet(s), r \in ToSet(t) : KeyOf(q) # KeyOf(r)
  PROVE  Single(s \o t)
<1> DEFINE Fits1(u) == Single(u) /\ \A q \in ToSet(s), r \in ToSet(u) : KeyOf(q) # KeyOf(r)
           P == {u \in Seq(Line) : Fits1(u) => Single(s \o u)}
<1>1. << >> \in P
  <2>1. << >> \in Seq(Line) /\ s \o << >> = s
    BY ConcatEmpty
  <2>2. QED
    BY <2>1
<1>2. ASSUME NEW u \in Seq(Line), NEW e \in Line, u \in P PROVE Append(u, e) \in P
  <2>1. Append(u, e) \in Seq(Line) /\ ToSet(Append(u, e)) = ToSet(u) \cup {e}
    BY AppendProperties, ToSetAppend
  <2>2. SUFFICES ASSUME Fits1(Append(u, e)) PROVE Single(s \o Append(u, e))
    BY <2>1
  <2>3. Single(u) /\ \A q \in ToSet(u) : KeyOf(q) # KeyOf(e)
    BY <2>2, SingleAppend
  <2>4. Single(s \o u)
    <3>1. Fits1(u)
      BY <2>1, <2>2, <2>3
    <3>2. QED
      BY <1>2, <3>1
  <2>5. s \o u \in Seq(Line) /\ ToSet(s \o u) = ToSet(s) \cup ToSet(u)
    BY ToSetConcat
  <2>6. \A q \in ToSet(s \o u) : KeyOf(q) # KeyOf(e)
    BY <2>1, <2>2, <2>3, <2>5
  <2>7. Single(Append(s \o u, e))
    BY <2>4, <2>5, <2>6, SingleAppend
  <2>8. s \o Append(u, e) = Append(s \o u, e)
    BY ConcatAppend
  <2>9. QED
    BY <2>7, <2>8
<1> HIDE DEF P
<1>3. t \in P
  BY <1>1, <1>2, SequenceInduction
<1>4. QED
  BY <1>3 DEF P

LEMMA SingleAmong ==
  ASSUME NEW rows \in Seq(Line), NEW S, Single(rows)
  PROVE  Single(Among(rows, S))
<1> DEFINE P == {u \in Seq(Line) : Single(u) => Single(Among(u, S))}
<1>1. << >> \in P
  <2>1. Among(<< >>, S) = << >> /\ << >> \in Seq(Line)
    BY AmongEmpty
  <2>2. QED
    BY <2>1, SingleEmpty
<1>2. ASSUME NEW u \in Seq(Line), NEW e \in Line, u \in P PROVE Append(u, e) \in P
  <2>1. SUFFICES ASSUME Single(Append(u, e)) PROVE Single(Among(Append(u, e), S))
    BY AppendProperties
  <2>2. Single(u) /\ \A q \in ToSet(u) : KeyOf(q) # KeyOf(e)
    BY <2>1, SingleAppend
  <2>3. Single(Among(u, S))
    BY <1>2, <2>2
  <2>4. Among(u, S) \in Seq(Line) /\ \A q \in ToSet(Among(u, S)) : KeyOf(q) # KeyOf(e)
    BY <2>2, AmongType
  <2>5. Single(Append(Among(u, S), e))
    BY <2>3, <2>4, SingleAppend
  <2>6. Among(Append(u, e), S) = IF e \in S THEN Append(Among(u, S), e) ELSE Among(u, S)
    BY AmongAppend
  <2>7. QED
    BY <2>3, <2>5, <2>6
<1> HIDE DEF P
<1>3. rows \in P
  BY <1>1, <1>2, SequenceInduction
<1>4. QED
  BY <1>3 DEF P

LEMMA SingleElements ==
  ASSUME NEW rows \in Seq(Line), Single(rows), NEW q \in ToSet(rows), NEW r \in ToSet(rows),
         KeyOf(q) = KeyOf(r)
  PROVE  q = r
<1>1. PICK i \in 1 .. Len(rows) : rows[i] = q
  BY Held
<1>2. PICK j \in 1 .. Len(rows) : rows[j] = r
  BY Held
<1>3. DOMAIN rows = 1 .. Len(rows)
  BY LenProperties
<1>4. KeysOf(rows)[i] = KeyOf(q) /\ KeysOf(rows)[j] = KeyOf(r) /\ DOMAIN KeysOf(rows) = DOMAIN rows
  BY <1>1, <1>2, <1>3 DEF KeysOf
<1>5. i = j
  BY <1>3, <1>4 DEF Single, Apart
<1>6. QED
  BY <1>1, <1>2, <1>5

LEMMA SingleListed ==
  ASSUME NEW lines \in Seq(Line), Single(lines)
  PROVE  Single(Listed(lines))
<1> DEFINE P == {u \in Seq(Line) : Single(u) => Single(Listed(u))}
<1>1. << >> \in P
  <2>1. << >> \in Seq(Line)
    OBVIOUS
  <2>2. QED
    BY <2>1, ListedEmpty
<1>2. ASSUME NEW u \in Seq(Line), NEW e \in Line, u \in P PROVE Append(u, e) \in P
  <2> DEFINE s == Listed(u)
             after == {q \in ToSet(s) : Earlier(e, q)}
             before == ToSet(s) \ after
             a == Among(s, before)
             b == Among(s, after)
  <2>1. SUFFICES ASSUME Single(Append(u, e)) PROVE Single(Listed(Append(u, e)))
    BY AppendProperties
  <2>2. Single(u) /\ \A q \in ToSet(u) : KeyOf(q) # KeyOf(e)
    BY <2>1, SingleAppend
  <2>3. s \in Seq(Line) /\ ToSet(s) = ToSet(u) /\ Single(s)
    BY <1>2, <2>2, ListedType
  <2>4. Listed(Append(u, e)) = Append(a, e) \o b
    BY ListingAppend DEF Inserted
  <2> HIDE DEF s
  <2>5. a \in Seq(Line) /\ b \in Seq(Line) /\ ToSet(a) = ToSet(s) \cap before /\ ToSet(b) = ToSet(s) \cap after
        /\ Single(a) /\ Single(b)
    BY <2>3, AmongType, SingleAmong
  <2>6. before \cap after = {}
    OBVIOUS
  <2> HIDE DEF after, before, a, b
  <2>7. Append(a, e) \in Seq(Line) /\ ToSet(Append(a, e)) = ToSet(a) \cup {e}
    BY <2>5, AppendProperties, ToSetAppend
  <2>8. Single(Append(a, e))
    BY <2>2, <2>3, <2>5, SingleAppend
  <2>9. ASSUME NEW q \in ToSet(Append(a, e)), NEW r \in ToSet(b) PROVE KeyOf(q) # KeyOf(r)
    <3>1. r \in ToSet(u) /\ r \in after
      BY <2>3, <2>5
    <3>2. CASE q = e
      BY <2>2, <3>1, <3>2
    <3>3. CASE q \in ToSet(a)
      <4>1. q \in ToSet(s) /\ r \in ToSet(s) /\ q # r
        BY <2>3, <2>5, <2>6, <3>1, <3>3
      <4>2. QED
        BY <2>3, <4>1, SingleElements
    <3>4. QED
      BY <2>7, <2>9, <3>2, <3>3
  <2>10. QED
    BY <2>4, <2>5, <2>7, <2>8, <2>9, SingleConcat
<1> HIDE DEF P
<1>3. lines \in P
  BY <1>1, <1>2, SequenceInduction
<1>4. QED
  BY <1>3 DEF P


LEMMA SingleLength ==
  ASSUME NEW rows \in Seq(Line), Single(rows)
  PROVE  IsFiniteSet(ToSet(rows)) /\ Len(rows) = Cardinality(ToSet(rows))
<1> DEFINE Counts(u) == IsFiniteSet(ToSet(u)) /\ Len(u) = Cardinality(ToSet(u))
           P == {u \in Seq(Line) : Single(u) => Counts(u)}
<1>1. << >> \in P
  <2>1. << >> \in Seq(Line) /\ ToSet(<< >>) = {} /\ Len(<< >>) = 0
    BY ToSetType
  <2>2. IsFiniteSet({}) /\ Cardinality({}) = 0
    BY FS_EmptySet
  <2>3. Counts(<< >>)
    BY <2>1, <2>2, Zenon
  <2>4. QED
    BY <2>1, <2>3
<1>2. ASSUME NEW u \in Seq(Line), NEW e \in Line, u \in P PROVE Append(u, e) \in P
  <2>1. Append(u, e) \in Seq(Line) /\ ToSet(Append(u, e)) = ToSet(u) \cup {e} /\ Len(Append(u, e)) = Len(u) + 1
    BY AppendProperties, ToSetAppend
  <2>2. SUFFICES ASSUME Single(Append(u, e)) PROVE Counts(Append(u, e))
    BY <2>1
  <2>3. Single(u) /\ e \notin ToSet(u)
    BY <2>2, SingleAppend
  <2>4. Counts(u)
    BY <1>2, <2>3
  <2> DEFINE S == ToSet(u)
  <2>5. IsFiniteSet(S)
    BY <2>4
  <2>6. e \notin S
    BY <2>3
  <2> HIDE DEF S
  <2>7. IsFiniteSet(S \cup {e}) /\ Cardinality(S \cup {e}) = Cardinality(S) + 1
    BY <2>5, <2>6, FS_AddElement
  <2>8. QED
    BY <2>1, <2>4, <2>7 DEF S
<1> HIDE DEF P
<1>3. rows \in P
  BY <1>1, <1>2, SequenceInduction
<1>4. QED
  BY <1>3 DEF P

-------------------------------------------------------------------------------
(* What a batch writes into an empty grid *)

Something == {r \in Line : ~IsNothing(r)}

LEMMA WrittenNothing ==
  Written(<< >>, << >>) = << >>
<1>1. << >> \in Seq(Line) /\ Len(<< >>) = 0
  OBVIOUS
<1>2. PICK F : WritingSteps(F, << >>, << >>) /\ WriteSteps(<< >>, << >>) = F[Len(<< >>)]
  BY <1>1, WritingRecursion
<1>3. WriteSteps(<< >>, << >>) = << << >> >>
  BY <1>1, <1>2 DEF WritingSteps
<1>4. << >> \in Seq(Line) /\ << << >> >> = Append(<< >>, << >>)
  OBVIOUS
<1>5. << >> \in Seq(Seq(Line))
  OBVIOUS
<1> DEFINE none == << >>
           before == << >>
<1> HIDE DEF none, before
<1>6. none \in Seq(Line) /\ before \in Seq(Seq(Line))
  BY <1>1, <1>5 DEF none, before
<1>7. Last(Append(before, none)) = none
  BY <1>6, LastAppend
<1>8. QED
  BY <1>3, <1>4, <1>7 DEF Written, none, before

LEMMA WrittenAppend ==
  ASSUME NEW rows \in Seq(Line), NEW r \in Line
  PROVE  /\ Written(<< >>, rows) \in Seq(Line) /\ Without(Written(<< >>, rows), r) \in Seq(Line)
         /\ Written(<< >>, Append(rows, r))
              = IF IsNothing(r) THEN Without(Written(<< >>, rows), r)
                ELSE Append(Without(Written(<< >>, rows), r), r)
<1> DEFINE none == << >>
<1>1. none \in Seq(Line)
  OBVIOUS
<1> HIDE DEF none
<1>2. WriteSteps(none, rows) \in Histories
  BY <1>1, WritingType
<1>3. WriteSteps(none, Append(rows, r)) = RowSteps(WriteSteps(none, rows), r)
  BY <1>1, WritingAppend
<1>4. /\ Last(RowSteps(WriteSteps(none, rows), r))
           = IF IsNothing(r) THEN Without(Last(WriteSteps(none, rows)), r)
             ELSE Append(Without(Last(WriteSteps(none, rows)), r), r)
      /\ Without(Last(WriteSteps(none, rows)), r) \in Seq(Line)
  BY <1>2, RowStepsType
<1>5. Written(none, rows) \in Seq(Line)
  BY <1>1, WrittenType
<1>6. QED
  BY <1>3, <1>4, <1>5 DEF Written, none

\* Every line is there once and says something, whatever was sent.
LEMMA WrittenFacts ==
  ASSUME NEW rows \in Seq(Line)
  PROVE  /\ Written(<< >>, rows) \in Seq(Line) /\ Single(Written(<< >>, rows))
         /\ ToSet(Written(<< >>, rows)) \subseteq ToSet(rows) \cap Something
<1> DEFINE W(u) == Written(<< >>, u)
           Good(u) == /\ W(u) \in Seq(Line) /\ Single(W(u))
                      /\ ToSet(W(u)) \subseteq ToSet(u) \cap Something
           P == {u \in Seq(Line) : Good(u)}
<1>1. << >> \in P
  <2>1. << >> \in Seq(Line) /\ ToSet(<< >>) = {}
    BY ToSetType
  <2>2. W(<< >>) = << >>
    BY WrittenNothing
  <2> HIDE DEF W
  <2>3. Good(<< >>)
    BY <2>1, <2>2, SingleEmpty
  <2>4. QED
    BY <2>1, <2>3
<1>2. ASSUME NEW u \in Seq(Line), NEW e \in Line, u \in P PROVE Append(u, e) \in P
  <2> DEFINE v == Without(W(u), e)
  <2>1. Append(u, e) \in Seq(Line) /\ ToSet(Append(u, e)) = ToSet(u) \cup {e}
    BY AppendProperties, ToSetAppend
  <2>2. W(Append(u, e)) = IF IsNothing(e) THEN v ELSE Append(v, e)
    BY WrittenAppend
  <2>3. W(u) \in Seq(Line) /\ Single(W(u)) /\ ToSet(W(u)) \subseteq ToSet(u) \cap Something
    BY <1>2
  <2> HIDE DEF W
  <2>4. v \in Seq(Line) /\ Single(v) /\ ToSet(v) = ToSet(W(u)) \cap {s \in ToSet(W(u)) : ~SameKey(e, s)}
    BY <2>3, AmongType, SingleAmong DEF Without
  <2> HIDE DEF v
  <2>5. \A q \in ToSet(v) : KeyOf(q) # KeyOf(e)
    BY <2>4 DEF SameKey
  <2>6. Single(Append(v, e)) /\ Append(v, e) \in Seq(Line) /\ ToSet(Append(v, e)) = ToSet(v) \cup {e}
    BY <2>4, <2>5, SingleAppend, AppendProperties, ToSetAppend
  <2>7. ~IsNothing(e) => e \in Something
    BY DEF Something
  <2>8. Good(Append(u, e))
    BY <2>1, <2>2, <2>3, <2>4, <2>6, <2>7
  <2>9. QED
    BY <2>1, <2>8
<1> HIDE DEF P
<1>3. rows \in P
  BY <1>1, <1>2, SequenceInduction
<1>4. QED
  BY <1>3 DEF P

LEMMA WrittenSingle ==
  ASSUME NEW rows \in Seq(Line), Single(rows)
  PROVE  Written(<< >>, rows) = Among(rows, Something)
<1> DEFINE W(u) == Written(<< >>, u)
           P == {u \in Seq(Line) : Single(u) => W(u) = Among(u, Something)}
<1>1. << >> \in P
  <2>1. << >> \in Seq(Line) /\ Among(<< >>, Something) = << >>
    BY AmongEmpty
  <2>2. W(<< >>) = << >>
    BY WrittenNothing
  <2> HIDE DEF W
  <2>3. QED
    BY <2>1, <2>2
<1>2. ASSUME NEW u \in Seq(Line), NEW e \in Line, u \in P PROVE Append(u, e) \in P
  <2> DEFINE a == Among(u, Something)
  <2>1. SUFFICES ASSUME Single(Append(u, e)) PROVE W(Append(u, e)) = Among(Append(u, e), Something)
    BY AppendProperties
  <2>2. Single(u) /\ \A q \in ToSet(u) : KeyOf(q) # KeyOf(e)
    BY <2>1, SingleAppend
  <2>3. W(u) = a
    BY <1>2, <2>2
  <2>4. W(Append(u, e)) = IF IsNothing(e) THEN Without(W(u), e) ELSE Append(Without(W(u), e), e)
    BY WrittenAppend
  <2>5. a \in Seq(Line) /\ ToSet(a) \subseteq ToSet(u)
    BY AmongType
  <2>6. Among(Append(u, e), Something) = IF e \in Something THEN Append(a, e) ELSE a
    BY AmongAppend
  <2> HIDE DEF a, W
  <2>7. ToSet(a) \subseteq {s \in ToSet(a) : ~SameKey(e, s)}
    BY <2>2, <2>5 DEF SameKey
  <2>8. Without(a, e) = a
    BY <2>5, <2>7, AmongAll DEF Without
  <2>9. e \in Something <=> ~IsNothing(e)
    BY DEF Something
  <2>10. QED
    BY <2>3, <2>4, <2>6, <2>8, <2>9
<1> HIDE DEF P
<1>3. rows \in P
  BY <1>1, <1>2, SequenceInduction
<1>4. QED
  BY <1>3 DEF P

LEMMA WrittenPlanned ==
  ASSUME NEW rows \in Seq(Line), Single(rows)
  PROVE  Planned(Written(<< >>, rows)) = Planned(rows)
<1>1. Written(<< >>, rows) = Among(rows, Something) /\ Among(rows, Something) \in Seq(Line)
  BY WrittenSingle, AmongType
<1>2. \A v \in Line : PlanOfLine[v] \in Nat /\ PlanOfLine[v] = v.plan
  BY PlannedAlong
<1>3. ToSet(rows) \subseteq Line
  BY ToSetType
<1>4. \A v \in ToSet(rows) : v \notin Something => PlanOfLine[v] = 0
  BY <1>2, <1>3 DEF Something, IsNothing
<1>5. Total(Along(PlanOfLine, Among(rows, Something))) = Total(Along(PlanOfLine, rows))
  BY <1>2, <1>4, TotalAmong
<1>6. QED
  BY <1>1, <1>5, PlannedAlong


-------------------------------------------------------------------------------
(* Moving lines into the planned period, again *)

\* A line as an import reads it: of a month, not inflated, its actual amount entered.
Plain == {r \in Line : r.month \in 1 .. 12 /\ r.quarter = 0 /\ ~r.inflated /\ r.actual # Unset}

\* Lines the period leaves where they are.
Staying(w) == {r \in Line : PlacedIn(w, r) = r}

LEMMA PlacedPlain ==
  ASSUME NEW w \in PlannedPeriods, w # NoPeriod, NEW r \in Plain
  PROVE  PlacedIn(w, r) \in Plain /\ PlacedIn(w, r) \in Staying(w)
<1>1. w.start \in Nat \ {0} /\ r \in Line
  BY WindowType DEF Plain
<1> DEFINE y == (w.start - 1) \div 12
           m == ((w.start - 1) % 12) + 1
           p == PlacedIn(w, r)
           s == w.start - 1
<1>2. y \in Nat /\ m \in 1 .. 12
  <2>1. s \in Nat
    BY <1>1
  <2> HIDE DEF s
  <2>2. s \div 12 \in Nat
    BY <2>1
  <2>3. (s % 12) + 1 \in 1 .. 12
    BY <2>1
  <2>4. QED
    BY <2>2, <2>3 DEF s
<1>3. \A q : PlacedIn(w, q) = IF Inside(w, q) THEN q ELSE [q EXCEPT !.year = y, !.month = m, !.quarter = 0]
  BY DEF PlacedIn
<1>4. p \in Line /\ p.plan = r.plan /\ p.actual = r.actual /\ p.inflated = r.inflated
  BY <1>1, PlacedInType
<1> HIDE DEF y, m
<1>5. CASE Inside(w, r)
  <2>1. p = r
    BY <1>3, <1>5
  <2>2. QED
    BY <1>1, <2>1 DEF Staying
<1>6. CASE ~Inside(w, r)
  <2>1. p = [r EXCEPT !.year = y, !.month = m, !.quarter = 0]
    BY <1>3, <1>6
  <2>2. p.year = y /\ p.month = m /\ p.quarter = 0
    BY <1>1, <2>1 DEF Line
  <2> HIDE DEF p
  <2>3. p \in Plain
    BY <1>2, <1>4, <2>2 DEF Plain
  <2>4. [p EXCEPT !.year = y, !.month = m, !.quarter = 0] = p
    BY <1>4, <2>2 DEF Line
  <2>5. PlacedIn(w, p) = p
    BY <1>3, <2>4
  <2>6. QED
    BY <1>4, <2>3, <2>5 DEF Staying, p
<1>7. QED
  BY <1>5, <1>6

\* Only its key says whether a line stays.
LEMMA StayingByKey ==
  ASSUME NEW w \in PlannedPeriods, NEW r \in Staying(w), NEW s \in Line, KeyOf(s) = KeyOf(r)
  PROVE  s \in Staying(w)
<1> DEFINE y == (w.start - 1) \div 12
           m == ((w.start - 1) % 12) + 1
<1>1. r \in Line /\ PlacedIn(w, r) = r
  BY DEF Staying
<1>2. s.year = r.year /\ s.quarter = r.quarter /\ s.month = r.month
  BY DEF KeyOf
<1>3. Inside(w, s) <=> Inside(w, r)
  BY <1>2 DEF Inside, MonthKey
<1>4. \A q : PlacedIn(w, q) = IF Inside(w, q) THEN q ELSE [q EXCEPT !.year = y, !.month = m, !.quarter = 0]
  BY DEF PlacedIn
<1> HIDE DEF y, m
<1>5. CASE Inside(w, s)
  BY <1>4, <1>5 DEF Staying
<1>6. CASE ~Inside(w, s)
  <2>1. r = [r EXCEPT !.year = y, !.month = m, !.quarter = 0]
    BY <1>1, <1>3, <1>4, <1>6
  <2>2. r.year = y /\ r.month = m /\ r.quarter = 0
    BY <1>1, <2>1 DEF Line
  <2>3. s = [s EXCEPT !.year = y, !.month = m, !.quarter = 0]
    BY <1>2, <2>2 DEF Line
  <2>4. QED
    BY <1>4, <1>6, <2>3 DEF Staying
<1>7. QED
  BY <1>5, <1>6

LEMMA MergedPlain ==
  ASSUME NEW group \in Seq(Line), group # << >>, ToSet(group) \subseteq Plain
  PROVE  Merged(group) \in Plain
<1>1. 1 \in 1 .. Len(group) /\ group[1] \in ToSet(group)
  BY EmptySeq, ToSetType
<1>2. group[1] \in Plain /\ group[1] \in Line
  BY <1>1 DEF Plain
<1>3. Merged(group) \in Line /\ KeyOf(Merged(group)) = KeyOf(group[1])
  BY MergedType
<1>4. Merged(group).month \in 1 .. 12 /\ Merged(group).quarter = 0
  BY <1>2, <1>3 DEF KeyOf, Plain
<1>5. Total(Lane(group, "actual")) \in Nat
  BY LaneType, TotalNat DEF Lanes
<1> DEFINE actual == IF \A r \in ToSet(group) : r.actual = Unset THEN Unset
                     ELSE Total(Lane(group, "actual"))
           inflated == \E r \in ToSet(group) : r.inflated
           total == Total(Lane(group, "actual"))
<1>6. actual = total
  BY <1>1, <1>2 DEF Plain
<1>7. inflated = FALSE
  BY DEF Plain
<1>8. Merged(group) = [group[1] EXCEPT !.plan = Planned(group), !.actual = actual, !.inflated = inflated]
  BY DEF Merged
<1> HIDE DEF actual, inflated, total
<1>9. Merged(group) = [group[1] EXCEPT !.plan = Planned(group), !.actual = total, !.inflated = FALSE]
  BY <1>6, <1>7, <1>8
<1>10. Merged(group).actual = total /\ Merged(group).inflated = FALSE
  BY <1>2, <1>9 DEF Line
<1>11. total # Unset
  BY <1>5 DEF Unset, total
<1>12. QED
  BY <1>3, <1>4, <1>10, <1>11 DEF Plain

LEMMA MergedPlan ==
  ASSUME NEW group \in Seq(Line), group # << >>
  PROVE  Merged(group).plan = Planned(group)
<1>1. 1 \in 1 .. Len(group)
  BY EmptySeq
<1>2. group[1] \in Line
  BY <1>1, ElementOfSeq
<1> DEFINE actual == IF \A r \in ToSet(group) : r.actual = Unset THEN Unset
                     ELSE Total(Lane(group, "actual"))
           inflated == \E r \in ToSet(group) : r.inflated
<1>3. Merged(group) = [group[1] EXCEPT !.plan = Planned(group), !.actual = actual, !.inflated = inflated]
  BY DEF Merged
<1> HIDE DEF actual, inflated
<1>4. QED
  BY <1>2, <1>3 DEF Line

\* Each key once, each line of its group's key; the planned costs add up.
LEMMA MergedByKeyFacts ==
  ASSUME NEW rows \in Seq(Line)
  PROVE  /\ MergedByKey(rows) \in Seq(Line) /\ Single(MergedByKey(rows))
         /\ \A k \in 1 .. Len(MergedByKey(rows)) :
              \E key : /\ MergedByKey(rows)[k] = Merged(OfKey(rows, key))
                       /\ OfKey(rows, key) \in Seq(Line) /\ OfKey(rows, key) # << >>
                       /\ ToSet(OfKey(rows, key)) = {r \in ToSet(rows) : KeyOf(r) = key}
         /\ Planned(MergedByKey(rows)) = Planned(rows)
<1> DEFINE keys == Distinct(KeysOf(rows))
           M == MergedByKey(rows)
           n == Len(keys)
<1>1. keys \in Seq(Keys) /\ ToSet(keys) = ToSet(KeysOf(rows)) /\ Differ(keys)
  BY KeysOfType, DistinctType
<1>2. /\ M \in Seq(Line) /\ Len(M) = n
      /\ \A k \in 1 .. Len(M) : M[k] = Merged(OfKey(rows, keys[k])) /\ KeyOf(M[k]) = keys[k]
  BY MergedByKeyType
<1> HIDE DEF keys
<1>3. DOMAIN keys = 1 .. n /\ n \in Nat /\ DOMAIN M = 1 .. n
  BY <1>1, <1>2, LenProperties
<1> HIDE DEF n, M
<1>4. Apart(keys)
  BY <1>1, <1>3 DEF Apart, Differ, n
<1>5. KeysOf(M) = [k \in 1 .. n |-> KeyOf(M[k])]
  BY <1>3 DEF KeysOf
<1>6. Single(M)
  BY <1>2, <1>3, <1>4, <1>5 DEF Single, Apart
<1>7. ASSUME NEW k \in 1 .. n
      PROVE  /\ OfKey(rows, keys[k]) \in Seq(Line) /\ OfKey(rows, keys[k]) # << >>
             /\ ToSet(OfKey(rows, keys[k])) = {r \in ToSet(rows) : KeyOf(r) = keys[k]}
  <2>1. keys[k] \in ToSet(KeysOf(rows))
    BY <1>1, ToSetType DEF n
  <2>2. QED
    BY <2>1, OfKeyType
<1>8. Planned(M) = Planned(rows)
  <2> DEFINE C == [r \in Line |-> KeyOf(r)]
             Of(j) == {r \in Line : C[r] = keys[j]}
             Parts == [j \in 1 .. n |-> Planned(Among(rows, Of(j)))]
  <2>1. ToSet(rows) \subseteq Line /\ \A r \in Line : C[r] = KeyOf(r)
    BY ToSetType
  <2>2. \A r \in ToSet(rows) : C[r] \in ToSet(keys)
    BY <1>1, <2>1, KeysOfType
  <2>3. ASSUME NEW j \in 1 .. n PROVE Planned(Among(rows, Of(j))) = M[j].plan
    <3>1. ToSet(rows) \cap Of(j) = ToSet(rows) \cap {r \in ToSet(rows) : KeyOf(r) = keys[j]}
      BY <2>1
    <3>2. Among(rows, Of(j)) = OfKey(rows, keys[j])
      BY <3>1, AmongSame DEF OfKey
    <3>3. Merged(OfKey(rows, keys[j])).plan = Planned(OfKey(rows, keys[j]))
      BY <1>7, MergedPlan
    <3>4. QED
      BY <1>2, <3>2, <3>3
  <2> HIDE DEF C
  <2>4. Total(Parts) = Planned(rows)
    <3>1. keys \in Seq(Keys)
      BY <1>1
    <3>2. Total([j \in 1 .. Len(keys) |-> Planned(Among(rows, {r \in Line : C[r] = keys[j]}))])
            = Planned(rows)
      BY <1>4, <2>2, <3>1, PlannedByClass
    <3>3. QED
      BY <3>2 DEF n
  <2>5. Parts = [j \in 1 .. n |-> M[j].plan]
    <3> HIDE DEF Of
    <3>1. QED
      BY <2>3
  <2>6. \A j \in 1 .. n : M[j] \in Line /\ PlanOfLine[M[j]] = M[j].plan
    BY <1>2, ElementOfSeq, PlannedAlong
  <2>7. Along(PlanOfLine, M) = [j \in 1 .. n |-> PlanOfLine[M[j]]]
    BY <1>2, AlongShape
  <2> HIDE DEF Parts
  <2>8. Along(PlanOfLine, M) = Parts
    BY <2>5, <2>6, <2>7
  <2>9. QED
    BY <1>2, <2>4, <2>8, PlannedAlong
<1>9. QED
  BY <1>2, <1>6, <1>7, <1>8 DEF M

\* The lines, each at its place.
PlacedEach(w, rows) == [k \in DOMAIN rows |-> PlacedIn(w, rows[k])]

LEMMA PlacedEachFacts ==
  ASSUME NEW w \in PlannedPeriods, w # NoPeriod, NEW rows \in Seq(Line)
  PROVE  /\ PlacedEach(w, rows) \in Seq(Line) /\ Len(PlacedEach(w, rows)) = Len(rows)
         /\ \A k \in 1 .. Len(rows) : PlacedEach(w, rows)[k] = PlacedIn(w, rows[k])
         /\ Planned(PlacedEach(w, rows)) = Planned(rows)
         /\ Placed(w, rows) = MergedByKey(PlacedEach(w, rows))
<1> DEFINE n == Len(rows)
           moved == PlacedEach(w, rows)
<1>1. DOMAIN rows = 1 .. n /\ n \in Nat /\ \A k \in 1 .. n : rows[k] \in Line
  BY LenProperties, ElementOfSeq
<1>2. \A k \in 1 .. n : PlacedIn(w, rows[k]) \in Line /\ PlacedIn(w, rows[k]).plan = rows[k].plan
  BY <1>1, PlacedInType
<1> HIDE DEF n
<1>3. moved = [k \in 1 .. n |-> PlacedIn(w, rows[k])]
  BY <1>1 DEF PlacedEach
<1>4. moved \in [1 .. n -> Line]
  BY <1>2, <1>3
<1>5. moved \in Seq(Line) /\ Len(moved) = n
  BY <1>1, <1>4, ListOf
<1>6. Placed(w, rows) = MergedByKey(moved)
  BY DEF Placed, PlacedEach
<1>7. Planned(moved) = Planned(rows)
  <2> HIDE DEF moved
  <2>1. Along(PlanOfLine, moved) = [k \in 1 .. n |-> PlanOfLine[moved[k]]]
    BY <1>5, AlongShape
  <2>2. Along(PlanOfLine, rows) = [k \in 1 .. n |-> PlanOfLine[rows[k]]]
    BY AlongShape DEF n
  <2>3. \A r \in Line : PlanOfLine[r] = r.plan
    BY PlannedAlong
  <2>4. \A k \in 1 .. n : PlanOfLine[moved[k]] = PlanOfLine[rows[k]]
    BY <1>1, <1>2, <1>3, <2>3
  <2>5. Along(PlanOfLine, moved) = Along(PlanOfLine, rows)
    BY <2>1, <2>2, <2>4
  <2>6. QED
    BY <1>5, <2>5, PlannedAlong
<1>8. QED
  BY <1>3, <1>5, <1>6, <1>7 DEF n

LEMMA PlacedFacts ==
  ASSUME NEW w \in PlannedPeriods, w # NoPeriod, NEW rows \in Seq(Line)
  PROVE  /\ Placed(w, rows) \in Seq(Line) /\ Single(Placed(w, rows))
         /\ Planned(Placed(w, rows)) = Planned(rows)
         /\ ToSet(rows) \subseteq Plain => ToSet(Placed(w, rows)) \subseteq Plain \cap Staying(w)
<1> DEFINE moved == PlacedEach(w, rows)
           M == MergedByKey(moved)
<1>1. /\ moved \in Seq(Line) /\ Len(moved) = Len(rows)
      /\ \A k \in 1 .. Len(rows) : moved[k] = PlacedIn(w, rows[k])
      /\ Planned(moved) = Planned(rows) /\ Placed(w, rows) = M
  BY PlacedEachFacts
<1> HIDE DEF moved
<1>2. M \in Seq(Line) /\ Single(M) /\ Planned(M) = Planned(moved)
  BY <1>1, MergedByKeyFacts
<1>3. \A k \in 1 .. Len(M) :
        \E key : /\ M[k] = Merged(OfKey(moved, key))
                 /\ OfKey(moved, key) \in Seq(Line) /\ OfKey(moved, key) # << >>
                 /\ ToSet(OfKey(moved, key)) = {r \in ToSet(moved) : KeyOf(r) = key}
  BY <1>1, MergedByKeyFacts
<1> HIDE DEF M
<1>4. ASSUME ToSet(rows) \subseteq Plain PROVE ToSet(M) \subseteq Plain \cap Staying(w)
  <2>1. ASSUME NEW r \in ToSet(moved) PROVE r \in Plain /\ r \in Staying(w)
    <3>1. PICK k \in 1 .. Len(moved) : moved[k] = r
      BY <1>1, Held
    <3>2. rows[k] \in ToSet(rows)
      BY <1>1, ToSetType
    <3>3. QED
      BY <1>1, <1>4, <3>1, <3>2, PlacedPlain
  <2>2. ASSUME NEW x \in ToSet(M) PROVE x \in Plain /\ x \in Staying(w)
    <3>1. PICK k \in 1 .. Len(M) : M[k] = x
      BY <1>2, Held
    <3>2. PICK key : /\ M[k] = Merged(OfKey(moved, key))
                     /\ OfKey(moved, key) \in Seq(Line) /\ OfKey(moved, key) # << >>
                     /\ ToSet(OfKey(moved, key)) = {r \in ToSet(moved) : KeyOf(r) = key}
      BY <1>3
    <3> DEFINE group == OfKey(moved, key)
    <3>3. group \in Seq(Line) /\ group # << >> /\ ToSet(group) \subseteq ToSet(moved)
      BY <3>2
    <3> HIDE DEF group
    <3>4. Merged(group) \in Plain
      BY <2>1, <3>3, MergedPlain
    <3>5. group[1] \in ToSet(moved)
      <4>1. 1 \in 1 .. Len(group)
        BY <3>3, EmptySeq
      <4>2. QED
        BY <3>3, <4>1, ToSetType
    <3>6. Merged(group) \in Line /\ KeyOf(Merged(group)) = KeyOf(group[1])
      BY <3>3, MergedType
    <3>7. Merged(group) \in Staying(w)
      BY <2>1, <3>5, <3>6, StayingByKey
    <3>8. QED
      BY <3>1, <3>2, <3>4, <3>7 DEF group
  <2>3. QED
    BY <2>2
<1>5. QED
  BY <1>1, <1>2, <1>4

LEMMA DistinctApart ==
  ASSUME NEW V, NEW s \in Seq(V), Apart(s)
  PROVE  Distinct(s) = s
<1> DEFINE P == {u \in Seq(V) : Apart(u) => Distinct(u) = u}
<1>1. << >> \in P
  <2>1. << >> \in Seq(V)
    OBVIOUS
  <2>2. QED
    BY <2>1, DistinctEmpty
<1>2. ASSUME NEW u \in Seq(V), NEW e \in V, u \in P PROVE Append(u, e) \in P
  <2>1. SUFFICES ASSUME Apart(Append(u, e)) PROVE Distinct(Append(u, e)) = Append(u, e)
    BY AppendProperties
  <2>2. Apart(u) /\ e \notin ToSet(u)
    BY <2>1, ApartAppend
  <2>3. Distinct(u) = u
    BY <1>2, <2>2
  <2>4. Distinct(Append(u, e)) = Including(Distinct(u), e)
    BY DistinctAppend
  <2>5. QED
    BY <2>2, <2>3, <2>4 DEF Including
<1> HIDE DEF P
<1>3. s \in P
  BY <1>1, <1>2, SequenceInduction
<1>4. QED
  BY <1>3 DEF P

LEMMA MergedOne ==
  ASSUME NEW g \in Seq(Line), Len(g) = 1, g[1] \in Plain
  PROVE  Merged(g) = g[1]
<1> DEFINE r == g[1]
           x == r.actual
           actual == IF \A q \in ToSet(g) : q.actual = Unset THEN Unset ELSE Total(Lane(g, "actual"))
           inflated == \E q \in ToSet(g) : q.inflated
<1>1. r \in Line /\ ToSet(g) = {r} /\ DOMAIN g = 1 .. 1
  <2>1. ToSet(g) = {g[k] : k \in 1 .. 1} /\ DOMAIN g = 1 .. 1
    BY ToSetType, LenProperties
  <2>2. 1 .. 1 = {1}
    OBVIOUS
  <2>3. QED
    BY <2>1, <2>2 DEF Plain
<1>2. x \in Nat /\ r.inflated = FALSE /\ x # Unset
  BY <1>1 DEF Plain, Line
<1>3. Planned(g) = r.plan
  <2>1. << >> \in Seq(Line) /\ Append(<< >>, r) = g
    <3> DEFINE t == Append(<< >>, r)
    <3>1. << >> \in Seq(Line)
      OBVIOUS
    <3>2. t \in Seq(Line) /\ Len(t) = 1 /\ t[1] = r
      BY <1>1, <3>1, AppendProperties
    <3> HIDE DEF t, r
    <3>3. \A k \in 1 .. 1 : t[k] = g[k]
      BY <3>2 DEF r
    <3>4. QED
      BY <3>1, <3>2, <3>3, SeqEqual DEF t
  <2>2. Planned(g) = Planned(<< >>) + r.plan /\ r.plan \in Nat
    BY <1>1, <2>1, PlannedAppended
  <2>3. QED
    BY <2>2, PlannedNothing
<1>4. Total(Lane(g, "actual")) = x
  <2>1. InLane(r, "actual") = x
    BY <1>2 DEF InLane
  <2>2. Lane(g, "actual") = [k \in 1 .. 1 |-> InLane(g[k], "actual")]
    BY <1>1 DEF Lane
  <2>3. \A k \in 1 .. 1 : g[k] = r /\ k = 1
    OBVIOUS
  <2> HIDE DEF x
  <2>4. Lane(g, "actual") = [k \in 1 .. 1 |-> IF k = 1 THEN x ELSE 0]
    BY <2>1, <2>2, <2>3
  <2>5. 1 \in Nat /\ 1 \in Nat \ {0} /\ 1 <= 1
    OBVIOUS
  <2>6. Total([k \in 1 .. 1 |-> IF k = 1 THEN x ELSE 0]) = IF 1 <= 1 THEN x ELSE 0
    BY <1>2, <2>5, TotalOne
  <2>7. QED
    BY <2>4, <2>5, <2>6
<1>5. Merged(g) = [r EXCEPT !.plan = Planned(g), !.actual = actual, !.inflated = inflated]
  BY DEF Merged
<1>6. actual = x /\ inflated = FALSE
  BY <1>1, <1>2, <1>4
<1> HIDE DEF actual, inflated, x, r
<1>7. Merged(g) = [r EXCEPT !.plan = r.plan, !.actual = x, !.inflated = FALSE]
  BY <1>3, <1>5, <1>6
<1>8. [r EXCEPT !.plan = r.plan, !.actual = x, !.inflated = FALSE] = r
  BY <1>1, <1>2 DEF Line, x
<1>9. QED
  BY <1>7, <1>8 DEF r

\* Lines that have their place and a key of their own are left as they are.
LEMMA PlacedSame ==
  ASSUME NEW w \in PlannedPeriods, w # NoPeriod, NEW rows \in Seq(Line), Single(rows),
         ToSet(rows) \subseteq Plain, ToSet(rows) \subseteq Staying(w)
  PROVE  Placed(w, rows) = rows
<1> DEFINE n == Len(rows)
           moved == PlacedEach(w, rows)
           ks == KeysOf(rows)
           M == MergedByKey(rows)
<1>1. DOMAIN rows = 1 .. n /\ n \in Nat /\ \A k \in 1 .. n : rows[k] \in Line /\ rows[k] \in ToSet(rows)
  BY LenProperties, ElementOfSeq, ToSetType
<1>2. /\ moved \in Seq(Line) /\ Len(moved) = n
      /\ \A k \in 1 .. n : moved[k] = PlacedIn(w, rows[k])
      /\ Placed(w, rows) = MergedByKey(moved)
  BY PlacedEachFacts
<1> HIDE DEF moved
<1>3. moved = rows
  <2>1. \A k \in 1 .. n : moved[k] = rows[k]
    BY <1>1, <1>2 DEF Staying
  <2>2. QED
    BY <1>2, <2>1, SeqEqual
<1>4. Placed(w, rows) = M
  BY <1>2, <1>3
<1>5. ks \in Seq(Keys) /\ Len(ks) = n /\ \A k \in 1 .. n : ks[k] = KeyOf(rows[k])
  BY <1>1, KeysOfType DEF KeysOf
<1>6. Distinct(ks) = ks
  BY <1>5, DistinctApart DEF Single
<1>7. /\ M \in Seq(Line) /\ Len(M) = Len(Distinct(ks))
      /\ \A k \in 1 .. Len(M) : M[k] = Merged(OfKey(rows, Distinct(ks)[k]))
  BY MergedByKeyType
<1> HIDE DEF M, ks
<1>8. Len(M) = n /\ \A k \in 1 .. n : M[k] = Merged(OfKey(rows, KeyOf(rows[k])))
  BY <1>5, <1>6, <1>7
<1> HIDE DEF n
<1>9. ASSUME NEW k \in 1 .. n PROVE M[k] = rows[k]
  <2> DEFINE x == rows[k]
             g == OfKey(rows, KeyOf(x))
  <2>1. x \in Line /\ x \in ToSet(rows) /\ x \in Plain
    BY <1>1
  <2>2. g \in Seq(Line) /\ ToSet(g) = {r \in ToSet(rows) : KeyOf(r) = KeyOf(x)} /\ Single(g)
    BY OfKeyType, SingleAmong DEF OfKey
  <2>3. {r \in ToSet(rows) : KeyOf(r) = KeyOf(x)} = {x}
    BY <2>1, SingleElements
  <2> HIDE DEF x, g
  <2>4. Len(g) = Cardinality(ToSet(g)) /\ ToSet(g) = {x}
    BY <2>2, <2>3, SingleLength
  <2>5. Len(g) = 1
    BY <2>4, FS_Singleton
  <2>6. g[1] = x
    <3>1. 1 \in 1 .. Len(g)
      BY <2>5
    <3>2. g[1] \in ToSet(g)
      BY <2>2, <3>1, ToSetType
    <3>3. QED
      BY <2>4, <3>2
  <2>7. Merged(g) = x
    BY <2>1, <2>2, <2>5, <2>6, MergedOne
  <2>8. QED
    BY <1>8, <2>7 DEF g, x
<1>10. QED
  BY <1>4, <1>7, <1>8, <1>9, SeqEqual DEF n

-------------------------------------------------------------------------------
(* The columns of a file *)

LEMMA ColumnFacts ==
  ASSUME NEW years, NEW from, NEW n, YearsFrom(years, from, n), NEW k \in 1 .. 12 * n
  PROVE  /\ YearOf(years, k) = from + ((k - 1) \div 12) /\ MonthOf(k) = ((k - 1) % 12) + 1
         /\ YearOf(years, k) \in Nat /\ MonthOf(k) \in 1 .. 12
         /\ k = 12 * (YearOf(years, k) - from) + MonthOf(k)
<1>1. n \in Nat /\ from \in Nat /\ k \in Nat /\ k >= 1 /\ k <= 12 * n
  BY DEF YearsFrom
<1> DEFINE q == (k - 1) \div 12
           m == (k - 1) % 12
<1>2. q \in Nat /\ m \in 0 .. 11 /\ k - 1 = 12 * q + m
  BY <1>1
<1> HIDE DEF q, m
<1>3. q + 1 \in 1 .. n
  BY <1>1, <1>2
<1>4. years[q + 1] = from + (q + 1) - 1
  BY <1>3 DEF YearsFrom
<1>5. YearOf(years, k) = from + q /\ MonthOf(k) = m + 1
  BY <1>1, <1>2, <1>4 DEF YearOf, MonthOf, q, m
<1>6. k = 12 * q + m + 1 /\ (from + q) - from = q
  BY <1>1, <1>2
<1>7. QED
  BY <1>1, <1>2, <1>5, <1>6 DEF q, m

LEMMA ColumnOf ==
  ASSUME NEW years, NEW from, NEW n, YearsFrom(years, from, n), NEW y \in Nat, from <= y,
         y <= from + n - 1, NEW m \in 1 .. 12
  PROVE  LET k == 12 * (y - from) + m
         IN  k \in 1 .. 12 * n /\ YearOf(years, k) = y /\ MonthOf(k) = m
<1> DEFINE d == y - from
           k == 12 * d + m
<1>1. n \in Nat /\ from \in Nat
  BY DEF YearsFrom
<1>2. d \in Nat /\ d <= n - 1 /\ from + d = y
  BY <1>1
<1> HIDE DEF d
<1>3. k \in 1 .. 12 * n
  BY <1>1, <1>2
<1>4. (k - 1) \div 12 = d /\ (k - 1) % 12 = m - 1
  BY <1>2
<1>5. YearOf(years, k) = from + ((k - 1) \div 12) /\ MonthOf(k) = ((k - 1) % 12) + 1
  BY <1>3, ColumnFacts
<1> HIDE DEF k
<1>6. YearOf(years, k) = y /\ MonthOf(k) = m
  BY <1>2, <1>4, <1>5
<1>7. QED
  BY <1>3, <1>6 DEF k, d

\* No two columns have one month.
LEMMA ColumnsApart ==
  ASSUME NEW years, NEW from, NEW n, YearsFrom(years, from, n), NEW j \in 1 .. 12 * n, NEW k \in 1 .. 12 * n,
         YearOf(years, j) = YearOf(years, k), MonthOf(j) = MonthOf(k)
  PROVE  j = k
<1>1. j = 12 * (YearOf(years, j) - from) + MonthOf(j)
  BY ColumnFacts
<1>2. k = 12 * (YearOf(years, k) - from) + MonthOf(k)
  BY ColumnFacts
<1>3. QED
  BY <1>1, <1>2

-------------------------------------------------------------------------------
(* What is read from a row *)

LEMMA ReadCellFacts ==
  ASSUME NEW years, NEW from, NEW n, YearsFrom(years, from, n),
         NEW row \in Cost(12 * n), NEW k \in 1 .. 12 * n
  PROVE  LET c == ReadCell(row, years, k)
         IN  /\ c \in Plain
             /\ c.name = row.name /\ c.recurring = row.recurring
             /\ c.plan = row.plan[k] /\ c.actual = row.actual[k]
             /\ KeyOf(c) = <<row.recurring, YearOf(years, k), 0, MonthOf(k)>>
<1> DEFINE c == ReadCell(row, years, k)
           y == YearOf(years, k)
           m == MonthOf(k)
           p == row.plan[k]
           a == row.actual[k]
<1>1. years \in Seq(Nat) /\ Len(years) = n
  BY DEF YearsFrom
<1>2. c \in Line
  BY <1>1, ReadCellType
<1>3. y \in Nat /\ m \in 1 .. 12
  BY ColumnFacts
<1>4. p \in Nat /\ a \in Nat
  BY DEF Cost
<1>5. c = [name |-> row.name, recurring |-> row.recurring, year |-> y, quarter |-> 0, month |-> m,
           plan |-> p, actual |-> a, inflated |-> FALSE]
  BY DEF ReadCell
<1> HIDE DEF y, m, p, a, c
<1>6. /\ c.name = row.name /\ c.recurring = row.recurring /\ c.year = y /\ c.quarter = 0
      /\ c.month = m /\ c.plan = p /\ c.actual = a /\ c.inflated = FALSE
  BY <1>5
<1>7. a # Unset
  BY <1>4 DEF Unset
<1>8. c \in Plain
  BY <1>2, <1>3, <1>6, <1>7 DEF Plain
<1>9. KeyOf(c) = <<row.recurring, y, 0, m>>
  BY <1>6 DEF KeyOf
<1>10. QED
  BY <1>6, <1>8, <1>9 DEF c, y, m, p, a

LEMMA ParsedRowFacts ==
  ASSUME NEW years, NEW from, NEW n, YearsFrom(years, from, n), NEW row \in Cost(12 * n)
  PROVE  /\ ParsedRow(row, years) \in Seq(Line) /\ Single(ParsedRow(row, years))
         /\ ToSet(ParsedRow(row, years)) \subseteq Plain \cap Something
         /\ \A r \in ToSet(ParsedRow(row, years)) :
              \E k \in 1 .. 12 * n : r = ReadCell(row, years, k) /\ ~IsNothing(r)
         /\ \A k \in 1 .. 12 * n :
              ~IsNothing(ReadCell(row, years, k)) => ReadCell(row, years, k) \in ToSet(ParsedRow(row, years))
         /\ Planned(ParsedRow(row, years)) = Total(row.plan)
<1> DEFINE N == 12 * n
           V == 1 .. N
           S == {k \in V : ~IsNothing(ReadCell(row, years, k))}
           all == [k \in V |-> k]
           cols == ColumnsOf(row, years)
           rows == ParsedRow(row, years)
           plan == row.plan
<1>1. years \in Seq(Nat) /\ Len(years) = n /\ n \in Nat /\ N \in Nat
  BY DEF YearsFrom
<1>2. plan \in [V -> Nat] /\ DOMAIN plan = V /\ row \in Cost(12 * Len(years))
  BY <1>1 DEF Cost
<1>3. cols = Among(all, S)
  BY <1>2 DEF ColumnsOf
<1>4. cols \in Seq(V) /\ ToSet(cols) = S
  BY <1>1, <1>2, ColumnsOfType
<1>5. /\ rows \in Seq(Line) /\ Len(rows) = Len(cols)
      /\ \A j \in 1 .. Len(cols) : rows[j] = ReadCell(row, years, cols[j])
  BY <1>1, <1>2, ParsedRowType
<1>6. \A k \in V : /\ ReadCell(row, years, k) \in Plain /\ ReadCell(row, years, k).plan = plan[k]
                   /\ KeyOf(ReadCell(row, years, k)) = <<row.recurring, YearOf(years, k), 0, MonthOf(k)>>
  BY ReadCellFacts
<1> HIDE DEF cols, rows, N, plan
<1>7. all \in Seq(V) /\ Apart(all) /\ ToSet(all) = V
  <2>1. all \in [1 .. N -> V]
    OBVIOUS
  <2>2. N \in Nat
    BY <1>1
  <2>3. DOMAIN all = 1 .. N /\ \A k \in 1 .. N : all[k] = k
    OBVIOUS
  <2>4. Apart(all)
    BY <2>3 DEF Apart
  <2> HIDE DEF all, V
  <2>5. all \in Seq(V) /\ ToSet(all) = {all[k] : k \in 1 .. N}
    BY <2>1, <2>2, ListOf
  <2>6. ToSet(all) = V
    BY <2>3, <2>5 DEF V
  <2>7. QED
    BY <2>4, <2>5, <2>6
<1> HIDE DEF all, S
<1>8. Apart(cols)
  BY <1>3, <1>7, AmongApart
<1>9. DOMAIN cols = 1 .. Len(cols) /\ DOMAIN rows = 1 .. Len(cols) /\ \A j \in 1 .. Len(cols) : cols[j] \in V /\ cols[j] \in S
  <2>1. DOMAIN cols = 1 .. Len(cols) /\ DOMAIN rows = 1 .. Len(cols)
    BY <1>4, <1>5, LenProperties
  <2>2. \A j \in 1 .. Len(cols) : cols[j] \in ToSet(cols)
    BY <1>4, ToSetType
  <2>3. QED
    BY <1>4, <2>1, <2>2 DEF S
<1>10. Single(rows)
  <2>1. SUFFICES ASSUME NEW i \in 1 .. Len(cols), NEW j \in 1 .. Len(cols), i # j
                 PROVE  KeyOf(rows[i]) # KeyOf(rows[j])
    BY <1>9 DEF Single, Apart, KeysOf
  <2> DEFINE c == cols[i]
             d == cols[j]
  <2>2. c \in V /\ d \in V /\ c # d
    BY <1>8, <1>9, <2>1 DEF Apart
  <2>3. KeyOf(rows[i]) = <<row.recurring, YearOf(years, c), 0, MonthOf(c)>>
        /\ KeyOf(rows[j]) = <<row.recurring, YearOf(years, d), 0, MonthOf(d)>>
    BY <1>5, <1>6, <1>9
  <2> HIDE DEF c, d
  <2>4. YearOf(years, c) # YearOf(years, d) \/ MonthOf(c) # MonthOf(d)
    BY <2>2, ColumnsApart DEF N
  <2>5. QED
    BY <2>3, <2>4
<1>11. ASSUME NEW r \in ToSet(rows)
       PROVE  \E k \in V : r = ReadCell(row, years, k) /\ ~IsNothing(r)
  <2>1. PICK j \in 1 .. Len(rows) : rows[j] = r
    BY <1>5, Held
  <2>2. r = ReadCell(row, years, cols[j]) /\ cols[j] \in V /\ cols[j] \in S
    BY <1>5, <1>9, <2>1
  <2>3. QED
    BY <2>2 DEF S
<1>12. ASSUME NEW k \in V, ~IsNothing(ReadCell(row, years, k))
       PROVE  ReadCell(row, years, k) \in ToSet(rows)
  <2>1. k \in ToSet(cols)
    BY <1>4, <1>12 DEF S
  <2>2. PICK j \in 1 .. Len(cols) : cols[j] = k
    BY <1>4, <2>1, Held
  <2>3. rows[j] = ReadCell(row, years, k) /\ rows[j] \in ToSet(rows)
    BY <1>5, <2>2, ToSetType
  <2>4. QED
    BY <2>3
<1>13. ToSet(rows) \subseteq Plain \cap Something
  BY <1>6, <1>11 DEF Something, Plain
<1>14. Planned(rows) = Total(plan)
  <2>1. \A k \in V : plan[k] \in Nat
    BY <1>2
  <2>2. \A k \in ToSet(all) : k \notin S => plan[k] = 0
    BY <1>6, <1>7 DEF S, IsNothing
  <2>3. Total(Along(plan, Among(all, S))) = Total(Along(plan, all))
    <3> HIDE DEF V
    <3>1. all \in Seq(V)
      BY <1>7
    <3>2. QED
      BY <2>1, <2>2, <3>1, TotalAmong
  <2>4. Along(plan, all) = plan
    BY <1>2 DEF Along, all
  <2>5. Along(plan, cols) = [j \in 1 .. Len(cols) |-> plan[cols[j]]]
    BY <1>4, AlongShape
  <2>6. Along(PlanOfLine, rows) = [j \in 1 .. Len(cols) |-> PlanOfLine[rows[j]]]
    BY <1>5, AlongShape
  <2>7. ASSUME NEW j \in 1 .. Len(cols) PROVE PlanOfLine[rows[j]] = plan[cols[j]]
    <3>1. rows[j] \in Line /\ rows[j].plan = plan[cols[j]]
      BY <1>5, <1>6, <1>9, ElementOfSeq
    <3>2. QED
      BY <1>5, <3>1, PlannedAlong
  <2>8. Along(PlanOfLine, rows) = Along(plan, cols)
    BY <2>5, <2>6, <2>7
  <2>9. QED
    BY <1>3, <1>5, <2>3, <2>4, <2>8, PlannedAlong
<1>15. QED
  BY <1>5, <1>10, <1>11, <1>12, <1>13, <1>14 DEF rows, plan, N

LEMMA FlattenElements ==
  ASSUME NEW V, NEW ss \in Seq(Seq(V))
  PROVE  \A x : x \in ToSet(FlattenSeq(ss)) <=> \E k \in 1 .. Len(ss) : x \in ToSet(ss[k])
<1> DEFINE Has(u) == \A x : x \in ToSet(FlattenSeq(u)) <=> \E k \in 1 .. Len(u) : x \in ToSet(u[k])
           P == {u \in Seq(Seq(V)) : Has(u)}
<1>1. << >> \in P
  <2>1. << >> \in Seq(Seq(V)) /\ Len(<< >>) = 0 /\ << >> \in Seq(V)
    OBVIOUS
  <2>2. FlattenSeq(<< >>) = << >> /\ ToSet(<< >>) = {}
    BY <2>1, FlattenEmpty, ToSetType
  <2>3. Has(<< >>)
    BY <2>1, <2>2
  <2>4. QED
    BY <2>1, <2>3
<1>2. ASSUME NEW u \in Seq(Seq(V)), NEW e \in Seq(V), u \in P PROVE Append(u, e) \in P
  <2> DEFINE n == Len(u)
             t == Append(u, e)
             F == FlattenSeq(u)
  <2>1. n \in Nat /\ t \in Seq(Seq(V)) /\ Len(t) = n + 1 /\ t[n + 1] = e /\ \A k \in 1 .. n : t[k] = u[k]
    BY LenProperties, AppendProperties
  <2>2. F \in Seq(V) /\ FlattenSeq(t) = F \o e
    BY FlattenType, FlattenAppend
  <2>3. \A x : x \in ToSet(F) <=> \E k \in 1 .. n : x \in ToSet(u[k])
    BY <1>2
  <2> HIDE DEF n, t, F
  <2>4. ToSet(F \o e) = ToSet(F) \cup ToSet(e)
    BY <2>2, ToSetConcat
  <2>5. ASSUME NEW x PROVE x \in ToSet(FlattenSeq(t)) <=> \E k \in 1 .. Len(t) : x \in ToSet(t[k])
    <3>1. x \in ToSet(FlattenSeq(t)) <=> x \in ToSet(F) \/ x \in ToSet(e)
      BY <2>2, <2>4
    <3>2. \A k : k \in 1 .. Len(t) <=> k \in 1 .. n \/ k = n + 1
      BY <2>1
    <3>3. (\E k \in 1 .. Len(t) : x \in ToSet(t[k])) <=> (\E k \in 1 .. n : x \in ToSet(u[k])) \/ x \in ToSet(e)
      BY <2>1, <3>2
    <3>4. QED
      BY <2>3, <3>1, <3>3
  <2>6. Has(t)
    BY <2>5
  <2>7. QED
    BY <2>1, <2>6 DEF t
<1> HIDE DEF P
<1>3. ss \in P
  <2> DEFINE W == Seq(V)
  <2>1. << >> \in P /\ \A u \in Seq(W), e \in W : u \in P => Append(u, e) \in P
    BY <1>1, <1>2
  <2>2. ss \in Seq(W)
    OBVIOUS
  <2> HIDE DEF W
  <2>3. QED
    BY <2>1, <2>2, SequenceInduction
<1>4. QED
  BY <1>3 DEF P

\* Lists of lines with keys of their own, none with a key of another's.
Disjoint(ss) ==
  /\ \A k \in 1 .. Len(ss) : Single(ss[k])
  /\ \A i, j \in 1 .. Len(ss) :
       i # j => \A q \in ToSet(ss[i]), r \in ToSet(ss[j]) : KeyOf(q) # KeyOf(r)

LEMMA FlattenSingle ==
  ASSUME NEW ss \in Seq(Seq(Line)), Disjoint(ss)
  PROVE  Single(FlattenSeq(ss))
<1> DEFINE W == Seq(Line)
           P == {u \in Seq(W) : Disjoint(u) => Single(FlattenSeq(u))}
<1>1. << >> \in P
  <2>1. << >> \in Seq(W)
    OBVIOUS
  <2>2. QED
    BY <2>1, FlattenEmpty, SingleEmpty
<1>2. ASSUME NEW u \in Seq(W), NEW e \in W, u \in P PROVE Append(u, e) \in P
  <2> DEFINE n == Len(u)
             t == Append(u, e)
             F == FlattenSeq(u)
  <2>1. n \in Nat /\ t \in Seq(W) /\ Len(t) = n + 1 /\ t[n + 1] = e /\ \A k \in 1 .. n : t[k] = u[k]
    BY LenProperties, AppendProperties
  <2>2. F \in Seq(Line) /\ FlattenSeq(t) = F \o e
    BY FlattenType, FlattenAppend
  <2>3. \A x : x \in ToSet(F) <=> \E k \in 1 .. n : x \in ToSet(u[k])
    BY FlattenElements
  <2>4. SUFFICES ASSUME Disjoint(t) PROVE Single(FlattenSeq(t))
    BY <2>1
  <2>5. Disjoint(u) => Single(F)
    BY <1>2
  <2> HIDE DEF t, F
  <2>6. \A k \in 1 .. n : k \in 1 .. Len(t) /\ k # n + 1
    BY <2>1
  <2>7. n + 1 \in 1 .. Len(t)
    BY <2>1
  <2>8. Disjoint(u)
    BY <2>1, <2>4, <2>6 DEF Disjoint
  <2>9. Single(e)
    BY <2>1, <2>4, <2>7 DEF Disjoint
  <2>10. ASSUME NEW q \in ToSet(F), NEW r \in ToSet(e) PROVE KeyOf(q) # KeyOf(r)
    <3>1. PICK k \in 1 .. n : q \in ToSet(t[k])
      BY <2>1, <2>3
    <3>2. k \in 1 .. Len(t) /\ k # n + 1 /\ r \in ToSet(t[n + 1])
      BY <2>1, <2>6
    <3>3. QED
      BY <2>4, <2>7, <3>1, <3>2 DEF Disjoint
  <2>11. Single(F \o e)
    BY <2>2, <2>5, <2>8, <2>9, <2>10, SingleConcat
  <2>12. QED
    BY <2>2, <2>11
<1> HIDE DEF P
<1>3. ss \in P
  <2>1. << >> \in P /\ \A u \in Seq(W), e \in W : u \in P => Append(u, e) \in P
    BY <1>1, <1>2
  <2>2. ss \in Seq(W)
    OBVIOUS
  <2> HIDE DEF W
  <2>3. QED
    BY <2>1, <2>2, SequenceInduction
<1>4. QED
  BY <1>3 DEF P

-------------------------------------------------------------------------------
(* What is read of an export *)

GroupRow(rows, years, g) == CostRow(g, OfGroup(rows, g), years)

\* The lines of each row of the file.
Reread(rows, years) ==
  [k \in 1 .. Len(Groups(rows)) |-> ParsedRow(GroupRow(rows, years, Groups(rows)[k]), years)]

LEMMA WorkbookLines ==
  ASSUME NEW b \in Initiative, NEW of \in Books
  PROVE  LET f == Workbook(b, of)
             rows == Listed(b.lines)
             years == ExportYears(b)
         IN  /\ IsExported(f) /\ f.window = b.window /\ f.benefits = b.benefits
             /\ f.format = "alchemist"
             /\ Reread(rows, years) \in Seq(Seq(Line)) /\ Len(Reread(rows, years)) = Len(Groups(rows))
             /\ ParsedLines(f) = FlattenSeq(Reread(rows, years))
             /\ ParsedLines(f) \in Seq(Line)
<1> DEFINE f == Workbook(b, of)
           rows == Listed(b.lines)
           years == ExportYears(b)
           costs == CostRows(rows, years)
           gs == Groups(rows)
<1>1. IsExported(f)
  BY WorkbookFileType
<1>2. rows \in Seq(Line)
  BY ListedType DEF Initiative
<1>3. f = [format |-> "alchemist", of |-> of, valid |-> TRUE, rag |-> "",
           window |-> b.window, years |-> years,
           costs |-> costs, benefits |-> b.benefits,
           updates |-> UpdateRows(b.updates), items |-> ItemRows(b.items)]
  BY DEF Workbook
<1> HIDE DEF f, rows, years, costs, gs
<1>4. /\ f.window = b.window /\ f.benefits = b.benefits /\ f.format = "alchemist"
      /\ f.years = years /\ f.costs = costs
  BY <1>3
<1>5. /\ ParsedRows(f) \in Seq(Seq(Line)) /\ Len(ParsedRows(f)) = Len(f.costs)
      /\ \A k \in 1 .. Len(f.costs) : ParsedRows(f)[k] = ParsedRow(f.costs[k], f.years)
      /\ ParsedLines(f) = FlattenSeq(ParsedRows(f)) /\ ParsedLines(f) \in Seq(Line)
  BY <1>1, ParsedRowsType
<1>6. Len(costs) = Len(gs) /\ \A k \in 1 .. Len(gs) : costs[k] = GroupRow(rows, years, gs[k])
  BY <1>2, CostRowsType DEF costs, gs, GroupRow
<1> DEFINE R == ParsedRows(f)
<1>7. R = Reread(rows, years) /\ Len(R) = Len(gs)
  <2> HIDE DEF R
  <2>1. R \in Seq(Seq(Line)) /\ Len(R) = Len(gs)
    BY <1>4, <1>5, <1>6 DEF R
  <2>2. \A k \in 1 .. Len(gs) : R[k] = ParsedRow(GroupRow(rows, years, gs[k]), years)
    BY <1>4, <1>5, <1>6 DEF R
  <2>3. R = [k \in 1 .. Len(gs) |-> R[k]]
    <3> DEFINE W == Seq(Line)
    <3>1. R \in Seq(W)
      BY <2>1
    <3> HIDE DEF W
    <3>2. QED
      BY <2>1, <3>1, LenProperties
  <2>4. QED
    BY <2>1, <2>2, <2>3 DEF Reread, gs
<1>8. QED
  BY <1>1, <1>4, <1>5, <1>7 DEF f, rows, years, gs

LEMMA RoundedWhole ==
  ASSUME NEW a \in Nat
  PROVE  Rounded(12 * a) = a
<1> DEFINE t == 12 * a
<1>1. t \div 12 = a /\ t % 12 = 0
  OBVIOUS
<1> HIDE DEF t
<1>2. QED
  BY <1>1 DEF Rounded, t

Shares(group, lane, y, m) ==
  [k \in 1 .. Len(group) |-> Share(group[k], InLane(group[k], lane), y, m)]

LEMMA TwelfthsTerms ==
  ASSUME NEW group \in Seq(Line), NEW lane \in Lanes, NEW y, NEW m
  PROVE  /\ Twelfths(group, lane, y, m) = Total(Shares(group, lane, y, m))
         /\ Shares(group, lane, y, m) \in [1 .. Len(group) -> Nat]
<1>1. DOMAIN group = 1 .. Len(group) /\ \A k \in 1 .. Len(group) : group[k] \in Line
  BY LenProperties, ElementOfSeq
<1>2. \A k \in 1 .. Len(group) : Share(group[k], InLane(group[k], lane), y, m) \in Nat
  BY <1>1, InLaneType, ShareType
<1>3. QED
  BY <1>1, <1>2 DEF Twelfths, Shares

\* A month in which no line has a share.
LEMMA CellOfNone ==
  ASSUME NEW group \in Seq(Line), NEW lane \in Lanes, NEW y, NEW m,
         \A r \in ToSet(group) : Share(r, InLane(r, lane), y, m) = 0
  PROVE  Rounded(Twelfths(group, lane, y, m)) = 0
<1> DEFINE n == Len(group)
           terms == Shares(group, lane, y, m)
<1>1. n \in Nat /\ \A k \in 1 .. n : group[k] \in ToSet(group)
  BY LenProperties, ToSetType
<1>2. Twelfths(group, lane, y, m) = Total(terms) /\ terms \in [1 .. n -> Nat]
  BY TwelfthsTerms
<1>3. \A k \in 1 .. n : terms[k] = 0
  BY <1>1 DEF Shares
<1> HIDE DEF terms, n
<1>4. Twelfths(group, lane, y, m) = 12 * 0
  BY <1>1, <1>2, <1>3, TotalNone
<1>5. QED
  BY <1>4, RoundedWhole

\* A month of one line.
LEMMA CellOfOne ==
  ASSUME NEW group \in Seq(Line), Single(group), ToSet(group) \subseteq Plain,
         \A q, s \in ToSet(group) : q.recurring = s.recurring,
         NEW lane \in Lanes, NEW r \in ToSet(group)
  PROVE  Rounded(Twelfths(group, lane, r.year, r.month)) = InLane(r, lane)
<1> DEFINE n == Len(group)
           y == r.year
           m == r.month
           a == InLane(r, lane)
           terms == Shares(group, lane, y, m)
<1>1. n \in Nat /\ DOMAIN group = 1 .. n /\ \A k \in 1 .. n : group[k] \in ToSet(group)
  BY LenProperties, ToSetType
<1>2. Twelfths(group, lane, y, m) = Total(terms) /\ terms \in [1 .. n -> Nat]
  BY TwelfthsTerms
<1>3. PICK p \in 1 .. n : group[p] = r
  BY Held
<1>4. a \in Nat /\ 12 * a \in Nat
  <2>1. r \in Line
    BY Held
  <2>2. a \in Nat
    BY <2>1, InLaneType
  <2> HIDE DEF a
  <2>3. QED
    BY <2>2
<1>5. ASSUME NEW k \in 1 .. n PROVE terms[k] = IF k = p THEN 12 * a ELSE 0
  <2> DEFINE q == group[k]
  <2>1. q \in ToSet(group) /\ q \in Plain /\ r \in Plain
    BY <1>1
  <2>2. q.month # 0 /\ r.month # 0 /\ q.quarter = 0 /\ r.quarter = 0
    BY <2>1 DEF Plain
  <2>3. CASE k = p
    <3>1. q = r
      BY <1>3, <2>3
    <3>2. terms[k] = Share(q, InLane(q, lane), y, m)
      BY DEF Shares
    <3>3. QED
      BY <2>2, <2>3, <3>1, <3>2 DEF Share
  <2>4. CASE k # p
    <3>1. KeyOf(q) # KeyOf(r)
      BY <1>1, <1>3, <2>4 DEF Single, Apart, KeysOf
    <3>2. q.recurring = r.recurring
      BY <2>1
    <3>3. q.year # r.year \/ q.month # r.month
      BY <2>2, <3>1, <3>2 DEF KeyOf
    <3>4. Share(q, InLane(q, lane), y, m) = 0
      BY <2>2, <3>3 DEF Share
    <3>5. terms[k] = Share(q, InLane(q, lane), y, m)
      BY DEF Shares
    <3>6. QED
      BY <2>4, <3>4, <3>5
  <2>5. QED
    BY <2>3, <2>4
<1> HIDE DEF a, y, m, terms, n
<1>6. terms = [k \in 1 .. n |-> IF k = p THEN 12 * a ELSE 0]
  BY <1>2, <1>5
<1> DEFINE z == 12 * a
<1>7. z \in Nat
  BY <1>4
<1> HIDE DEF z
<1>8. p \in Nat \ {0} /\ p <= n
  BY <1>1
<1>9. Total([k \in 1 .. n |-> IF k = p THEN z ELSE 0]) = z
  BY <1>1, <1>7, <1>8, TotalOne
<1>10. Twelfths(group, lane, y, m) = 12 * a
  BY <1>2, <1>6, <1>9 DEF z
<1>11. Rounded(12 * a) = a
  BY <1>4, RoundedWhole
<1>12. QED
  BY <1>10, <1>11 DEF a, y, m

LEMMA GroupRowFacts ==
  ASSUME NEW years, NEW from, NEW n, YearsFrom(years, from, n), NEW rows \in Seq(Line),
         NEW g \in Nat \X BOOLEAN
  PROVE  LET row == GroupRow(rows, years, g)
             group == OfGroup(rows, g)
         IN  /\ row \in Cost(12 * n) /\ row.name = g[1] /\ row.recurring = g[2]
             /\ group \in Seq(Line) /\ ToSet(group) = {r \in ToSet(rows) : GroupOf(r) = g}
             /\ \A r \in ToSet(group) : r \in Line /\ r.name = g[1] /\ r.recurring = g[2]
             /\ \A k \in 1 .. 12 * n :
                  /\ row.plan[k] = Rounded(Twelfths(group, "plan", YearOf(years, k), MonthOf(k)))
                  /\ row.actual[k] = Rounded(Twelfths(group, "actual", YearOf(years, k), MonthOf(k)))
<1> DEFINE row == GroupRow(rows, years, g)
           group == OfGroup(rows, g)
<1>1. years \in Seq(Nat) /\ Len(years) = n
  BY DEF YearsFrom
<1>2. group \in Seq(Line) /\ ToSet(group) = {r \in ToSet(rows) : GroupOf(r) = g}
  BY OfGroupType
<1>3. \A r \in ToSet(group) : r \in Line /\ r.name = g[1] /\ r.recurring = g[2]
  <2>1. ToSet(rows) \subseteq Line
    BY ToSetType
  <2>2. QED
    BY <1>2, <2>1 DEF GroupOf
<1> HIDE DEF group
<1>4. row \in Cost(12 * n)
  BY <1>1, <1>2, CostRowType DEF GroupRow, group
<1>5. row = [name |-> g[1], recurring |-> g[2],
             plan |-> Cells(group, "plan", years), actual |-> Cells(group, "actual", years)]
  BY DEF GroupRow, CostRow, group
<1> HIDE DEF row
<1>6. /\ row.name = g[1] /\ row.recurring = g[2] /\ row.plan = Cells(group, "plan", years)
      /\ row.actual = Cells(group, "actual", years)
  BY <1>5
<1>7. ASSUME NEW lane, NEW k \in 1 .. 12 * n
      PROVE  Cells(group, lane, years)[k] = Rounded(Twelfths(group, lane, YearOf(years, k), MonthOf(k)))
  BY <1>1 DEF Cells
<1>8. QED
  BY <1>2, <1>3, <1>4, <1>6, <1>7 DEF row, group

\* Lines an import wrote, all in the n years from the first one of the file.
Canonical(rows, from, n) ==
  /\ rows \in Seq(Line) /\ Single(rows)
  /\ ToSet(rows) \subseteq Plain /\ ToSet(rows) \subseteq Something
  /\ \A r \in ToSet(rows) : from <= r.year /\ r.year <= from + n - 1

\* What is read of the row of a group is what the group had.
LEMMA RowReread ==
  ASSUME NEW years, NEW from, NEW n, YearsFrom(years, from, n), NEW rows, Canonical(rows, from, n),
         NEW g \in Nat \X BOOLEAN
  PROVE  ToSet(ParsedRow(GroupRow(rows, years, g), years)) = {r \in ToSet(rows) : GroupOf(r) = g}
<1> DEFINE row == GroupRow(rows, years, g)
           group == OfGroup(rows, g)
           read == ParsedRow(row, years)
           Cell(k) == ReadCell(row, years, k)
<1>0. /\ rows \in Seq(Line) /\ Single(rows)
      /\ ToSet(rows) \subseteq Plain /\ ToSet(rows) \subseteq Something
      /\ \A r \in ToSet(rows) : from <= r.year /\ r.year <= from + n - 1
  BY DEF Canonical
<1>1. /\ row \in Cost(12 * n) /\ row.name = g[1] /\ row.recurring = g[2]
      /\ group \in Seq(Line) /\ ToSet(group) = {r \in ToSet(rows) : GroupOf(r) = g}
      /\ \A r \in ToSet(group) : r \in Line /\ r.name = g[1] /\ r.recurring = g[2]
      /\ \A k \in 1 .. 12 * n :
           /\ row.plan[k] = Rounded(Twelfths(group, "plan", YearOf(years, k), MonthOf(k)))
           /\ row.actual[k] = Rounded(Twelfths(group, "actual", YearOf(years, k), MonthOf(k)))
  <2>1. rows \in Seq(Line)
    BY <1>0
  <2>2. QED
    BY <2>1, GroupRowFacts
<1>2. Single(group)
  BY <1>0, SingleAmong DEF OfGroup
<1>3. \A q, s \in ToSet(group) : q.recurring = s.recurring
  BY <1>1
<1>4. ToSet(group) \subseteq Plain /\ ToSet(group) \subseteq Something
  BY <1>0, <1>1
<1> HIDE DEF row, group
<1>5. /\ \A r \in ToSet(read) : \E k \in 1 .. 12 * n : r = Cell(k) /\ ~IsNothing(r)
      /\ \A k \in 1 .. 12 * n : ~IsNothing(Cell(k)) => Cell(k) \in ToSet(read)
  BY <1>1, ParsedRowFacts
<1>6. \A k \in 1 .. 12 * n : Cell(k) \in Plain /\ Cell(k).plan = row.plan[k] /\ Cell(k).actual = row.actual[k]
  BY <1>1, ReadCellFacts
<1> HIDE DEF read
\* The cell of a line's month is the line.
<1>7. ASSUME NEW r \in ToSet(group), NEW k \in 1 .. 12 * n, YearOf(years, k) = r.year, MonthOf(k) = r.month
      PROVE  Cell(k) = r
  <2>1. r \in Line /\ r \in Plain /\ r.name = g[1] /\ r.recurring = g[2]
    BY <1>1, <1>4
  <2>2. Rounded(Twelfths(group, "plan", r.year, r.month)) = InLane(r, "plan")
    BY <1>1, <1>2, <1>3, <1>4, CellOfOne DEF Lanes
  <2>3. Rounded(Twelfths(group, "actual", r.year, r.month)) = InLane(r, "actual")
    BY <1>1, <1>2, <1>3, <1>4, CellOfOne DEF Lanes
  <2>4. InLane(r, "plan") = r.plan /\ InLane(r, "actual") = r.actual
    BY <2>1 DEF InLane, Plain
  <2>5. row.plan[k] = r.plan /\ row.actual[k] = r.actual
    BY <1>1, <1>7, <2>2, <2>3, <2>4
  <2>6. Cell(k) = [name |-> r.name, recurring |-> r.recurring, year |-> r.year, quarter |-> 0,
                   month |-> r.month, plan |-> r.plan, actual |-> r.actual, inflated |-> FALSE]
    BY <1>1, <1>7, <2>1, <2>5 DEF ReadCell
  <2>7. r.quarter = 0 /\ r.inflated = FALSE
    BY <2>1 DEF Plain, Line
  <2>8. r = [name |-> r.name, recurring |-> r.recurring, year |-> r.year, quarter |-> r.quarter,
             month |-> r.month, plan |-> r.plan, actual |-> r.actual, inflated |-> r.inflated]
    BY <2>1 DEF Line
  <2>9. QED
    BY <2>6, <2>7, <2>8
<1>8. ASSUME NEW r \in ToSet(group) PROVE r \in ToSet(read)
  <2> DEFINE k == 12 * (r.year - from) + r.month
  <2>1. r \in Line /\ r \in Plain /\ r \in Something /\ r \in ToSet(rows)
    BY <1>1, <1>4
  <2>2. r.year \in Nat /\ r.month \in 1 .. 12 /\ from <= r.year /\ r.year <= from + n - 1
    BY <1>0, <2>1 DEF Line, Plain
  <2> DEFINE y == r.year
             m == r.month
             c == 12 * (y - from) + m
  <2> HIDE DEF y, m
  <2>9. y \in Nat /\ m \in 1 .. 12 /\ from <= y /\ y <= from + n - 1
    BY <2>2 DEF y, m
  <2>10. c \in 1 .. 12 * n /\ YearOf(years, c) = y /\ MonthOf(c) = m
    BY <2>9, ColumnOf
  <2>3. k \in 1 .. 12 * n /\ YearOf(years, k) = r.year /\ MonthOf(k) = r.month
    BY <2>10 DEF y, m
  <2> HIDE DEF k
  <2>4. Cell(k) = r
    BY <1>7, <2>3
  <2>5. ~IsNothing(r)
    BY <2>1 DEF Something
  <2> HIDE DEF Cell
  <2>6. QED
    BY <1>5, <2>3, <2>4, <2>5
<1>9. ASSUME NEW x \in ToSet(read) PROVE x \in ToSet(group)
  <2>1. PICK k \in 1 .. 12 * n : x = Cell(k) /\ ~IsNothing(x)
    BY <1>5
  <2>2. SUFFICES ASSUME \A r \in ToSet(group) : ~(r.year = YearOf(years, k) /\ r.month = MonthOf(k))
                 PROVE  FALSE
    BY <1>7, <2>1
  <2>3. ASSUME NEW r \in ToSet(group), NEW a PROVE Share(r, a, YearOf(years, k), MonthOf(k)) = 0
    <3>1. r.month # 0
      BY <1>4 DEF Plain
    <3>2. QED
      BY <2>2, <3>1 DEF Share
  <2>4. Rounded(Twelfths(group, "plan", YearOf(years, k), MonthOf(k))) = 0
    BY <1>1, <2>3, CellOfNone DEF Lanes
  <2>5. Rounded(Twelfths(group, "actual", YearOf(years, k), MonthOf(k))) = 0
    BY <1>1, <2>3, CellOfNone DEF Lanes
  <2>6. Cell(k).plan = 0 /\ Cell(k).actual = 0
    BY <1>1, <1>6, <2>4, <2>5
  <2> HIDE DEF Cell
  <2>7. IsNothing(Cell(k))
    BY <2>6 DEF IsNothing
  <2>8. QED
    BY <2>1, <2>7
<1>10. ToSet(read) = ToSet(group)
  BY <1>8, <1>9
<1>11. QED
  BY <1>1, <1>10 DEF read, row

\* An export of plain lines, read again, has these lines.
LEMMA LinesReread ==
  ASSUME NEW years, NEW from, NEW n, YearsFrom(years, from, n), NEW rows, Canonical(rows, from, n),
         Reread(rows, years) \in Seq(Seq(Line))
  PROVE  /\ ToSet(FlattenSeq(Reread(rows, years))) = ToSet(rows)
         /\ Single(FlattenSeq(Reread(rows, years)))
<1> DEFINE R == Reread(rows, years)
           gs == Groups(rows)
           N == Len(gs)
           F == FlattenSeq(R)
<1>0. /\ rows \in Seq(Line) /\ Single(rows)
  BY DEF Canonical
<1>1. gs \in Seq(Nat \X BOOLEAN) /\ Differ(gs) /\ ToSet(gs) = {GroupOf(r) : r \in ToSet(rows)}
  BY <1>0, GroupsType
<1> HIDE DEF gs
<1>2. N \in Nat /\ (\A k \in 1 .. N : gs[k] \in Nat \X BOOLEAN) /\ ToSet(gs) = {gs[k] : k \in 1 .. N}
  <2> DEFINE V == Nat \X BOOLEAN
  <2>1. gs \in Seq(V)
    BY <1>1
  <2> HIDE DEF V
  <2>2. N \in Nat /\ (\A k \in 1 .. N : gs[k] \in V) /\ ToSet(gs) = {gs[k] : k \in 1 .. N}
    BY <2>1, LenProperties, ElementOfSeq, ToSetType
  <2>3. QED
    BY <2>2 DEF V
<1>3. R = [k \in 1 .. N |-> ParsedRow(GroupRow(rows, years, gs[k]), years)]
  BY DEF Reread, gs
<1> HIDE DEF N
<1>4. R \in Seq(Seq(Line)) /\ Len(R) = N /\ \A k \in 1 .. N : R[k] = ParsedRow(GroupRow(rows, years, gs[k]), years)
  <2>1. Len(R) = N
    BY <1>2, <1>3
  <2>2. QED
    BY <1>3, <2>1
<1> HIDE DEF R
<1>5. ASSUME NEW k \in 1 .. N
      PROVE  /\ ToSet(R[k]) = {r \in ToSet(rows) : GroupOf(r) = gs[k]}
             /\ Single(R[k])
  <2> DEFINE g == gs[k]
  <2>1. g \in Nat \X BOOLEAN
    BY <1>2
  <2> HIDE DEF g
  <2>2. ToSet(ParsedRow(GroupRow(rows, years, g), years)) = {r \in ToSet(rows) : GroupOf(r) = g}
    BY <2>1, RowReread
  <2>3. GroupRow(rows, years, g) \in Cost(12 * n)
    BY <1>0, <2>1, GroupRowFacts
  <2>4. Single(ParsedRow(GroupRow(rows, years, g), years))
    BY <2>3, ParsedRowFacts
  <2>5. QED
    BY <1>4, <2>2, <2>4 DEF g
<1>6. \A x : x \in ToSet(F) <=> \E k \in 1 .. N : x \in ToSet(R[k])
  BY <1>4, FlattenElements
<1> HIDE DEF F
<1>7. ToSet(F) = ToSet(rows)
  <2>1. ASSUME NEW x \in ToSet(rows) PROVE x \in ToSet(F)
    <3>1. PICK k \in 1 .. N : gs[k] = GroupOf(x)
      BY <1>1, <1>2
    <3>2. x \in ToSet(R[k])
      BY <1>5, <3>1
    <3>3. QED
      BY <1>6, <3>2
  <2>2. ASSUME NEW x \in ToSet(F) PROVE x \in ToSet(rows)
    BY <1>5, <1>6
  <2>3. QED
    BY <2>1, <2>2
<1>8. ASSUME NEW i \in 1 .. N, NEW j \in 1 .. N, i # j, NEW q \in ToSet(R[i]), NEW r \in ToSet(R[j])
      PROVE  KeyOf(q) # KeyOf(r)
  <2>1. q \in ToSet(rows) /\ r \in ToSet(rows) /\ GroupOf(q) = gs[i] /\ GroupOf(r) = gs[j]
    BY <1>5
  <2>2. gs[i] # gs[j]
    BY <1>1, <1>8 DEF Differ, N
  <2>3. q # r
    BY <2>1, <2>2
  <2>4. QED
    BY <1>0, <2>1, <2>3, SingleElements
<1>9. Disjoint(R)
  BY <1>4, <1>5, <1>8 DEF Disjoint
<1>10. Single(F)
  BY <1>4, <1>9, FlattenSingle DEF F
<1>11. QED
  BY <1>7, <1>10 DEF F, R

-------------------------------------------------------------------------------
(* What an import of the initiative's own export leaves *)

LEMMA ParsedPlain ==
  ASSUME NEW b \in Initiative, NEW of \in Books
  PROVE  /\ ParsedLines(Workbook(b, of)) \in Seq(Line)
         /\ ToSet(ParsedLines(Workbook(b, of))) \subseteq Plain
         /\ ToSet(ParsedLines(Workbook(b, of))) \subseteq Something
<1> DEFINE f == Workbook(b, of)
           rows == Listed(b.lines)
           years == ExportYears(b)
           gs == Groups(rows)
           R == Reread(rows, years)
<1>1. R \in Seq(Seq(Line)) /\ Len(R) = Len(gs) /\ ParsedLines(f) = FlattenSeq(R) /\ ParsedLines(f) \in Seq(Line)
  BY WorkbookLines
<1>2. rows \in Seq(Line)
  BY ListedType DEF Initiative
<1>3. PICK from, n \in Nat : YearsFrom(years, from, n)
  BY ExportYearsFacts
<1>4. \A k \in 1 .. Len(gs) : R[k] = ParsedRow(GroupRow(rows, years, gs[k]), years)
  BY DEF Reread
<1> HIDE DEF rows, years, R
<1>5. \A k \in 1 .. Len(gs) : gs[k] \in Nat \X BOOLEAN
  BY <1>2, GroupsType, ElementOfSeq
<1> HIDE DEF gs
<1>6. ASSUME NEW k \in 1 .. Len(gs) PROVE ToSet(R[k]) \subseteq Plain \cap Something
  <2> DEFINE g == gs[k]
  <2>1. g \in Nat \X BOOLEAN
    BY <1>5
  <2> HIDE DEF g
  <2>2. GroupRow(rows, years, g) \in Cost(12 * n)
    BY <1>2, <1>3, <2>1, GroupRowFacts
  <2>3. ToSet(ParsedRow(GroupRow(rows, years, g), years)) \subseteq Plain \cap Something
    BY <1>3, <2>2, ParsedRowFacts
  <2>4. QED
    BY <1>4, <2>3 DEF g
<1>7. \A x : x \in ToSet(FlattenSeq(R)) <=> \E k \in 1 .. Len(R) : x \in ToSet(R[k])
  BY <1>1, FlattenElements
<1>8. QED
  BY <1>1, <1>6, <1>7

LEMMA PlacedAnyway ==
  ASSUME NEW w \in PlannedPeriods, NEW rows \in Seq(Line), ToSet(rows) \subseteq Plain
  PROVE  /\ Placed(w, rows) \in Seq(Line) /\ ToSet(Placed(w, rows)) \subseteq Plain
         /\ w # NoPeriod => ToSet(Placed(w, rows)) \subseteq Staying(w)
         /\ Planned(Placed(w, rows)) = Planned(rows)
<1>1. CASE w = NoPeriod
  BY <1>1 DEF Placed
<1>2. CASE w # NoPeriod
  BY <1>2, PlacedFacts
<1>3. QED
  BY <1>1, <1>2

LEMMA PlainPrepared ==
  ASSUME inflation = "manual_entry", NEW rows \in Seq(Line), ToSet(rows) \subseteq Plain
  PROVE  Prepared(rows) = rows /\ Asking(rows) = rows /\ ~IsRefused(rows)
<1>1. \A r \in ToSet(rows) : ~r.inflated
  BY DEF Plain
<1>2. Asking(rows) = rows
  <2>1. /\ Asking(rows) \in Seq(Line) /\ Len(Asking(rows)) = Len(rows)
        /\ \A k \in 1 .. Len(rows) :
             Asking(rows)[k] = [rows[k] EXCEPT !.inflated = rows[k].recurring
                                                            /\ inflation \in {"default_on", "default_fixed"}]
    BY AskingType
  <2>2. ASSUME NEW k \in 1 .. Len(rows) PROVE Asking(rows)[k] = rows[k]
    <3> DEFINE r == rows[k]
               v == r.recurring /\ inflation \in {"default_on", "default_fixed"}
    <3>1. r \in ToSet(rows)
      BY ToSetType
    <3>2. r \in Line /\ r.inflated = FALSE
      BY <3>1 DEF Plain, Line
    <3>3. v = FALSE
      BY Zenon
    <3>4. Asking(rows)[k] = [r EXCEPT !.inflated = v]
      BY <2>1
    <3> HIDE DEF r, v
    <3>5. [r EXCEPT !.inflated = FALSE] = r
      BY <3>2 DEF Line
    <3>6. QED
      BY <3>3, <3>4, <3>5 DEF r
  <2>3. QED
    BY <2>1, <2>2, SeqEqual
<1>3. QED
  BY <1>1, <1>2, PreparedType DEF IsRefused

\* Lines that were written, and have their place, are left as they are.
LEMMA MovedNot ==
  ASSUME inflation = "manual_entry", NEW b \in Initiative, Single(b.lines),
         ToSet(b.lines) \subseteq Plain, ToSet(b.lines) \subseteq Something,
         b.window # NoPeriod => ToSet(b.lines) \subseteq Staying(b.window),
         ~b.benefits
  PROVE  Moved(b).lines = b.lines /\ ~Moved(b).benefits
<1> DEFINE L == b.lines
           w == b.window
<1>1. L \in Seq(Line) /\ w \in PlannedPeriods
  BY DEF Initiative
<1>2. CASE IsSettled(b)
  BY <1>2, MovedLinesType
<1>3. CASE ~IsSettled(b)
  <2>1. w # NoPeriod
    BY <1>3 DEF IsSettled
  <2>2. Moved(b).lines = Rewritten(Placed(w, L)) /\ Moved(b).benefits = FALSE
    BY <1>3, MovedLinesType
  <2>3. Placed(w, L) = L
    BY <1>1, <2>1, PlacedSame
  <2> HIDE DEF L, w
  <2>4. Rewritten(L) = Written(<< >>, L)
    BY <1>1, PlainPrepared DEF Rewritten, L
  <2>5. Written(<< >>, L) = Among(L, Something)
    BY <1>1, WrittenSingle DEF L
  <2>6. Among(L, Something) = L
    BY <1>1, AmongAll DEF L
  <2>7. QED
    BY <2>2, <2>3, <2>4, <2>5, <2>6 DEF L
<1>4. QED
  BY <1>2, <1>3

LEMMA GridFilled ==
  ASSUME inflation = "manual_entry", NEW x \in Initiative, x.lines = << >>, x.benefits = FALSE,
         NEW f, IsFile(f), ParsedLines(f) \in Seq(Line), ToSet(ParsedLines(f)) \subseteq Plain
  PROVE  /\ Last(GridSteps(x, f)).lines
              = IF x.locked THEN << >> ELSE Written(<< >>, Placed(x.window, ParsedLines(f)))
         /\ ~Last(GridSteps(x, f)).benefits
<1> DEFINE w == x.window
           P == ParsedLines(f)
           R == Placed(w, P)
           rows == RowsFor(x, f)
           W == Written(x.lines, rows)
           y == [x EXCEPT !.lines = W]
<1>1. w \in PlannedPeriods
  BY DEF Initiative
<1>2. /\ R \in Seq(Line) /\ ToSet(R) \subseteq Plain
      /\ w # NoPeriod => ToSet(R) \subseteq Staying(w)
  BY <1>1, PlacedAnyway
<1>3. Last(GridSteps(x, f)) = Moved(y)
  BY GridStepsType
<1>4. rows = IF x.locked THEN KeepingThePlan(<< >>, R) ELSE R
  <2>1. rows = Allowed(x, Prepared(Asking(R)))
    BY DEF RowsFor
  <2> HIDE DEF R
  <2>2. Asking(R) = R /\ Prepared(R) = R
    BY <1>2, PlainPrepared
  <2>3. QED
    BY <2>1, <2>2 DEF Allowed
<1> HIDE DEF R, w, rows
<1>5. << >> \in Seq(Line)
  OBVIOUS
<1>6. W \in Seq(Line)
  <2>1. rows \in Seq(Line)
    BY <1>2, <1>4, <1>5, KeepingThePlanType
  <2>2. QED
    BY <1>5, <2>1, WrittenType
<1>7. W = Written(<< >>, rows)
  OBVIOUS
<1> HIDE DEF W
<1>8. y \in Initiative /\ SameButGrid(y, x) /\ y.lines = W /\ y.benefits = x.benefits
  BY <1>6, LinesEdit
<1> HIDE DEF y
<1>9. y.locked = x.locked /\ y.window = w
  BY <1>8 DEF SameButGrid, w
<1>10. CASE x.locked
  <2>1. rows = << >>
    BY <1>2, <1>4, <1>5, <1>10, KeepingThePlanType
  <2>2. W = << >>
    BY <1>7, <2>1, WrittenNothing
  <2>3. IsSettled(y)
    BY <1>9, <1>10 DEF IsSettled
  <2>4. Moved(y) = y
    BY <1>8, <2>3, MovedLinesType
  <2>5. QED
    BY <1>3, <1>8, <1>10, <2>2, <2>4
<1>11. CASE ~x.locked
  <2>1. rows = R
    BY <1>4, <1>11
  <2>2. Single(W) /\ ToSet(W) \subseteq ToSet(R) \cap Something
    BY <1>2, <1>7, <2>1, WrittenFacts
  <2>3. Moved(y).lines = W /\ ~Moved(y).benefits
    <3>1. ToSet(W) \subseteq Plain /\ ToSet(W) \subseteq Something
      BY <1>2, <2>2
    <3>2. y.window # NoPeriod => ToSet(W) \subseteq Staying(y.window)
      BY <1>2, <1>9, <2>2
    <3>3. QED
      BY <1>8, <2>2, <3>1, <3>2, MovedNot
  <2>4. QED
    BY <1>3, <1>7, <1>11, <2>1, <2>3 DEF R, w
<1>12. QED
  BY <1>10, <1>11

LEMMA ImportedOnce ==
  ASSUME inflation = "manual_entry", NEW b \in Initiative, NEW of \in Books, NEW user \in Authors
  PROVE  LET f == Workbook(b, of)
             last == Last(ImportSteps(b, f, user))
         IN  /\ last \in Initiative /\ last.window = b.window /\ last.locked = b.locked
             /\ NoFigures(f) => last.lines = b.lines /\ last.benefits = b.benefits
             /\ ~NoFigures(f) =>
                  /\ last.lines = IF b.locked THEN << >>
                                  ELSE Written(<< >>, Placed(b.window, ParsedLines(f)))
                  /\ ~last.benefits
<1> DEFINE f == Workbook(b, of)
           last == Last(ImportSteps(b, f, user))
           o == Overview(b, f, user)
           done == Last(FinancialSteps(o, f))
           e == Emptied(o)
<1>1. IsExported(f) /\ f.window = b.window /\ f.format = "alchemist"
  BY WorkbookLines
<1>2. ParsedLines(f) \in Seq(Line) /\ ToSet(ParsedLines(f)) \subseteq Plain
  BY ParsedPlain
<1> HIDE DEF f
<1>3. IsImportable(f) /\ IsFile(f) /\ f.updates \in Seq(BookUpdates)
  BY <1>1, ImportableFacts DEF IsImportable
<1>4. o \in Initiative /\ o.window = b.window /\ o.locked = b.locked
  BY <1>1, <1>3, OverviewType
<1>5. /\ ImportSteps(b, f, user) \in Seq(Initiative) /\ ImportSteps(b, f, user) # << >>
      /\ last = Last(UpdateSteps(done, f)) /\ done \in Initiative /\ SameButGrid(done, o)
  BY <1>3, ImportStepsType
<1>6. last \in Initiative
  BY <1>5, LastType
<1>7. SameButUpdates(Last(UpdateSteps(done, f)), done)
  BY <1>3, <1>5, UpdateStepsType
<1>8. /\ last.lines = done.lines /\ last.benefits = done.benefits
      /\ NoFigures(f) => last.lines = b.lines /\ last.benefits = b.benefits
  BY <1>1, ImportLeaves
<1>9. ~NoFigures(f) => done = Last(GridSteps(e, f))
  BY <1>1, <1>3, <1>4, FinancialStepsType
<1>10. e \in Initiative /\ SameButGrid(e, o) /\ e.lines = << >> /\ e.benefits = FALSE
  BY <1>4, EmptiedType
<1> HIDE DEF o, done, last, e
<1>11. last.window = b.window /\ last.locked = b.locked
  BY <1>4, <1>5, <1>7 DEF SameButUpdates, SameButGrid
<1>12. e.window = b.window /\ e.locked = b.locked
  BY <1>4, <1>10 DEF SameButGrid
<1>13. /\ Last(GridSteps(e, f)).lines
             = IF e.locked THEN << >> ELSE Written(<< >>, Placed(e.window, ParsedLines(f)))
       /\ ~Last(GridSteps(e, f)).benefits
  BY <1>2, <1>3, <1>10, GridFilled
<1>14. QED
  BY <1>6, <1>8, <1>9, <1>11, <1>12, <1>13 DEF f, last

\* The export of lines an import wrote, read again.
LEMMA WrittenReread ==
  ASSUME NEW x \in Initiative, NEW of \in Books, Single(x.lines),
         ToSet(x.lines) \subseteq Plain, ToSet(x.lines) \subseteq Something
  PROVE  /\ ToSet(ParsedLines(Workbook(x, of))) = ToSet(x.lines)
         /\ Single(ParsedLines(Workbook(x, of)))
<1> DEFINE rows == Listed(x.lines)
           years == ExportYears(x)
<1>1. x.lines \in Seq(Line)
  BY DEF Initiative
<1>2. PICK from, n \in Nat :
         /\ YearsFrom(years, from, n)
         /\ \A r \in ToSet(x.lines) : from <= r.year /\ r.year <= from + n - 1
  BY ExportYearsFacts
<1>3. rows \in Seq(Line) /\ ToSet(rows) = ToSet(x.lines) /\ Single(rows)
  BY <1>1, ListedType, SingleListed
<1>4. Reread(rows, years) \in Seq(Seq(Line)) /\ ParsedLines(Workbook(x, of)) = FlattenSeq(Reread(rows, years))
  BY WorkbookLines
<1> HIDE DEF rows, years
<1>5. Canonical(rows, from, n)
  BY <1>2, <1>3 DEF Canonical
<1>6. QED
  BY <1>2, <1>3, <1>4, <1>5, LinesReread

LEMMA SettledAtOnce ==
  ASSUME inflation = "manual_entry", NEW b \in Initiative, NEW of \in Books, NEW user \in Authors
  PROVE  LET once == Last(ImportSteps(b, Workbook(b, of), user))
         IN  SameLines(once, Last(ImportSteps(once, Workbook(once, of), user)))
<1> DEFINE f == Workbook(b, of)
           w == b.window
           once == Last(ImportSteps(b, f, user))
           g == Workbook(once, of)
           twice == Last(ImportSteps(once, g, user))
           P == ParsedLines(f)
           Q == ParsedLines(g)
           L == Written(<< >>, Placed(w, P))
<1>1. /\ once \in Initiative /\ once.window = w /\ once.locked = b.locked
      /\ NoFigures(f) => once.lines = b.lines /\ once.benefits = b.benefits
      /\ ~NoFigures(f) => once.lines = (IF b.locked THEN << >> ELSE L) /\ ~once.benefits
  BY ImportedOnce
<1>2. P \in Seq(Line) /\ ToSet(P) \subseteq Plain /\ f.benefits = b.benefits
  BY ParsedPlain, WorkbookLines
<1>3. P = FlattenSeq(Reread(Listed(b.lines), ExportYears(b)))
  BY WorkbookLines
<1>4. w \in PlannedPeriods
  BY DEF Initiative
<1> HIDE DEF once
<1>5. /\ twice.window = w /\ twice.locked = b.locked
      /\ NoFigures(g) => twice.lines = once.lines
      /\ ~NoFigures(g) => twice.lines = IF b.locked THEN << >> ELSE Written(<< >>, Placed(w, Q))
  BY <1>1, ImportedOnce
<1>6. Q \in Seq(Line) /\ ToSet(Q) \subseteq Plain /\ ToSet(Q) \subseteq Something /\ g.benefits = once.benefits
  BY <1>1, ParsedPlain, WorkbookLines
<1>7. Q = FlattenSeq(Reread(Listed(once.lines), ExportYears(once)))
  BY <1>1, WorkbookLines
<1> HIDE DEF twice, f, g, w
<1>8. ASSUME NoFigures(f) PROVE SameLines(once, twice)
  <2>1. once.lines = b.lines /\ once.benefits = b.benefits /\ once.window = b.window
    BY <1>1, <1>8 DEF w
  <2>2. ExportYears(once) = ExportYears(b)
    BY <2>1 DEF ExportYears
  <2>3. Q = P
    BY <1>3, <1>7, <2>1, <2>2
  <2>4. NoFigures(g)
    BY <1>2, <1>6, <1>8, <2>1, <2>3 DEF NoFigures
  <2>5. QED
    BY <1>5, <2>4 DEF SameLines
<1>9. ASSUME ~NoFigures(f) PROVE SameLines(once, twice)
  <2> DEFINE once1 == once.lines
  <2>1. /\ L \in Seq(Line) /\ Single(L) /\ ToSet(L) \subseteq Plain /\ ToSet(L) \subseteq Something
        /\ w # NoPeriod => ToSet(L) \subseteq Staying(w)
    <3>1. /\ Placed(w, P) \in Seq(Line) /\ ToSet(Placed(w, P)) \subseteq Plain
          /\ w # NoPeriod => ToSet(Placed(w, P)) \subseteq Staying(w)
      BY <1>2, <1>4, PlacedAnyway
    <3>2. L \in Seq(Line) /\ Single(L) /\ ToSet(L) \subseteq ToSet(Placed(w, P)) \cap Something
      BY <3>1, WrittenFacts
    <3>3. QED
      BY <3>1, <3>2
  <2> HIDE DEF L, P
  <2>2. << >> \in Seq(Line) /\ Single(<< >>) /\ ToSet(<< >>) = {}
    <3>1. << >> \in Seq(Line) /\ Len(<< >>) = 0
      OBVIOUS
    <3>2. ToSet(<< >>) = {}
      BY <3>1, ToSetType
    <3>3. QED
      BY <3>1, <3>2, SingleEmpty
  <2>3. /\ once1 \in Seq(Line) /\ Single(once1) /\ ToSet(once1) \subseteq Plain
        /\ ToSet(once1) \subseteq Something
        /\ w # NoPeriod => ToSet(once1) \subseteq Staying(w)
    BY <1>1, <1>9, <2>1, <2>2
  <2>4. ToSet(Q) = ToSet(once1) /\ Single(Q)
    BY <1>1, <2>3, WrittenReread DEF g
  <2> HIDE DEF once1, Q
  <2>5. CASE NoFigures(g)
    BY <1>5, <2>5 DEF SameLines
  <2>6. CASE ~NoFigures(g)
    <3>1. Q # << >>
      BY <1>1, <1>6, <1>9, <2>6 DEF NoFigures, Q
    <3>2. ~b.locked
      <4>1. SUFFICES ASSUME b.locked PROVE FALSE
        OBVIOUS
      <4>2. once1 = << >>
        BY <1>1, <1>9, <4>1 DEF once1
      <4>3. ToSet(Q) = {}
        BY <2>2, <2>4, <4>2
      <4>4. QED
        BY <1>6, <3>1, <4>3, NotEmpty DEF Q
    <3>3. Q \in Seq(Line) /\ ToSet(Q) \subseteq Plain /\ ToSet(Q) \subseteq Something
      BY <1>6 DEF Q
    <3>4. Placed(w, Q) = Q
      <4>1. CASE w = NoPeriod
        BY <4>1 DEF Placed
      <4>2. CASE w # NoPeriod
        BY <1>4, <2>3, <2>4, <3>3, <4>2, PlacedSame
      <4>3. QED
        BY <4>1, <4>2
    <3>5. Written(<< >>, Q) = Among(Q, Something) /\ Among(Q, Something) = Q
      BY <2>4, <3>3, WrittenSingle, AmongAll
    <3>6. twice.lines = Q
      BY <1>5, <2>6, <3>2, <3>4, <3>5 DEF Q
    <3>7. Len(Q) = Cardinality(ToSet(Q)) /\ Len(once1) = Cardinality(ToSet(once1))
      BY <2>3, <2>4, <3>3, SingleLength
    <3>8. QED
      BY <2>4, <3>6, <3>7 DEF SameLines, once1
  <2>7. QED
    BY <2>5, <2>6
<1>10. SameLines(once, twice)
  BY <1>8, <1>9
<1>11. QED
  BY <1>10 DEF once, twice, f, g

-------------------------------------------------------------------------------
(* Amounts that divide *)

\* q in each of the len columns after lo.
Area(q, len) == q * len

Span(n, lo, len, q) == [k \in 1 .. n |-> IF lo < k /\ k <= lo + len THEN q ELSE 0]

LEMMA TotalSpan ==
  ASSUME NEW n \in Nat, NEW lo \in Nat, NEW len \in Nat, NEW q \in Nat, lo + len <= n
  PROVE  Span(n, lo, len, q) \in [1 .. n -> Nat] /\ Total(Span(n, lo, len, q)) = Area(q, len)
<1> DEFINE P == {d \in Nat : lo + d <= n => Total(Span(n, lo, d, q)) = q * d}
<1>1. ASSUME NEW d \in Nat PROVE Span(n, lo, d, q) \in [1 .. n -> Nat]
  BY DEF Span
<1>2. 0 \in P
  <2>1. \A k \in 1 .. n : Span(n, lo, 0, q)[k] = 0
    BY DEF Span
  <2>2. Total(Span(n, lo, 0, q)) = 0
    BY <1>1, <2>1, TotalNone
  <2>3. q * 0 = 0
    OBVIOUS
  <2>4. QED
    BY <2>2, <2>3
<1>3. ASSUME NEW d \in Nat, d \in P PROVE d + 1 \in P
  <2> DEFINE f == Span(n, lo, d, q)
             p == lo + d + 1
             g == [k \in 1 .. n |-> IF k = p THEN q ELSE 0]
  <2>1. SUFFICES ASSUME lo + (d + 1) <= n PROVE Total(Span(n, lo, d + 1, q)) = q * (d + 1)
    OBVIOUS
  <2>2. lo + d <= n /\ p \in Nat \ {0} /\ p <= n
    BY <2>1
  <2>3. Total(f) = q * d
    BY <1>3, <2>2
  <2>4. f \in [1 .. n -> Nat] /\ g \in [1 .. n -> Nat]
    BY <1>1
  <2>5. Span(n, lo, d + 1, q) = [k \in 1 .. n |-> f[k] + g[k]]
    <3>1. ASSUME NEW k \in 1 .. n
          PROVE  (IF lo < k /\ k <= lo + (d + 1) THEN q ELSE 0)
                   = (IF lo < k /\ k <= lo + d THEN q ELSE 0) + (IF k = p THEN q ELSE 0)
      <4>1. k \in Nat
        OBVIOUS
      <4>2. lo < k /\ k <= lo + (d + 1) <=> (lo < k /\ k <= lo + d) \/ k = p
        BY <4>1
      <4>3. k = p => ~(k <= lo + d)
        BY <4>1
      <4>4. QED
        BY <4>2, <4>3
    <3>2. \A k \in 1 .. n : /\ f[k] = IF lo < k /\ k <= lo + d THEN q ELSE 0
                            /\ g[k] = IF k = p THEN q ELSE 0
      BY DEF Span
    <3> HIDE DEF f, g, p
    <3>3. \A k \in 1 .. n : (IF lo < k /\ k <= lo + (d + 1) THEN q ELSE 0) = f[k] + g[k]
      BY <3>1, <3>2
    <3>4. QED
      BY <3>3 DEF Span
  <2> HIDE DEF p
  <2>6. Total(g) = q
    BY <2>2, TotalOne
  <2> HIDE DEF f, g
  <2>7. Total([k \in 1 .. n |-> f[k] + g[k]]) = Total(f) + Total(g)
    BY <2>4, TotalPlus
  <2>8. q * (d + 1) = q * d + q
    OBVIOUS
  <2>9. QED
    BY <2>3, <2>5, <2>6, <2>7, <2>8
<1> HIDE DEF P
<1>4. len \in P
  BY <1>2, <1>3, Induction
<1>5. QED
  BY <1>1, <1>4 DEF P, Area

\* The columns of a line: the months it is of, and what each has of its plan.
MonthsOf(r) == IF r.month # 0 THEN 1 ELSE IF r.quarter # 0 THEN 3 ELSE 12

ColumnsBefore(r, from) ==
  12 * (r.year - from) + IF r.month # 0 THEN r.month - 1
                         ELSE IF r.quarter # 0 THEN 3 * (r.quarter - 1) ELSE 0

Divides(r) == r.plan % MonthsOf(r) = 0

Each(r) == r.plan \div MonthsOf(r)

Quotas(r, from, n) == Span(12 * n, ColumnsBefore(r, from), MonthsOf(r), Each(r))

LEMMA LineSpan ==
  ASSUME NEW from \in Nat, NEW n \in Nat, NEW r \in Line, from <= r.year, r.year <= from + n - 1,
         Divides(r)
  PROVE  /\ Quotas(r, from, n) \in [1 .. 12 * n -> Nat]
         /\ Total(Quotas(r, from, n)) = r.plan
<1> DEFINE lo == ColumnsBefore(r, from)
           len == MonthsOf(r)
           q == Each(r)
           p == r.plan
           y == r.year
           m == r.month
           t == r.quarter
<1>1. p \in Nat /\ y \in Nat /\ m \in 0 .. 12 /\ t \in 0 .. 4
  BY DEF Line
<1>2. len = (IF m # 0 THEN 1 ELSE IF t # 0 THEN 3 ELSE 12) /\ q = p \div len /\ p % len = 0
      /\ lo = 12 * (y - from) + (IF m # 0 THEN m - 1 ELSE IF t # 0 THEN 3 * (t - 1) ELSE 0)
  BY DEF MonthsOf, Each, Divides, ColumnsBefore
<1>3. from <= y /\ y <= from + n - 1
  OBVIOUS
<1> DEFINE N == 12 * n
<1> HIDE DEF lo, len, q, p, y, m, t
<1>4. len \in {1, 3, 12}
  BY <1>2
<1>5. q \in Nat /\ q * len = p
  <2>1. CASE len = 1
    BY <1>1, <1>2, <2>1
  <2>2. CASE len = 3
    BY <1>1, <1>2, <2>2
  <2>3. CASE len = 12
    BY <1>1, <1>2, <2>3
  <2>4. QED
    BY <1>4, <2>1, <2>2, <2>3
<1>6. N \in Nat /\ lo \in Nat /\ len \in Nat /\ lo + len <= N
  <2> DEFINE d == y - from
  <2>1. d \in Nat /\ d <= n - 1
    BY <1>1, <1>3
  <2>2. lo = 12 * d + (IF m # 0 THEN m - 1 ELSE IF t # 0 THEN 3 * (t - 1) ELSE 0)
    BY <1>2
  <2> HIDE DEF d
  <2>3. 12 * d + 12 <= 12 * n
    BY <2>1
  <2>4. CASE m # 0
    BY <1>1, <1>2, <2>1, <2>2, <2>3, <2>4
  <2>5. CASE m = 0 /\ t # 0
    BY <1>1, <1>2, <2>1, <2>2, <2>3, <2>5
  <2>6. CASE m = 0 /\ t = 0
    BY <1>1, <1>2, <2>1, <2>2, <2>3, <2>6
  <2>7. QED
    BY <2>4, <2>5, <2>6
<1>7. Quotas(r, from, n) = Span(N, lo, len, q)
  BY DEF Quotas, lo, len, q
<1> HIDE DEF N
<1>8. Span(N, lo, len, q) \in [1 .. N -> Nat] /\ Total(Span(N, lo, len, q)) = Area(q, len)
  <2>1. q \in Nat
    BY <1>5
  <2>2. N \in Nat
    BY <1>6
  <2>3. lo \in Nat
    BY <1>6
  <2>4. len \in Nat
    BY <1>6
  <2>5. lo + len <= N
    BY <1>6
  <2>6. QED
    BY ONLY <2>1, <2>2, <2>3, <2>4, <2>5, TotalSpan
<1>9. QED
  BY <1>5, <1>7, <1>8 DEF p, N, Area

LEMMA ShareSpan ==
  ASSUME NEW years, NEW from, NEW n, YearsFrom(years, from, n), NEW r \in Line,
         from <= r.year, r.year <= from + n - 1, Divides(r), NEW k \in 1 .. 12 * n
  PROVE  Share(r, r.plan, YearOf(years, k), MonthOf(k)) = 12 * Quotas(r, from, n)[k]
<1> DEFINE lo == ColumnsBefore(r, from)
           len == MonthsOf(r)
           q == Each(r)
           p == r.plan
           y == r.year
           m == r.month
           t == r.quarter
           Y == YearOf(years, k)
           M == MonthOf(k)
<1>1. p \in Nat /\ y \in Nat /\ m \in 0 .. 12 /\ t \in 0 .. 4
  BY DEF Line
<1>2. len = (IF m # 0 THEN 1 ELSE IF t # 0 THEN 3 ELSE 12) /\ q = p \div len /\ p % len = 0
      /\ lo = 12 * (y - from) + (IF m # 0 THEN m - 1 ELSE IF t # 0 THEN 3 * (t - 1) ELSE 0)
  BY DEF MonthsOf, Each, Divides, ColumnsBefore
<1>3. Y \in Nat /\ M \in 1 .. 12 /\ k = 12 * (Y - from) + M
  BY ColumnFacts
<1>4. Quotas(r, from, n)[k] = IF lo < k /\ k <= lo + len THEN q ELSE 0
  BY DEF Quotas, Span
<1>5. Share(r, p, Y, M)
        = IF y # Y THEN 0
          ELSE IF m # 0 THEN IF m = M THEN 12 * p ELSE 0
          ELSE IF t = 0 THEN p
          ELSE IF t = ((M - 1) \div 3) + 1 THEN 4 * p ELSE 0
  BY DEF Share
<1>6. from \in Nat /\ k \in Nat
  BY DEF YearsFrom
<1> HIDE DEF lo, len, q, p, y, m, t, Y, M
<1> DEFINE d == y - from
           D == Y - from
           v == IF lo < k /\ k <= lo + len THEN q ELSE 0
<1>7. d \in Int /\ D \in Int /\ (y = Y <=> d = D) /\ k = 12 * D + M
      /\ lo = 12 * d + (IF m # 0 THEN m - 1 ELSE IF t # 0 THEN 3 * (t - 1) ELSE 0)
  BY <1>1, <1>2, <1>3, <1>6
<1> HIDE DEF d, D
<1>8. Share(r, p, Y, M) = 12 * v
  <2>1. CASE m # 0
    <3>1. len = 1 /\ q = p /\ lo = 12 * d + (m - 1)
      BY <1>1, <1>2, <1>7, <2>1
    <3>2. lo < k /\ k <= lo + len <=> d = D /\ m = M
      BY <1>1, <1>3, <1>7, <3>1
    <3>3. CASE d = D /\ m = M
      BY <1>1, <1>5, <1>7, <2>1, <3>1, <3>2, <3>3
    <3>4. CASE ~(d = D /\ m = M)
      BY <1>1, <1>5, <1>7, <2>1, <3>1, <3>2, <3>4
    <3>5. QED
      BY <3>3, <3>4
  <2>2. CASE m = 0 /\ t # 0
    <3>1. len = 3 /\ q \in Nat /\ p = 3 * q /\ lo = 12 * d + 3 * (t - 1) /\ t \in 1 .. 4
      BY <1>1, <1>2, <1>7, <2>2
    <3>2. t = ((M - 1) \div 3) + 1 <=> 3 * (t - 1) < M /\ M <= 3 * (t - 1) + 3
      BY <1>3, <3>1
    <3>3. lo < k /\ k <= lo + len <=> d = D /\ t = ((M - 1) \div 3) + 1
      <4>1. CASE d = D
        BY <1>3, <1>7, <3>1, <3>2, <4>1
      <4>2. CASE d < D
        BY <1>3, <1>7, <3>1, <4>2
      <4>3. CASE d > D
        BY <1>3, <1>7, <3>1, <4>3
      <4>4. QED
        BY <1>7, <4>1, <4>2, <4>3
    <3>4. CASE d = D /\ t = ((M - 1) \div 3) + 1
      BY <1>5, <1>7, <2>2, <3>1, <3>3, <3>4
    <3>5. CASE ~(d = D /\ t = ((M - 1) \div 3) + 1)
      BY <1>5, <1>7, <2>2, <3>1, <3>3, <3>5
    <3>6. QED
      BY <3>4, <3>5
  <2>3. CASE m = 0 /\ t = 0
    <3>1. len = 12 /\ q \in Nat /\ p = 12 * q /\ lo = 12 * d
      BY <1>1, <1>2, <1>7, <2>3
    <3>2. lo < k /\ k <= lo + len <=> d = D
      BY <1>3, <1>7, <3>1
    <3>3. CASE d = D
      BY <1>5, <1>7, <2>3, <3>1, <3>2, <3>3
    <3>4. CASE d # D
      BY <1>5, <1>7, <2>3, <3>1, <3>2, <3>4
    <3>5. QED
      BY <3>3, <3>4
  <2>4. QED
    BY <2>1, <2>2, <2>3
<1>9. QED
  BY <1>4, <1>8 DEF p, Y, M, v

PlanCells(group, years, n) ==
  [k \in 1 .. 12 * n |-> Rounded(Twelfths(group, "plan", YearOf(years, k), MonthOf(k)))]

\* The cells of a group's plan have what its lines have.
LEMMA GroupPlan ==
  ASSUME NEW years, NEW from, NEW n, YearsFrom(years, from, n), NEW group \in Seq(Line),
         \A r \in ToSet(group) : from <= r.year /\ r.year <= from + n - 1 /\ Divides(r)
  PROVE  Total(PlanCells(group, years, n)) = Planned(group)
<1> DEFINE N == 12 * n
           len == Len(group)
           F == [j \in 1 .. len |-> Quotas(group[j], from, n)]
           column(k) == [j \in 1 .. len |-> F[j][k]]
<1>1. n \in Nat /\ from \in Nat /\ N \in Nat
  BY DEF YearsFrom
<1>2. len \in Nat /\ \A j \in 1 .. len : group[j] \in ToSet(group) /\ group[j] \in Line
  BY LenProperties, ToSetType, ElementOfSeq
<1>3. ASSUME NEW j \in 1 .. len
      PROVE  Quotas(group[j], from, n) \in [1 .. N -> Nat] /\ Total(Quotas(group[j], from, n)) = group[j].plan
  <2> DEFINE r == group[j]
  <2>1. r \in Line /\ from <= r.year /\ r.year <= from + n - 1 /\ Divides(r)
    BY <1>2
  <2> HIDE DEF r
  <2>2. QED
    BY <1>1, <2>1, LineSpan DEF r
<1>4. F \in [1 .. len -> [1 .. N -> Nat]] /\ \A j \in 1 .. len : Total(F[j]) = group[j].plan
  BY <1>3
<1>5. ASSUME NEW k \in 1 .. N PROVE column(k) \in [1 .. len -> Nat]
  BY <1>4
<1>6. ASSUME NEW k \in 1 .. N
      PROVE  Rounded(Twelfths(group, "plan", YearOf(years, k), MonthOf(k))) = Total(column(k))
  <2> DEFINE y == YearOf(years, k)
             m == MonthOf(k)
             c == column(k)
  <2>1. c \in [1 .. len -> Nat]
    BY <1>5
  <2>2. ASSUME NEW j \in 1 .. len PROVE Share(group[j], InLane(group[j], "plan"), y, m) = 12 * c[j]
    <3> DEFINE r == group[j]
    <3>1. r \in Line /\ from <= r.year /\ r.year <= from + n - 1 /\ Divides(r)
      BY <1>2
    <3>2. InLane(r, "plan") = r.plan
      BY DEF InLane
    <3>3. c[j] = Quotas(r, from, n)[k]
      OBVIOUS
    <3> HIDE DEF r, c
    <3>4. Share(r, r.plan, y, m) = 12 * Quotas(r, from, n)[k]
      BY <3>1, ShareSpan
    <3>5. QED
      BY <3>2, <3>3, <3>4 DEF r
  <2> HIDE DEF y, m, c
  <2>3. Twelfths(group, "plan", y, m) = Total(Shares(group, "plan", y, m))
    BY TwelfthsTerms DEF Lanes
  <2>4. Shares(group, "plan", y, m) = [j \in 1 .. len |-> 12 * c[j]]
    BY <2>2 DEF Shares
  <2>5. Total([j \in 1 .. len |-> 12 * c[j]]) = 12 * Total(c) /\ Total(c) \in Nat
    BY <1>2, <2>1, TotalTimes, TotalOf
  <2> DEFINE total == Total(c)
  <2> HIDE DEF total
  <2>6. total \in Nat
    BY <2>5 DEF total
  <2>7. Twelfths(group, "plan", y, m) = 12 * total
    BY <2>3, <2>4, <2>5 DEF total
  <2>8. Rounded(12 * total) = total
    BY <2>6, RoundedWhole
  <2>9. QED
    BY <2>7, <2>8 DEF total, y, m, c
<1>7. Total([j \in 1 .. len |-> Total(F[j])]) = Total([k \in 1 .. N |-> Total(column(k))])
  <2> HIDE DEF F, len, N
  <2>1. QED
    BY <1>1, <1>2, <1>4, TotalSwap
<1>8. PlanCells(group, years, n) = [k \in 1 .. N |-> Total(column(k))]
  <2> HIDE DEF column
  <2>1. QED
    BY <1>6 DEF PlanCells
<1>9. [j \in 1 .. len |-> Total(F[j])] = Along(PlanOfLine, group)
  <2> HIDE DEF F
  <2>1. Along(PlanOfLine, group) = [j \in 1 .. len |-> PlanOfLine[group[j]]]
    BY AlongShape
  <2>2. \A j \in 1 .. len : PlanOfLine[group[j]] = group[j].plan
    BY <1>2, PlannedAlong
  <2>3. QED
    BY <1>4, <2>1, <2>2
<1>10. QED
  BY <1>7, <1>8, <1>9, PlannedAlong

\* The row of a group, read again, has the plan of its lines.
LEMMA GroupParsed ==
  ASSUME NEW years, NEW from, NEW n, YearsFrom(years, from, n), NEW rows \in Seq(Line),
         NEW g \in Nat \X BOOLEAN,
         \A r \in ToSet(rows) : from <= r.year /\ r.year <= from + n - 1 /\ Divides(r)
  PROVE  /\ ParsedRow(GroupRow(rows, years, g), years) \in Seq(Line)
         /\ Planned(ParsedRow(GroupRow(rows, years, g), years))
              = Planned(Among(rows, {r \in Line : GroupOf(r) = g}))
<1> DEFINE row == GroupRow(rows, years, g)
           group == OfGroup(rows, g)
<1>1. /\ row \in Cost(12 * n)
      /\ group \in Seq(Line) /\ ToSet(group) = {r \in ToSet(rows) : GroupOf(r) = g}
      /\ \A c \in 1 .. 12 * n :
           row.plan[c] = Rounded(Twelfths(group, "plan", YearOf(years, c), MonthOf(c)))
  BY GroupRowFacts
<1>2. \A r \in ToSet(group) : from <= r.year /\ r.year <= from + n - 1 /\ Divides(r)
  BY <1>1
<1>3. group = Among(rows, {r \in Line : GroupOf(r) = g})
  <2>1. ToSet(rows) \subseteq Line
    BY ToSetType
  <2>2. ToSet(rows) \cap {r \in ToSet(rows) : GroupOf(r) = g} = ToSet(rows) \cap {r \in Line : GroupOf(r) = g}
    BY <2>1
  <2>3. QED
    BY <2>2, AmongSame DEF OfGroup
<1> HIDE DEF row, group
<1>4. row.plan = PlanCells(group, years, n)
  <2>1. row.plan \in [1 .. 12 * n -> Nat]
    BY <1>1 DEF Cost
  <2>2. QED
    BY <1>1, <2>1 DEF PlanCells
<1>5. Total(PlanCells(group, years, n)) = Planned(group)
  BY <1>1, <1>2, GroupPlan
<1>6. ParsedRow(row, years) \in Seq(Line) /\ Planned(ParsedRow(row, years)) = Total(row.plan)
  BY <1>1, ParsedRowFacts
<1>7. QED
  BY <1>3, <1>4, <1>5, <1>6 DEF row

\* An export of amounts that divide loses none of the plan.
LEMMA ExactlyParsed ==
  ASSUME NEW b \in Initiative, NEW of \in Books, \A r \in ToSet(b.lines) : Divides(r)
  PROVE  Planned(ParsedLines(Workbook(b, of))) = Planned(b.lines)
<1> DEFINE rows == Listed(b.lines)
           years == ExportYears(b)
           gs == Groups(rows)
           N == Len(gs)
           R == Reread(rows, years)
           V == Nat \X BOOLEAN
<1>1. b.lines \in Seq(Line)
  BY DEF Initiative
<1>2. PICK from, n \in Nat :
         /\ YearsFrom(years, from, n)
         /\ \A r \in ToSet(b.lines) : from <= r.year /\ r.year <= from + n - 1
  BY ExportYearsFacts
<1>3. rows \in Seq(Line) /\ ToSet(rows) = ToSet(b.lines) /\ Planned(rows) = Planned(b.lines)
  BY <1>1, ListedType, PlannedListed
<1>4. R \in Seq(Seq(Line)) /\ Len(R) = N /\ ParsedLines(Workbook(b, of)) = FlattenSeq(R)
  BY WorkbookLines
<1>5. \A k \in 1 .. N : R[k] = ParsedRow(GroupRow(rows, years, gs[k]), years)
  BY DEF Reread
<1> HIDE DEF rows, years, R
<1>6. gs \in Seq(V) /\ Differ(gs) /\ ToSet(gs) = {GroupOf(r) : r \in ToSet(rows)}
  BY <1>3, GroupsType
<1> HIDE DEF gs
<1>7. N \in Nat /\ DOMAIN gs = 1 .. N /\ \A k \in 1 .. N : gs[k] \in V
  <2> HIDE DEF V
  <2>1. QED
    BY <1>6, LenProperties, ElementOfSeq
<1>8. Apart(gs)
  BY <1>6, <1>7 DEF Apart, Differ
<1>9. ASSUME NEW k \in 1 .. N
      PROVE  /\ R[k] \in Seq(Line)
             /\ Planned(R[k]) = Planned(Among(rows, {r \in Line : GroupOf(r) = gs[k]}))
  <2> DEFINE g == gs[k]
  <2>1. g \in Nat \X BOOLEAN
    BY <1>7
  <2>2. \A r \in ToSet(rows) : from <= r.year /\ r.year <= from + n - 1 /\ Divides(r)
    BY <1>2, <1>3
  <2> HIDE DEF g
  <2>3. /\ ParsedRow(GroupRow(rows, years, g), years) \in Seq(Line)
        /\ Planned(ParsedRow(GroupRow(rows, years, g), years))
             = Planned(Among(rows, {r \in Line : GroupOf(r) = g}))
    BY <1>2, <1>3, <2>1, <2>2, GroupParsed
  <2>4. QED
    BY <1>5, <2>3 DEF g
<1>10. Planned(FlattenSeq(R)) = Total(Along(CostOfRows, R))
  BY <1>4, PlannedFlatten
<1> DEFINE C == [r \in Line |-> GroupOf(r)]
           Of(j) == {r \in Line : C[r] = gs[j]}
           Parts == [j \in 1 .. N |-> Planned(Among(rows, Of(j)))]
<1>11. \A j \in 1 .. N : Of(j) = {r \in Line : GroupOf(r) = gs[j]}
  OBVIOUS
<1>12. \A r \in ToSet(rows) : C[r] \in ToSet(gs)
  <2>1. ToSet(rows) \subseteq Line
    BY <1>3, ToSetType
  <2>2. \A r \in Line : C[r] = GroupOf(r)
    OBVIOUS
  <2> HIDE DEF C
  <2>3. QED
    BY <1>6, <2>1, <2>2
<1> HIDE DEF C
<1>13. Total(Parts) = Planned(rows)
  <2>1. gs \in Seq(V)
    BY <1>6
  <2> HIDE DEF V
  <2>2. Total([j \in 1 .. Len(gs) |-> Planned(Among(rows, {r \in Line : C[r] = gs[j]}))]) = Planned(rows)
    <3>1. rows \in Seq(Line)
      BY <1>3
    <3>2. QED
      BY <3>1, <1>8, <1>12, <2>1, PlannedByClass, SMTT(60)
  <2>3. QED
    BY <2>2
<1> HIDE DEF Of
<1>14. Along(CostOfRows, R) = Parts
  <2>1. Along(CostOfRows, R) = [j \in 1 .. N |-> CostOfRows[R[j]]]
    <3> DEFINE W == Seq(Line)
    <3>1. R \in Seq(W)
      BY <1>4
    <3> HIDE DEF W
    <3>2. QED
      BY <1>4, <3>1, AlongShape
  <2>2. \A j \in 1 .. N : CostOfRows[R[j]] = Planned(R[j])
    BY <1>9 DEF CostOfRows
  <2>3. \A j \in 1 .. N : CostOfRows[R[j]] = Planned(Among(rows, Of(j)))
    BY <1>9, <1>11, <2>2
  <2>4. QED
    BY <2>1, <2>3
<1>15. QED
  BY <1>3, <1>4, <1>10, <1>13, <1>14

\* What is read of the row of a group is of its kind, in a year of one of its lines.
LEMMA RowSays ==
  ASSUME NEW years, NEW from, NEW n, YearsFrom(years, from, n), NEW rows \in Seq(Line),
         NEW g \in Nat \X BOOLEAN, NEW q \in ToSet(ParsedRow(GroupRow(rows, years, g), years))
  PROVE  q.recurring = g[2] /\ \E x \in ToSet(rows) : GroupOf(x) = g /\ x.year = q.year
<1> DEFINE row == GroupRow(rows, years, g)
           group == OfGroup(rows, g)
<1>1. /\ row \in Cost(12 * n) /\ row.recurring = g[2]
      /\ group \in Seq(Line) /\ ToSet(group) = {r \in ToSet(rows) : GroupOf(r) = g}
      /\ \A k \in 1 .. 12 * n :
           /\ row.plan[k] = Rounded(Twelfths(group, "plan", YearOf(years, k), MonthOf(k)))
           /\ row.actual[k] = Rounded(Twelfths(group, "actual", YearOf(years, k), MonthOf(k)))
  BY GroupRowFacts
<1> HIDE DEF row, group
<1>2. \A r \in ToSet(ParsedRow(row, years)) :
        \E k \in 1 .. 12 * n : r = ReadCell(row, years, k) /\ ~IsNothing(r)
  BY <1>1, ParsedRowFacts
<1>3. PICK k \in 1 .. 12 * n : q = ReadCell(row, years, k) /\ ~IsNothing(q)
  BY <1>2 DEF row
<1> DEFINE y == YearOf(years, k)
           m == MonthOf(k)
<1>4. q.recurring = g[2] /\ q.plan = row.plan[k] /\ q.actual = row.actual[k] /\ q.year = y
  <2>1. KeyOf(q) = <<row.recurring, y, 0, m>> /\ q.recurring = row.recurring
        /\ q.plan = row.plan[k] /\ q.actual = row.actual[k]
    BY <1>1, <1>3, ReadCellFacts
  <2>2. q.year = y
    BY <2>1 DEF KeyOf
  <2>3. QED
    BY <1>1, <2>1, <2>2
<1>5. row.plan[k] = Rounded(Twelfths(group, "plan", y, m)) /\ row.actual[k] = Rounded(Twelfths(group, "actual", y, m))
  BY <1>1
<1> HIDE DEF y, m
<1>6. \E x \in ToSet(group) : x.year = y
  <2>1. SUFFICES ASSUME \A x \in ToSet(group) : x.year # y PROVE FALSE
    OBVIOUS
  <2>2. ASSUME NEW x \in ToSet(group), NEW a PROVE Share(x, a, y, m) = 0
    BY <2>1 DEF Share
  <2>3. Rounded(Twelfths(group, "plan", y, m)) = 0
    BY <1>1, <2>2, CellOfNone DEF Lanes
  <2>4. Rounded(Twelfths(group, "actual", y, m)) = 0
    BY <1>1, <2>2, CellOfNone DEF Lanes
  <2>5. q.plan = 0 /\ q.actual = 0
    BY <1>4, <1>5, <2>3, <2>4
  <2>6. QED
    BY <1>3, <2>5 DEF IsNothing
<1>7. QED
  BY <1>1, <1>4, <1>6

\* Lines of two names have no kind and year in common.
NamesApart(lines) ==
  \A r, s \in ToSet(lines) : r.name # s.name => r.recurring # s.recurring \/ r.year # s.year

\* The rows of these lines are read as lines of different keys.
LEMMA SingleParsed ==
  ASSUME NEW b \in Initiative, NEW of \in Books, NamesApart(b.lines)
  PROVE  Single(ParsedLines(Workbook(b, of)))
<1> DEFINE rows == Listed(b.lines)
           years == ExportYears(b)
           gs == Groups(rows)
           N == Len(gs)
           R == Reread(rows, years)
           V == Nat \X BOOLEAN
<1>1. b.lines \in Seq(Line)
  BY DEF Initiative
<1>2. PICK from, n \in Nat : YearsFrom(years, from, n)
  BY ExportYearsFacts
<1>3. rows \in Seq(Line) /\ ToSet(rows) = ToSet(b.lines)
  BY <1>1, ListedType
<1>4. R \in Seq(Seq(Line)) /\ Len(R) = N /\ ParsedLines(Workbook(b, of)) = FlattenSeq(R)
  BY WorkbookLines
<1>5. \A k \in 1 .. N : R[k] = ParsedRow(GroupRow(rows, years, gs[k]), years)
  BY DEF Reread
<1> HIDE DEF rows, years, R
<1>6. gs \in Seq(V) /\ Differ(gs)
  BY <1>3, GroupsType
<1> HIDE DEF gs
<1>7. N \in Nat /\ \A k \in 1 .. N : gs[k] \in V
  <2> HIDE DEF V
  <2>1. QED
    BY <1>6, LenProperties, ElementOfSeq
<1>8. ASSUME NEW k \in 1 .. N
      PROVE  /\ Single(R[k])
             /\ \A q \in ToSet(R[k]) : /\ q.recurring = gs[k][2]
                                       /\ \E x \in ToSet(rows) : GroupOf(x) = gs[k] /\ x.year = q.year
  <2> DEFINE g == gs[k]
             row == GroupRow(rows, years, g)
  <2>1. g \in Nat \X BOOLEAN /\ rows \in Seq(Line) /\ YearsFrom(years, from, n)
    BY <1>2, <1>3, <1>7
  <2> HIDE DEF g
  <2>2. row \in Cost(12 * n)
    BY <2>1, GroupRowFacts
  <2>3. \A q \in ToSet(ParsedRow(row, years)) :
          q.recurring = g[2] /\ \E x \in ToSet(rows) : GroupOf(x) = g /\ x.year = q.year
    BY <2>1, RowSays
  <2> HIDE DEF row
  <2>4. Single(ParsedRow(row, years))
    BY <2>1, <2>2, ParsedRowFacts
  <2>5. QED
    BY <1>5, <2>3, <2>4 DEF g, row
<1>9. ASSUME NEW i \in 1 .. N, NEW j \in 1 .. N, i # j, NEW q \in ToSet(R[i]), NEW r \in ToSet(R[j])
      PROVE  KeyOf(q) # KeyOf(r)
  <2>1. SUFFICES ASSUME KeyOf(q) = KeyOf(r) PROVE FALSE
    OBVIOUS
  <2>2. q.recurring = r.recurring /\ q.year = r.year
    BY <2>1 DEF KeyOf
  <2>3. PICK x \in ToSet(rows) : GroupOf(x) = gs[i] /\ x.year = q.year
    BY <1>8
  <2>4. PICK z \in ToSet(rows) : GroupOf(z) = gs[j] /\ z.year = r.year
    BY <1>8
  <2>5. gs[i] # gs[j]
    BY <1>6, <1>9 DEF Differ
  <2>6. q.recurring = gs[i][2] /\ r.recurring = gs[j][2]
    BY <1>8
  <2>7. x.recurring = z.recurring /\ x.year = z.year /\ x.name # z.name
    <3>1. gs[i] = <<x.name, x.recurring>> /\ gs[j] = <<z.name, z.recurring>>
      BY <2>3, <2>4 DEF GroupOf
    <3>2. gs[i][2] = x.recurring /\ gs[j][2] = z.recurring
      BY <3>1
    <3>3. x.recurring = z.recurring /\ x.year = z.year
      BY <2>2, <2>3, <2>4, <2>6, <3>2
    <3>4. QED
      BY <2>5, <3>1, <3>3
  <2>8. QED
    BY <1>3, <2>7 DEF NamesApart
<1>10. Disjoint(R)
  BY <1>4, <1>8, <1>9 DEF Disjoint
<1>11. QED
  BY <1>4, <1>10, FlattenSingle

\* An exact plan is kept to the dollar.
LEMMA ExactPlanStays ==
  ASSUME inflation = "manual_entry", NEW b \in Initiative, NEW of \in Books, NEW user \in Authors,
         ~b.locked, IsExact(b)
  PROVE  Planned(Last(ImportSteps(b, Workbook(b, of), user)).lines) = Planned(b.lines)
<1> DEFINE f == Workbook(b, of)
           w == b.window
           P == ParsedLines(f)
           L == Placed(w, P)
           last == Last(ImportSteps(b, f, user))
<1>1. /\ NoFigures(f) => last.lines = b.lines
      /\ ~NoFigures(f) => last.lines = Written(<< >>, L)
  BY ImportedOnce
<1>2. P \in Seq(Line) /\ ToSet(P) \subseteq Plain
  BY ParsedPlain
<1>3. w \in PlannedPeriods
  BY DEF Initiative
<1>4. L \in Seq(Line) /\ Planned(L) = Planned(P)
  BY <1>2, <1>3, PlacedAnyway
<1>5. Planned(P) = Planned(b.lines)
  <2>1. \A r \in ToSet(b.lines) : Divides(r)
    BY DEF IsExact, Divides, MonthsOf
  <2>2. QED
    BY <2>1, ExactlyParsed
<1>6. Single(L)
  <2>1. ASSUME w = NoPeriod PROVE Single(L)
    <3>1. NamesApart(b.lines)
      BY <2>1 DEF IsExact, NamesApart
    <3>2. Single(P)
      BY <3>1, SingleParsed
    <3>3. QED
      BY <2>1, <3>2 DEF Placed
  <2>2. ASSUME w # NoPeriod PROVE Single(L)
    BY <1>2, <1>3, <2>2, PlacedFacts
  <2>3. QED
    BY <2>1, <2>2
<1> HIDE DEF last, f, L
<1>7. Planned(Written(<< >>, L)) = Planned(L)
  BY <1>4, <1>6, WrittenPlanned
<1>8. QED
  BY <1>1, <1>4, <1>5, <1>7 DEF last, f

\* What ReimportSettles says of one state.
LEMMA TypedSettles ==
  ASSUME WorkbookTypeOK
  PROVE  ReimportSettles
<1>1. SUFFICES ASSUME NEW of \in Books, NEW user \in Authors,
                      book[of].live, inflation = "manual_entry",
                      sheet = Workbook(book[of], of)
               PROVE  Settles(book[of], Last(ImportSteps(book[of], sheet, user)), of, user)
  BY DEF ReimportSettles
<1> DEFINE b == book[of]
           once == Last(ImportSteps(b, sheet, user))
<1>2. b \in Initiative
  BY DEF WorkbookTypeOK
<1> HIDE DEF b
<1>3. SameLines(once, Last(ImportSteps(once, Workbook(once, of), user)))
  BY <1>1, <1>2, SettledAtOnce DEF b
<1>4. (~b.locked /\ IsExact(b)) => Planned(once.lines) = Planned(b.lines)
  <2>1. ASSUME ~b.locked, IsExact(b) PROVE Planned(once.lines) = Planned(b.lines)
    <3> HIDE DEF once
    <3>1. once = Last(ImportSteps(b, Workbook(b, of), user))
      BY <1>1 DEF once, b
    <3>2. QED
      BY <1>1, <1>2, <2>1, <3>1, ExactPlanStays
  <2>2. QED
    BY <2>1
<1>5. QED
  BY <1>3, <1>4 DEF Settles, b

\* Importing an initiative's export into it settles at once, whatever its lines,
\* its period and its updates: no later round of export and import changes a cost
\* line, and a plan whose amounts divide keeps its planned cost to the dollar
\* (build_initiative_export against import_into_existing_initiative).
THEOREM ReimportsSettle == WorkbookSpec => []ReimportSettles
  BY WorkbookTyped, TypedSettles, PTL
===============================================================================
