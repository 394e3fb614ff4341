--------------------------- MODULE PlanData_proofs ---------------------------
(* Proofs about PlanData.tla, for every calendar, amounts, planned periods and
   requests.  The lines of a grid are sequences and what is computed from them is
   recursive; the provers take no induction over data, so that induction over
   numbers and over sequences is first proved, for sets instead of predicates,
   from the fact that a non-empty set of numbers has a least one. *)
EXTENDS PlanData, FiniteSetTheorems, SequenceTheorems, TLAPS

-------------------------------------------------------------------------------
(* Induction and recursion *)

LEMMA Induction ==
  ASSUME NEW P, 0 \in P, \A n \in Nat : n \in P => n + 1 \in P
  PROVE  \A n \in Nat : n \in P
<1> DEFINE R == {ss \in Nat \X Nat : ss[1] < ss[2]}
           T == Nat \ P
<1> SUFFICES ASSUME T # {} PROVE FALSE
  OBVIOUS
<1>1. IsWellFoundedOn(R, Nat)
  BY NatLessThanWellFounded DEF OpToRel
<1>2. PICK x \in T : \A y \in T : ~ (<<y, x>> \in R)
  <2> HIDE DEF R
  <2>1. T \subseteq Nat
    OBVIOUS
  <2>2. QED
    BY <1>1, <2>1, WFMin
<1>3. x \in Nat /\ x \notin P /\ x # 0
  OBVIOUS
<1>4. x - 1 \in Nat /\ x - 1 < x /\ (x - 1) + 1 = x
  BY <1>3
<1>5. x - 1 \in P
  BY <1>2, <1>3, <1>4
<1>6. QED
  BY <1>3, <1>4, <1>5

\* Every step of a recursion over 1 .. n can be taken.
Steps(n, V) == [1 .. n -> [V -> V]]

Takes(F, n, V, b, h) ==
  F \in [0 .. n -> V] /\ F[0] = b /\ \A k \in 1 .. n : F[k] = h[k][F[k - 1]]

LEMMA Recursion ==
  ASSUME NEW n \in Nat, NEW V, NEW b \in V, NEW h \in Steps(n, V)
  PROVE  \E F : Takes(F, n, V, b, h)
<1> DEFINE Good(i, F) == F[0] = b /\ \A k \in 1 .. i : F[k] = h[k][F[k - 1]]
           P == {i \in Nat : i <= n => \E F \in [0 .. i -> V] : Good(i, F)}
<1>1. 0 \in P
  <2>1. [k \in 0 .. 0 |-> b] \in [0 .. 0 -> V] /\ Good(0, [k \in 0 .. 0 |-> b])
    OBVIOUS
  <2>2. QED
    BY <2>1
<1>2. ASSUME NEW i \in Nat, i \in P PROVE i + 1 \in P
  <2>1. SUFFICES ASSUME i + 1 <= n PROVE \E F \in [0 .. i + 1 -> V] : Good(i + 1, F)
    OBVIOUS
  <2>2. PICK F \in [0 .. i -> V] : Good(i, F)
    BY <1>2, <2>1
  <2> DEFINE G == [k \in 0 .. i + 1 |-> IF k = i + 1 THEN h[i + 1][F[i]] ELSE F[k]]
  <2>3. F[i] \in V /\ h[i + 1] \in [V -> V]
    BY <2>1 DEF Steps
  <2>4. h[i + 1][F[i]] \in V
    BY <2>3
  <2>5. G \in [0 .. i + 1 -> V]
    BY <2>4
  <2>6. G[0] = b
    BY <2>2
  <2>7. ASSUME NEW k \in 1 .. i + 1 PROVE G[k] = h[k][G[k - 1]]
    <3>1. k - 1 \in 0 .. i /\ k - 1 # i + 1 /\ G[k - 1] = F[k - 1]
      OBVIOUS
    <3>2. CASE k = i + 1
      <4>1. G[k] = h[k][F[k - 1]]
        BY <3>2
      <4>2. QED
        BY <3>1, <4>1
    <3>3. CASE k # i + 1
      <4>1. k \in 1 .. i /\ G[k] = F[k]
        BY <3>3
      <4>2. QED
        BY <3>1, <4>1, <2>2
    <3>4. QED
      BY <3>2, <3>3
  <2>8. QED
    BY <2>5, <2>6, <2>7
<1> HIDE DEF P
<1>3. n \in P
  BY <1>1, <1>2, Induction
<1>4. QED
  BY <1>3 DEF P, Takes

\* Two recursions that take the same steps agree.
StepAlike(F, G, n) ==
  F[0] = G[0] /\ \A k \in 1 .. n : F[k - 1] = G[k - 1] => F[k] = G[k]

LEMMA Agreement ==
  ASSUME NEW n \in Nat, NEW F, NEW G, StepAlike(F, G, n)
  PROVE  \A k \in 0 .. n : F[k] = G[k]
<1> DEFINE P == {i \in Nat : i <= n => F[i] = G[i]}
<1>1. 0 \in P
  BY DEF StepAlike
<1>2. ASSUME NEW i \in Nat, i \in P PROVE i + 1 \in P
  <2>1. SUFFICES ASSUME i + 1 <= n PROVE F[i + 1] = G[i + 1]
    OBVIOUS
  <2>2. i + 1 \in 1 .. n /\ (i + 1) - 1 = i /\ F[i] = G[i]
    BY <1>2, <2>1
  <2>3. QED
    BY <2>2 DEF StepAlike
<1> HIDE DEF P
<1>3. \A i \in Nat : i \in P
  BY <1>1, <1>2, Induction
<1>4. QED
  BY <1>3 DEF P

LEMMA SequenceInduction ==
  ASSUME NEW V, NEW P, << >> \in P,
         \A s \in Seq(V), e \in V : s \in P => Append(s, e) \in P
  PROVE  \A s \in Seq(V) : s \in P
<1> DEFINE Q == {n \in Nat : \A s \in Seq(V) : Len(s) = n => s \in P}
<1>1. 0 \in Q
  <2>1. \A s \in Seq(V) : Len(s) = 0 => s = << >>
    BY EmptySeq
  <2>2. QED
    BY <2>1
<1>2. ASSUME NEW n \in Nat, n \in Q PROVE n + 1 \in Q
  <2>1. SUFFICES ASSUME NEW s \in Seq(V), Len(s) = n + 1 PROVE s \in P
    OBVIOUS
  <2>2. s # << >>
    BY <2>1
  <2>3. PICK t \in Seq(V) : \E e \in V : s = Append(t, e)
    BY <2>2, SequenceEmptyOrAppend
  <2>4. PICK e \in V : s = Append(t, e)
    BY <2>3
  <2>5. Len(t) = n
    BY <2>1, <2>4, AppendProperties, LenProperties
  <2>6. t \in P
    BY <2>5, <1>2
  <2>7. QED
    BY <2>4, <2>6
<1> HIDE DEF Q
<1>3. \A n \in Nat : n \in Q
  BY <1>1, <1>2, Induction
<1>4. QED
  BY <1>3, LenProperties DEF Q

-------------------------------------------------------------------------------
(* The rows of a sequence that are in a set *)

\* The recursion that Among takes.
AmongSteps(F, V, s, S) ==
  /\ F \in [0 .. Len(s) -> Seq(V)]
  /\ F[0] = << >>
  /\ \A k \in 1 .. Len(s) : F[k] = IF s[k] \in S THEN Append(F[k - 1], s[k]) ELSE F[k - 1]

LEMMA AmongRecursion ==
  ASSUME NEW V, NEW s \in Seq(V), NEW S
  PROVE  \E F : AmongSteps(F, V, s, S) /\ Among(s, S) = F[Len(s)]
<1> DEFINE n == Len(s)
           Next1(k, v) == IF s[k] \in S THEN Append(v, s[k]) ELSE v
           h == [k \in 1 .. n |-> [v \in Seq(V) |-> Next1(k, v)]]
           Body(g) == [k \in 0 .. n |-> IF k = 0 THEN << >>
                                        ELSE IF s[k] \in S THEN Append(g[k - 1], s[k])
                                             ELSE g[k - 1]]
           G == CHOOSE g : g = Body(g)
<1>1. n \in Nat /\ << >> \in Seq(V)
  BY LenProperties
<1>2. \A k \in 1 .. n : \A v \in Seq(V) : Next1(k, v) \in Seq(V)
  <2>1. SUFFICES ASSUME NEW k \in 1 .. n, NEW v \in Seq(V) PROVE Next1(k, v) \in Seq(V)
    OBVIOUS
  <2>2. s[k] \in V
    BY ElementOfSeq
  <2>3. QED
    BY <2>2, AppendProperties
<1>3. h \in [1 .. n -> [Seq(V) -> Seq(V)]]
  BY <1>2
<1>4. PICK F \in [0 .. n -> Seq(V)] : F[0] = << >> /\ \A k \in 1 .. n : F[k] = h[k][F[k - 1]]
  <2>1. h \in Steps(n, Seq(V))
    BY <1>3 DEF Steps
  <2> HIDE DEF h, n
  <2>2. \E F : Takes(F, n, Seq(V), << >>, h)
    BY <1>1, <2>1, Recursion
  <2>3. QED
    BY <2>2 DEF Takes
<1>5. ASSUME NEW k \in 1 .. n
      PROVE  F[k] = IF s[k] \in S THEN Append(F[k - 1], s[k]) ELSE F[k - 1]
  <2>1. k - 1 \in 0 .. n /\ F[k - 1] \in Seq(V)
    BY <1>1
  <2>2. h[k][F[k - 1]] = Next1(k, F[k - 1])
    BY <2>1
  <2>3. QED
    BY <2>2, <1>4
<1>6. F = Body(F)
  <2> HIDE DEF n
  <2>1. F[0] = Body(F)[0]
    BY <1>1, <1>4
  <2>2. ASSUME NEW k \in 1 .. n PROVE F[k] = Body(F)[k]
    <3>1. k \in 0 .. n /\ k # 0
      BY <1>1
    <3>2. Body(F)[k] = IF s[k] \in S THEN Append(F[k - 1], s[k]) ELSE F[k - 1]
      BY <3>1
    <3>3. QED
      BY <1>5, <3>2
  <2>3. \A k \in 0 .. n : k = 0 \/ k \in 1 .. n
    BY <1>1
  <2>4. QED
    BY <1>4, <2>1, <2>2, <2>3
<1>7. G = Body(G)
  <2> HIDE DEF Body
  <2>1. QED
    BY <1>6
<1>8. G = [k \in 0 .. n |-> IF k = 0 THEN << >>
                            ELSE IF s[k] \in S THEN Append(G[k - 1], s[k]) ELSE G[k - 1]]
  BY <1>7
<1>9. Among(s, S) = G[n]
  BY DEF Among
<1> HIDE DEF G
<1>10. G[0] = F[0]
  BY <1>1, <1>4, <1>8
<1>11. ASSUME NEW k \in 1 .. n
       PROVE  G[k] = IF s[k] \in S THEN Append(G[k - 1], s[k]) ELSE G[k - 1]
  <2> HIDE DEF n
  <2>1. k \in 0 .. n /\ k # 0
    BY <1>1
  <2>2. QED
    BY <1>8, <2>1
<1>12. \A k \in 0 .. n : G[k] = F[k]
  <2> HIDE DEF n
  <2>1. StepAlike(G, F, n)
    BY <1>5, <1>10, <1>11 DEF StepAlike
  <2>2. QED
    BY <1>1, <2>1, Agreement
<1>13. AmongSteps(F, V, s, S)
  BY <1>4, <1>5 DEF AmongSteps
<1>14. Among(s, S) = F[n]
  BY <1>1, <1>9, <1>12
<1>15. QED
  BY <1>13, <1>14

LEMMA AmongEmpty ==
  ASSUME NEW S
  PROVE  Among(<< >>, S) = << >>
<1>1. << >> \in Seq({}) /\ Len(<< >>) = 0
  OBVIOUS
<1>2. PICK F : AmongSteps(F, {}, << >>, S) /\ Among(<< >>, S) = F[Len(<< >>)]
  BY <1>1, AmongRecursion
<1>3. QED
  BY <1>1, <1>2 DEF AmongSteps

LEMMA AmongAppend ==
  ASSUME NEW V, NEW s \in Seq(V), NEW e \in V, NEW S
  PROVE  Among(Append(s, e), S) = IF e \in S THEN Append(Among(s, S), e) ELSE Among(s, S)
<1> DEFINE n == Len(s)
           t == Append(s, e)
<1>1. n \in Nat /\ t \in Seq(V) /\ Len(t) = n + 1 /\ t[n + 1] = e
      /\ \A k \in 1 .. n : t[k] = s[k]
  BY LenProperties, AppendProperties
<1> HIDE DEF n, t
<1>2. PICK F : AmongSteps(F, V, s, S) /\ Among(s, S) = F[n]
  BY AmongRecursion DEF n
<1>3. PICK G : AmongSteps(G, V, t, S) /\ Among(t, S) = G[n + 1]
  BY <1>1, AmongRecursion
<1>4. \A k \in 0 .. n : F[k] = G[k]
  <2>1. \A k \in 1 .. n : F[k] = IF s[k] \in S THEN Append(F[k - 1], s[k]) ELSE F[k - 1]
    BY <1>2 DEF AmongSteps, n
  <2>2. \A k \in 1 .. n : G[k] = IF s[k] \in S THEN Append(G[k - 1], s[k]) ELSE G[k - 1]
    BY <1>1, <1>3 DEF AmongSteps
  <2>3. F[0] = G[0]
    BY <1>2, <1>3 DEF AmongSteps
  <2>4. StepAlike(F, G, n)
    BY <2>1, <2>2, <2>3 DEF StepAlike
  <2>5. QED
    BY <1>1, <2>4, Agreement
<1>5. G[n + 1] = IF t[n + 1] \in S THEN Append(G[n], t[n + 1]) ELSE G[n]
  <2>1. n + 1 \in 1 .. Len(t) /\ (n + 1) - 1 = n
    BY <1>1
  <2>2. QED
    BY <1>3, <2>1 DEF AmongSteps
<1>6. QED
  BY <1>1, <1>2, <1>3, <1>4, <1>5 DEF t

LEMMA ToSetAppend ==
  ASSUME NEW V, NEW s \in Seq(V), NEW e \in V
  PROVE  ToSet(Append(s, e)) = ToSet(s) \cup {e}
<1>1. DOMAIN Append(s, e) = 1 .. Len(s) + 1 /\ DOMAIN s = 1 .. Len(s) /\ Len(s) \in Nat
  BY AppendProperties, LenProperties
<1>2. \A k \in 1 .. Len(s) : Append(s, e)[k] = s[k]
  BY AppendProperties
<1>3. Append(s, e)[Len(s) + 1] = e
  BY AppendProperties
<1>4. QED
  BY <1>1, <1>2, <1>3 DEF ToSet

LEMMA ToSetType ==
  ASSUME NEW V, NEW s \in Seq(V)
  PROVE  /\ ToSet(s) \subseteq V
         /\ \A k \in 1 .. Len(s) : s[k] \in ToSet(s)
         /\ ToSet(s) = {s[k] : k \in 1 .. Len(s)}
         /\ ToSet(<< >>) = {}
  BY LenProperties, ElementOfSeq DEF ToSet

\* What is kept is kept in a sequence of the same kind, and comes from it.
LEMMA AmongType ==
  ASSUME NEW V, NEW s \in Seq(V), NEW S
  PROVE  /\ Among(s, S) \in Seq(V)
         /\ ToSet(Among(s, S)) = ToSet(s) \cap S
         /\ Len(Among(s, S)) <= Len(s)
<1> DEFINE Kept(u) == /\ Among(u, S) \in Seq(V)
                      /\ ToSet(Among(u, S)) = ToSet(u) \cap S
                      /\ Len(Among(u, S)) <= Len(u)
           P == {u \in Seq(V) : Kept(u)}
<1>1. << >> \in P
  <2>1. ToSet(<< >>) = {} /\ << >> \in Seq(V) /\ Len(<< >>) = 0
    BY DEF ToSet
  <2>2. Among(<< >>, S) = << >>
    BY AmongEmpty
  <2>3. Kept(<< >>)
    <3>1. Among(<< >>, S) \in Seq(V) /\ Len(Among(<< >>, S)) = 0 /\ Len(<< >>) = 0
      BY <2>1, <2>2, Zenon
    <3>2. ToSet(Among(<< >>, S)) = {}
      BY <2>1, <2>2, Zenon
    <3>3. ToSet(<< >>) \cap S = {}
      BY <2>1
    <3>4. QED
      BY <3>1, <3>2, <3>3
  <2>4. QED
    BY <2>1, <2>3
<1>2. ASSUME NEW u \in Seq(V), NEW e \in V, u \in P PROVE Append(u, e) \in P
  <2>1. \A v \in Seq(V) : ToSet(Append(v, e)) = ToSet(v) \cup {e}
    BY ToSetAppend
  <2>2. Append(u, e) \in Seq(V) /\ Len(Append(u, e)) = Len(u) + 1 /\ Len(u) \in Nat
    BY AppendProperties, LenProperties
  <2>3. Among(Append(u, e), S) = IF e \in S THEN Append(Among(u, S), e) ELSE Among(u, S)
    BY AmongAppend
  <2>4. Kept(u) /\ Len(Among(u, S)) \in Nat
    BY <1>2, LenProperties
  <2>5. CASE e \in S
    <3>1. Append(Among(u, S), e) \in Seq(V) /\ Len(Append(Among(u, S), e)) = Len(Among(u, S)) + 1
      BY <2>4, AppendProperties
    <3>2. ToSet(Append(Among(u, S), e)) = (ToSet(u) \cap S) \cup {e}
      BY <2>1, <2>4
    <3>3. ToSet(Append(u, e)) \cap S = (ToSet(u) \cap S) \cup {e}
      BY <2>1, <2>5
    <3>4. Kept(Append(u, e))
      BY <2>2, <2>3, <2>4, <2>5, <3>1, <3>2, <3>3
    <3>5. QED
      BY <2>2, <3>4
  <2>6. CASE e \notin S
    BY <2>1, <2>2, <2>3, <2>4, <2>6
  <2>7. QED
    BY <2>5, <2>6
<1> HIDE DEF P
<1>3. s \in P
  BY <1>1, <1>2, SequenceInduction
<1>4. QED
  BY <1>3 DEF P

\* Only what the sequence holds matters.
LEMMA AmongSame ==
  ASSUME NEW V, NEW s \in Seq(V), NEW S, NEW T, ToSet(s) \cap S = ToSet(s) \cap T
  PROVE  Among(s, S) = Among(s, T)
<1> DEFINE P == {u \in Seq(V) : ToSet(u) \cap S = ToSet(u) \cap T => Among(u, S) = Among(u, T)}
<1>1. << >> \in P
  <2>1. Among(<< >>, S) = << >> /\ Among(<< >>, T) = << >> /\ << >> \in Seq(V)
    BY AmongEmpty
  <2>2. QED
    BY <2>1, Zenon
<1>2. ASSUME NEW u \in Seq(V), NEW e \in V, u \in P PROVE Append(u, e) \in P
  <2>1. SUFFICES ASSUME ToSet(Append(u, e)) \cap S = ToSet(Append(u, e)) \cap T
                 PROVE  Among(Append(u, e), S) = Among(Append(u, e), T)
    BY AppendProperties
  <2>2. ToSet(u) \cap S = ToSet(u) \cap T /\ (e \in S <=> e \in T)
    BY <2>1, ToSetAppend
  <2>3. Among(u, S) = Among(u, T)
    BY <1>2, <2>2
  <2>4. Among(Append(u, e), S) = IF e \in S THEN Append(Among(u, S), e) ELSE Among(u, S)
    BY AmongAppend
  <2>5. Among(Append(u, e), T) = IF e \in T THEN Append(Among(u, T), e) ELSE Among(u, T)
    BY AmongAppend
  <2>6. QED
    BY <2>2, <2>3, <2>4, <2>5
<1> HIDE DEF P
<1>3. s \in P
  BY <1>1, <1>2, SequenceInduction
<1>4. QED
  BY <1>3 DEF P

LEMMA AmongTwice ==
  ASSUME NEW V, NEW s \in Seq(V), NEW S, NEW T
  PROVE  Among(Among(s, S), T) = Among(s, S \cap T)
<1> DEFINE P == {u \in Seq(V) : Among(Among(u, S), T) = Among(u, S \cap T)}
<1>1. << >> \in P
  <2>1. Among(<< >>, S) = << >> /\ Among(<< >>, T) = << >> /\ Among(<< >>, S \cap T) = << >>
    BY AmongEmpty
  <2>2. << >> \in Seq(V)
    OBVIOUS
  <2>3. QED
    BY <2>1, <2>2, Zenon
<1>2. ASSUME NEW u \in Seq(V), NEW e \in V, u \in P PROVE Append(u, e) \in P
  <2>1. Append(u, e) \in Seq(V) /\ Among(u, S) \in Seq(V)
    BY AppendProperties, AmongType
  <2>2. Among(Among(u, S), T) = Among(u, S \cap T)
    BY <1>2
  <2>3. Among(Append(u, e), S) = IF e \in S THEN Append(Among(u, S), e) ELSE Among(u, S)
    BY AmongAppend
  <2>4. Among(Append(u, e), S \cap T)
          = IF e \in S \cap T THEN Append(Among(u, S \cap T), e) ELSE Among(u, S \cap T)
    BY AmongAppend
  <2>5. Among(Append(Among(u, S), e), T)
          = IF e \in T THEN Append(Among(Among(u, S), T), e) ELSE Among(Among(u, S), T)
    BY <2>1, AmongAppend
  <2>6. CASE e \in S
    <3>1. Among(Append(u, e), S) = Append(Among(u, S), e) /\ (e \in S \cap T <=> e \in T)
      BY <2>3, <2>6
    <3>2. Among(Among(Append(u, e), S), T)
            = IF e \in T THEN Append(Among(u, S \cap T), e) ELSE Among(u, S \cap T)
      BY <2>2, <2>5, <3>1
    <3>3. Among(Among(Append(u, e), S), T) = Among(Append(u, e), S \cap T)
      BY <2>4, <3>1, <3>2
    <3>4. QED
      BY <2>1, <3>3
  <2>7. CASE e \notin S
    BY <2>1, <2>2, <2>3, <2>4, <2>7
  <2>8. QED
    BY <2>6, <2>7
<1> HIDE DEF P
<1>3. s \in P
  BY <1>1, <1>2, SequenceInduction
<1>4. QED
  BY <1>3 DEF P

LEMMA AmongAll ==
  ASSUME NEW V, NEW s \in Seq(V), NEW S, ToSet(s) \subseteq S
  PROVE  Among(s, S) = s
<1> DEFINE P == {u \in Seq(V) : ToSet(u) \subseteq S => Among(u, S) = u}
<1>1. << >> \in P
  <2>1. Among(<< >>, S) = << >> /\ << >> \in Seq(V)
    BY AmongEmpty
  <2>2. QED
    BY <2>1, Zenon
<1>2. ASSUME NEW u \in Seq(V), NEW e \in V, u \in P PROVE Append(u, e) \in P
  <2>1. Append(u, e) \in Seq(V) /\ ToSet(Append(u, e)) = ToSet(u) \cup {e}
    BY AppendProperties, ToSetAppend
  <2>2. Among(Append(u, e), S) = IF e \in S THEN Append(Among(u, S), e) ELSE Among(u, S)
    BY AmongAppend
  <2>3. QED
    BY <1>2, <2>1, <2>2
<1> HIDE DEF P
<1>3. s \in P
  BY <1>1, <1>2, SequenceInduction
<1>4. QED
  BY <1>3 DEF P

LEMMA AmongNone ==
  ASSUME NEW V, NEW s \in Seq(V), NEW S, ToSet(s) \cap S = {}
  PROVE  Among(s, S) = << >>
<1> DEFINE t == Among(s, S)
<1>1. t \in Seq(V) /\ ToSet(t) = {}
  BY AmongType
<1> HIDE DEF t
<1>2. SUFFICES ASSUME t # << >> PROVE FALSE
  BY DEF t
<1>3. Len(t) \in Nat \ {0}
  BY <1>1, <1>2, EmptySeq
<1>4. t[1] \in ToSet(t)
  BY <1>1, <1>3, ToSetType
<1>5. QED
  BY <1>1, <1>4

-------------------------------------------------------------------------------
(* Planned costs *)

Actual == {NoActual, ZeroActual, SomeActual}

\* A line of whatever amount, whose inflation is one of flags.
Row(flags) == [month : Months, plan : Nat, actual : Actual, inflated : flags]

PlannedSteps(F, s) ==
  F[0] = 0 /\ \A k \in 1 .. Len(s) : F[k] = F[k - 1] + s[k].plan

LEMMA PlannedRecursion ==
  ASSUME NEW flags, NEW s \in Seq(Row(flags))
  PROVE  \E F : F \in [0 .. Len(s) -> Nat] /\ PlannedSteps(F, s) /\ PlannedCost(s) = F[Len(s)]
<1> DEFINE n == Len(s)
           h == [k \in 1 .. n |-> [v \in Nat |-> v + s[k].plan]]
           Body(g) == [k \in 0 .. n |-> IF k = 0 THEN 0 ELSE g[k - 1] + s[k].plan]
           G == CHOOSE g : g = Body(g)
<1>1. n \in Nat /\ \A k \in 1 .. n : s[k].plan \in Nat
  <2>1. \A k \in 1 .. n : s[k] \in Row(flags)
    BY ElementOfSeq
  <2>2. QED
    BY <2>1, LenProperties DEF Row
<1>2. h \in [1 .. n -> [Nat -> Nat]]
  BY <1>1
<1>3. PICK F \in [0 .. n -> Nat] : F[0] = 0 /\ \A k \in 1 .. n : F[k] = h[k][F[k - 1]]
  <2>1. h \in Steps(n, Nat)
    BY <1>2 DEF Steps
  <2> HIDE DEF h, n
  <2>2. \E F : Takes(F, n, Nat, 0, h)
    BY <1>1, <2>1, Recursion
  <2>3. QED
    BY <2>2 DEF Takes
<1>4. ASSUME NEW k \in 1 .. n PROVE F[k] = F[k - 1] + s[k].plan
  <2>1. k - 1 \in 0 .. n /\ F[k - 1] \in Nat
    BY <1>1
  <2>2. h[k][F[k - 1]] = F[k - 1] + s[k].plan
    BY <2>1
  <2>3. QED
    BY <2>2, <1>3
<1>5. F = Body(F)
  <2> HIDE DEF n
  <2>1. F[0] = Body(F)[0]
    BY <1>1, <1>3
  <2>2. ASSUME NEW k \in 1 .. n PROVE F[k] = Body(F)[k]
    <3>1. k \in 0 .. n /\ k # 0
      BY <1>1
    <3>2. Body(F)[k] = F[k - 1] + s[k].plan
      BY <3>1
    <3>3. QED
      BY <1>4, <3>2
  <2>3. \A k \in 0 .. n : k = 0 \/ k \in 1 .. n
    BY <1>1
  <2>4. QED
    BY <1>3, <2>1, <2>2, <2>3
<1>6. G = Body(G)
  <2> HIDE DEF Body
  <2>1. QED
    BY <1>5
<1>7. G = [k \in 0 .. n |-> IF k = 0 THEN 0 ELSE G[k - 1] + s[k].plan]
  BY <1>6
<1>8. PlannedCost(s) = G[n]
  BY DEF PlannedCost
<1> HIDE DEF G
<1>9. G[0] = F[0]
  BY <1>1, <1>3, <1>7
<1>10. ASSUME NEW k \in 1 .. n PROVE G[k] = G[k - 1] + s[k].plan
  <2> HIDE DEF n
  <2>1. k \in 0 .. n /\ k # 0
    BY <1>1
  <2>2. QED
    BY <1>7, <2>1
<1>11. \A k \in 0 .. n : G[k] = F[k]
  <2> HIDE DEF n
  <2>1. StepAlike(G, F, n)
    BY <1>4, <1>9, <1>10 DEF StepAlike
  <2>2. QED
    BY <1>1, <2>1, Agreement
<1>12. PlannedSteps(F, s)
  BY <1>3, <1>4 DEF PlannedSteps
<1>13. PlannedCost(s) = F[n]
  BY <1>1, <1>8, <1>11
<1>14. QED
  BY <1>12, <1>13

LEMMA PlannedNat ==
  ASSUME NEW flags, NEW s \in Seq(Row(flags))
  PROVE  PlannedCost(s) \in Nat
<1>1. PICK F : F \in [0 .. Len(s) -> Nat] /\ PlannedCost(s) = F[Len(s)]
  BY PlannedRecursion
<1>2. Len(s) \in 0 .. Len(s)
  BY LenProperties
<1>3. QED
  BY <1>1, <1>2

LEMMA PlannedEmpty == PlannedCost(<< >>) = 0
<1>1. << >> \in Seq(Row(Flags)) /\ Len(<< >>) = 0
  OBVIOUS
<1>2. PICK F : PlannedSteps(F, << >>) /\ PlannedCost(<< >>) = F[Len(<< >>)]
  BY <1>1, PlannedRecursion
<1>3. QED
  BY <1>1, <1>2 DEF PlannedSteps

LEMMA PlannedAppend ==
  ASSUME NEW flags, NEW s \in Seq(Row(flags)), NEW e \in Row(flags)
  PROVE  PlannedCost(Append(s, e)) = PlannedCost(s) + e.plan
<1> DEFINE n == Len(s)
           t == Append(s, e)
<1>1. n \in Nat /\ t \in Seq(Row(flags)) /\ Len(t) = n + 1 /\ t[n + 1] = e
      /\ \A k \in 1 .. n : t[k] = s[k]
  BY LenProperties, AppendProperties
<1> HIDE DEF n, t
<1>2. PICK F : PlannedSteps(F, s) /\ PlannedCost(s) = F[n]
  BY PlannedRecursion DEF n
<1>3. PICK G : PlannedSteps(G, t) /\ PlannedCost(t) = G[n + 1]
  BY <1>1, PlannedRecursion
<1>4. \A k \in 0 .. n : F[k] = G[k]
  <2>1. \A k \in 1 .. n : F[k] = F[k - 1] + s[k].plan
    BY <1>2 DEF PlannedSteps, n
  <2>2. \A k \in 1 .. n : G[k] = G[k - 1] + s[k].plan
    BY <1>1, <1>3 DEF PlannedSteps
  <2>3. F[0] = G[0]
    BY <1>2, <1>3 DEF PlannedSteps
  <2>4. StepAlike(F, G, n)
    BY <2>1, <2>2, <2>3 DEF StepAlike
  <2>5. QED
    BY <1>1, <2>4, Agreement
<1>5. G[n + 1] = G[n] + t[n + 1].plan
  <2>1. n + 1 \in 1 .. Len(t) /\ (n + 1) - 1 = n
    BY <1>1
  <2>2. QED
    BY <1>3, <2>1 DEF PlannedSteps
<1>6. QED
  BY <1>1, <1>2, <1>3, <1>4, <1>5 DEF t

\* The costs of two kinds of lines add up.
LEMMA PlannedSplit ==
  ASSUME NEW flags, NEW s \in Seq(Row(flags)), NEW S, NEW T, S \cap T = {}
  PROVE  PlannedCost(Among(s, S \cup T)) = PlannedCost(Among(s, S)) + PlannedCost(Among(s, T))
<1> DEFINE Splits(u) == PlannedCost(Among(u, S \cup T))
                          = PlannedCost(Among(u, S)) + PlannedCost(Among(u, T))
           P == {u \in Seq(Row(flags)) : Splits(u)}
<1>1. << >> \in P
  <2>1. Among(<< >>, S) = << >> /\ Among(<< >>, T) = << >> /\ Among(<< >>, S \cup T) = << >>
    BY AmongEmpty
  <2>2. PlannedCost(Among(<< >>, S)) = 0 /\ PlannedCost(Among(<< >>, T)) = 0
        /\ PlannedCost(Among(<< >>, S \cup T)) = 0
    BY <2>1, PlannedEmpty, Zenon
  <2>3. Splits(<< >>)
    BY <2>2
  <2>4. << >> \in Seq(Row(flags))
    OBVIOUS
  <2>5. QED
    BY <2>3, <2>4
<1>2. ASSUME NEW u \in Seq(Row(flags)), NEW e \in Row(flags), u \in P PROVE Append(u, e) \in P
  <2>1. Splits(u) /\ Append(u, e) \in Seq(Row(flags))
    BY <1>2, AppendProperties
  <2>2. ASSUME NEW K
        PROVE  /\ PlannedCost(Among(u, K)) \in Nat
               /\ PlannedCost(Among(Append(u, e), K))
                    = IF e \in K THEN PlannedCost(Among(u, K)) + e.plan ELSE PlannedCost(Among(u, K))
    <3>1. Among(u, K) \in Seq(Row(flags))
      BY AmongType
    <3>2. Among(Append(u, e), K) = IF e \in K THEN Append(Among(u, K), e) ELSE Among(u, K)
      BY AmongAppend
    <3>3. PlannedCost(Append(Among(u, K), e)) = PlannedCost(Among(u, K)) + e.plan
      BY <3>1, PlannedAppend
    <3>4. QED
      BY <3>1, <3>2, <3>3, PlannedNat
  <2>3. e.plan \in Nat
    BY DEF Row
  <2>4. Splits(Append(u, e))
    <3>1. CASE e \in S
      <4>1. e \notin T /\ e \in S \cup T
        BY <3>1
      <4>2. QED
        BY <2>1, <2>2, <2>3, <3>1, <4>1
    <3>2. CASE e \in T
      <4>1. e \notin S /\ e \in S \cup T
        BY <3>2
      <4>2. QED
        BY <2>1, <2>2, <2>3, <3>2, <4>1
    <3>3. CASE e \notin S \cup T
      BY <2>1, <2>2, <2>3, <3>3
    <3>4. QED
      BY <3>1, <3>2, <3>3
  <2>5. QED
    BY <2>1, <2>4
<1> HIDE DEF P
<1>3. s \in P
  BY <1>1, <1>2, SequenceInduction
<1>4. QED
  BY <1>3 DEF P

\* A part of the lines costs no more than all of them.
LEMMA PlannedPart ==
  ASSUME NEW flags, NEW s \in Seq(Row(flags)), NEW S
  PROVE  PlannedCost(Among(s, S)) <= PlannedCost(s)
<1> DEFINE R == ToSet(s) \ S
<1>1. PlannedCost(Among(s, S \cup R)) = PlannedCost(Among(s, S)) + PlannedCost(Among(s, R))
  BY PlannedSplit
<1>2. Among(s, S \cup R) = s
  BY AmongAll
<1>3. PlannedCost(Among(s, S)) \in Nat /\ PlannedCost(Among(s, R)) \in Nat
  BY AmongType, PlannedNat
<1> HIDE DEF R
<1>4. QED
  BY <1>1, <1>2, <1>3

LEMMA PlannedElement ==
  ASSUME NEW flags, NEW s \in Seq(Row(flags)), NEW e \in ToSet(s)
  PROVE  e.plan <= PlannedCost(s)
<1> DEFINE P == {u \in Seq(Row(flags)) : e \in ToSet(u) => e.plan <= PlannedCost(u)}
<1>1. << >> \in P
  <2>1. e \notin ToSet(<< >>) /\ << >> \in Seq(Row(flags))
    BY ToSetType
  <2>2. QED
    BY <2>1
<1>2. ASSUME NEW u \in Seq(Row(flags)), NEW f \in Row(flags), u \in P PROVE Append(u, f) \in P
  <2>1. Append(u, f) \in Seq(Row(flags)) /\ ToSet(Append(u, f)) = ToSet(u) \cup {f}
    BY AppendProperties, ToSetAppend
  <2>2. PlannedCost(Append(u, f)) = PlannedCost(u) + f.plan /\ PlannedCost(u) \in Nat
    BY PlannedAppend, PlannedNat
  <2>3. e \in Row(flags)
    BY ToSetType
  <2>4. f.plan \in Nat /\ e.plan \in Nat
    BY <2>3 DEF Row
  <2>5. QED
    BY <1>2, <2>1, <2>2, <2>4
<1> HIDE DEF P
<1>3. s \in P
  BY <1>1, <1>2, SequenceInduction
<1>4. QED
  BY <1>3 DEF P

-------------------------------------------------------------------------------
(* Lines of a month, and what replaces them *)

InMonth(flags, m) == {r \in Row(flags) : r.month = m}

LEMMA MonthsAmong ==
  ASSUME NEW flags, NEW s \in Seq(Row(flags)), NEW m
  PROVE  /\ OfMonth(s, m) = Among(s, InMonth(flags, m))
         /\ OtherMonths(s, m) = Among(s, Row(flags) \ InMonth(flags, m))
<1>1. ToSet(s) \subseteq Row(flags)
  BY ToSetType
<1>2. ToSet(s) \cap {r \in ToSet(s) : r.month = m} = ToSet(s) \cap InMonth(flags, m)
  BY <1>1 DEF InMonth
<1>3. ToSet(s) \cap {r \in ToSet(s) : r.month # m} = ToSet(s) \cap (Row(flags) \ InMonth(flags, m))
  BY <1>1 DEF InMonth
<1>4. QED
  BY <1>2, <1>3, AmongSame DEF OfMonth, OtherMonths

LEMMA OfMonthAppend ==
  ASSUME NEW flags, NEW s \in Seq(Row(flags)), NEW e \in Row(flags), NEW m
  PROVE  OfMonth(Append(s, e), m) = IF e.month = m THEN Append(OfMonth(s, m), e) ELSE OfMonth(s, m)
<1>1. Append(s, e) \in Seq(Row(flags)) /\ (e \in InMonth(flags, m) <=> e.month = m)
  BY AppendProperties DEF InMonth
<1>2. Among(Append(s, e), InMonth(flags, m))
        = IF e \in InMonth(flags, m) THEN Append(Among(s, InMonth(flags, m)), e) ELSE Among(s, InMonth(flags, m))
  BY AmongAppend
<1>3. QED
  BY <1>1, <1>2, MonthsAmong

LEMMA OfMonthOther ==
  ASSUME NEW flags, NEW s \in Seq(Row(flags)), NEW n, NEW m
  PROVE  /\ OtherMonths(s, n) \in Seq(Row(flags))
         /\ ToSet(OtherMonths(s, n)) = {r \in ToSet(s) : r.month # n}
         /\ OfMonth(OtherMonths(s, n), m) = IF m = n THEN << >> ELSE OfMonth(s, m)
<1> DEFINE S == Row(flags) \ InMonth(flags, n)
           t == OtherMonths(s, n)
<1>1. t = Among(s, S) /\ t \in Seq(Row(flags)) /\ ToSet(t) = ToSet(s) \cap S
  <2>1. t = Among(s, S)
    BY MonthsAmong
  <2> HIDE DEF S, t
  <2>2. Among(s, S) \in Seq(Row(flags)) /\ ToSet(Among(s, S)) = ToSet(s) \cap S
    BY AmongType
  <2>3. QED
    BY <2>1, <2>2
<1>2. ToSet(s) \subseteq Row(flags)
  BY ToSetType
<1>3. ToSet(t) = {r \in ToSet(s) : r.month # n}
  BY <1>1, <1>2 DEF InMonth
<1> HIDE DEF t
<1>4. OfMonth(t, m) = Among(s, S \cap InMonth(flags, m))
  <2>1. OfMonth(t, m) = Among(t, InMonth(flags, m))
    BY <1>1, MonthsAmong
  <2> HIDE DEF S
  <2>2. Among(Among(s, S), InMonth(flags, m)) = Among(s, S \cap InMonth(flags, m))
    BY AmongTwice
  <2>3. QED
    BY <1>1, <2>1, <2>2
<1>5. CASE m = n
  <2>1. ToSet(s) \cap (S \cap InMonth(flags, m)) = {}
    BY <1>5
  <2>2. Among(s, S \cap InMonth(flags, m)) = << >>
    BY <2>1, AmongNone
  <2>3. QED
    BY <1>1, <1>3, <1>4, <1>5, <2>2 DEF t
<1>6. CASE m # n
  <2>1. S \cap InMonth(flags, m) = InMonth(flags, m)
    BY <1>6 DEF InMonth
  <2>2. OfMonth(s, m) = Among(s, InMonth(flags, m))
    BY MonthsAmong
  <2> HIDE DEF S
  <2>3. QED
    BY <1>1, <1>3, <1>4, <1>6, <2>1, <2>2 DEF t
<1>7. QED
  BY <1>5, <1>6

LEMMA OfMonthType ==
  ASSUME NEW flags, NEW s \in Seq(Row(flags)), NEW m
  PROVE  /\ OfMonth(s, m) \in Seq(Row(flags))
         /\ ToSet(OfMonth(s, m)) = {r \in ToSet(s) : r.month = m}
         /\ PlanOf(s, m) \in Nat
         /\ PlanOf(s, m) <= PlannedCost(s)
<1>1. OfMonth(s, m) = Among(s, InMonth(flags, m)) /\ ToSet(s) \subseteq Row(flags)
  <2>1. OfMonth(s, m) = Among(s, InMonth(flags, m))
    BY MonthsAmong
  <2>2. ToSet(s) \subseteq Row(flags)
    BY ToSetType
  <2>3. QED
    BY <2>1, <2>2
<1>2. OfMonth(s, m) \in Seq(Row(flags))
  BY <1>1, AmongType
<1>3. ToSet(OfMonth(s, m)) = ToSet(s) \cap InMonth(flags, m)
  BY <1>1, AmongType
<1>4. PlanOf(s, m) <= PlannedCost(s)
  BY <1>1, PlannedPart DEF PlanOf
<1>5. PlanOf(s, m) \in Nat
  BY <1>2, PlannedNat DEF PlanOf
<1>6. ToSet(OfMonth(s, m)) = {r \in ToSet(s) : r.month = m}
  BY <1>1, <1>3 DEF InMonth
<1>7. QED
  BY <1>2, <1>4, <1>5, <1>6

\* The first line of a month, or its last, costs no more than the month.
LEMMA MonthElement ==
  ASSUME NEW flags, NEW s \in Seq(Row(flags)), NEW m, OfMonth(s, m) # << >>
  PROVE  /\ Last(OfMonth(s, m)) \in Row(flags)
         /\ Last(OfMonth(s, m)).plan <= PlanOf(s, m)
         /\ \E r \in ToSet(s) : r.month = m
<1> DEFINE t == OfMonth(s, m)
<1>1. t \in Seq(Row(flags)) /\ t # << >>
  BY OfMonthType
<1>2. ToSet(t) = {r \in ToSet(s) : r.month = m}
  BY OfMonthType
<1> HIDE DEF t
<1>3. Len(t) \in Nat \ {0}
  BY <1>1, EmptySeq
<1>4. t[Len(t)] \in ToSet(t) /\ ToSet(t) \subseteq Row(flags)
  BY <1>1, <1>3, ToSetType
<1>5. Last(t) = t[Len(t)]
  BY DEF Last
<1>6. Last(t).plan <= PlannedCost(t)
  BY <1>1, <1>4, <1>5, PlannedElement
<1>7. QED
  BY <1>2, <1>4, <1>5, <1>6 DEF t, PlanOf

LEMMA UpsertLineFacts ==
  ASSUME NEW flags, NEW s \in Seq(Row(flags)), NEW r \in Row(flags), NEW m
  PROVE  /\ UpsertLine(s, r) \in Seq(Row(flags))
         /\ ToSet(UpsertLine(s, r)) \subseteq {q \in ToSet(s) : q.month # r.month} \cup {r}
         /\ {q \in ToSet(s) : q.month # r.month} \subseteq ToSet(UpsertLine(s, r))
         /\ m # r.month => OfMonth(UpsertLine(s, r), m) = OfMonth(s, m)
         /\ PlanOf(UpsertLine(s, r), r.month) <= r.plan
<1> DEFINE t == OtherMonths(s, r.month)
<1>1. t \in Seq(Row(flags)) /\ ToSet(t) = {q \in ToSet(s) : q.month # r.month}
  BY OfMonthOther
<1>2. OfMonth(t, r.month) = << >> /\ (m # r.month => OfMonth(t, m) = OfMonth(s, m))
  BY OfMonthOther
<1>3. UpsertLine(s, r) = IF IsZero(r) THEN t ELSE Append(t, r)
  BY DEF UpsertLine
<1> HIDE DEF t
<1>4. r.plan \in Nat
  BY DEF Row
<1>5. CASE IsZero(r)
  <2>1. PlanOf(t, r.month) = 0
    BY <1>2, PlannedEmpty, Zenon DEF PlanOf
  <2>2. PlanOf(UpsertLine(s, r), r.month) <= r.plan
    BY <1>3, <1>4, <1>5, <2>1
  <2>3. QED
    BY <1>1, <1>2, <1>3, <1>5, <2>2
<1>6. CASE ~ IsZero(r)
  <2>1. Append(t, r) \in Seq(Row(flags)) /\ ToSet(Append(t, r)) = ToSet(t) \cup {r}
    BY <1>1, AppendProperties, ToSetAppend
  <2>2. OfMonth(Append(t, r), r.month) = Append(OfMonth(t, r.month), r)
    BY <1>1, OfMonthAppend
  <2>3. OfMonth(Append(t, r), r.month) = Append(<< >>, r)
    BY <1>2, <2>2, Zenon
  <2>4. PlannedCost(Append(<< >>, r)) = PlannedCost(<< >>) + r.plan
    <3>1. << >> \in Seq(Row(flags))
      OBVIOUS
    <3>2. QED
      BY <3>1, PlannedAppend
  <2>5. PlanOf(Append(t, r), r.month) = r.plan
    BY <1>4, <2>3, <2>4, PlannedEmpty DEF PlanOf
  <2>6. m # r.month => OfMonth(Append(t, r), m) = OfMonth(t, m)
    BY <1>1, OfMonthAppend
  <2>7. PlanOf(UpsertLine(s, r), r.month) <= r.plan
    BY <1>3, <1>4, <1>6, <2>5
  <2>8. QED
    BY <1>1, <1>2, <1>3, <1>6, <2>1, <2>6, <2>7
<1>7. QED
  BY <1>5, <1>6

UpsertSteps(F, costs, rows) ==
  F[0] = costs /\ \A k \in 1 .. Len(rows) : F[k] = UpsertLine(F[k - 1], rows[k])

\* The recursion that a batch takes, row by row.
LEMMA UpsertRecursion ==
  ASSUME NEW flags, NEW costs \in Seq(Row(flags)), NEW rows \in Seq(Row(flags))
  PROVE  /\ UpsertUpTo(costs, rows, 0) = costs
         /\ \A k \in 1 .. Len(rows) :
              UpsertUpTo(costs, rows, k) = UpsertLine(UpsertUpTo(costs, rows, k - 1), rows[k])
         /\ \A k \in 0 .. Len(rows) : UpsertUpTo(costs, rows, k) \in Seq(Row(flags))
<1> DEFINE n == Len(rows)
           h == [k \in 1 .. n |-> [v \in Seq(Row(flags)) |-> UpsertLine(v, rows[k])]]
           Body(g) == [k \in 0 .. n |-> IF k = 0 THEN costs ELSE UpsertLine(g[k - 1], rows[k])]
           G == CHOOSE g : g = Body(g)
<1>1. n \in Nat /\ \A k \in 1 .. n : rows[k] \in Row(flags)
  BY ElementOfSeq, LenProperties
<1>2. h \in [1 .. n -> [Seq(Row(flags)) -> Seq(Row(flags))]]
  <2> HIDE DEF n
  <2>1. \A k \in 1 .. n : \A v \in Seq(Row(flags)) : UpsertLine(v, rows[k]) \in Seq(Row(flags))
    BY <1>1, UpsertLineFacts
  <2>2. QED
    BY <2>1
<1>3. PICK F \in [0 .. n -> Seq(Row(flags))] : F[0] = costs /\ \A k \in 1 .. n : F[k] = h[k][F[k - 1]]
  <2>1. h \in Steps(n, Seq(Row(flags)))
    BY <1>2 DEF Steps
  <2> HIDE DEF h, n
  <2>2. \E F : Takes(F, n, Seq(Row(flags)), costs, h)
    BY <1>1, <2>1, Recursion
  <2>3. QED
    BY <2>2 DEF Takes
<1>4. ASSUME NEW k \in 1 .. n PROVE F[k] = UpsertLine(F[k - 1], rows[k])
  <2>1. k - 1 \in 0 .. n /\ F[k - 1] \in Seq(Row(flags))
    <3> HIDE DEF n
    <3>1. QED
      BY <1>1
  <2>2. h[k][F[k - 1]] = UpsertLine(F[k - 1], rows[k])
    BY <2>1
  <2>3. QED
    BY <2>2, <1>3
<1>5. F = Body(F)
  <2> HIDE DEF n
  <2>1. F[0] = Body(F)[0]
    BY <1>1, <1>3
  <2>2. ASSUME NEW k \in 1 .. n PROVE F[k] = Body(F)[k]
    <3>1. k \in 0 .. n /\ k # 0
      BY <1>1
    <3>2. Body(F)[k] = UpsertLine(F[k - 1], rows[k])
      BY <3>1
    <3>3. QED
      BY <1>4, <3>2
  <2>3. \A k \in 0 .. n : k = 0 \/ k \in 1 .. n
    BY <1>1
  <2>4. QED
    BY <1>3, <2>1, <2>2, <2>3
<1>6. G = Body(G)
  <2> HIDE DEF Body
  <2>1. QED
    BY <1>5
<1>7. G = [k \in 0 .. n |-> IF k = 0 THEN costs ELSE UpsertLine(G[k - 1], rows[k])]
  BY <1>6
<1>8. \A k : UpsertUpTo(costs, rows, k) = G[k]
  BY DEF UpsertUpTo
<1> HIDE DEF G
<1>9. G[0] = F[0]
  BY <1>1, <1>3, <1>7
<1>10. ASSUME NEW k \in 1 .. n PROVE G[k] = UpsertLine(G[k - 1], rows[k])
  <2> HIDE DEF n
  <2>1. k \in 0 .. n /\ k # 0
    BY <1>1
  <2>2. QED
    BY <1>7, <2>1
<1>11. \A k \in 0 .. n : G[k] = F[k]
  <2> HIDE DEF n
  <2>1. StepAlike(G, F, n)
    BY <1>4, <1>9, <1>10 DEF StepAlike
  <2>2. QED
    BY <1>1, <2>1, Agreement
<1> HIDE DEF n
<1>12. G[0] = costs /\ \A k \in 0 .. n : G[k] \in Seq(Row(flags))
  BY <1>1, <1>3, <1>9, <1>11
<1>13. QED
  BY <1>8, <1>10, <1>12 DEF n

\* What a batch leaves alone, and what it leaves of a month at most.
LEMMA UpsertsTouchTheirMonths ==
  ASSUME NEW flags, NEW costs \in Seq(Row(flags)), NEW rows \in Seq(Row(flags)),
         NEW m, \A r \in ToSet(rows) : r.month # m
  PROVE  \A k \in 0 .. Len(rows) : OfMonth(UpsertUpTo(costs, rows, k), m) = OfMonth(costs, m)
<1> DEFINE n == Len(rows)
           P == {k \in Nat : k <= n => OfMonth(UpsertUpTo(costs, rows, k), m) = OfMonth(costs, m)}
<1>1. n \in Nat /\ \A k \in 1 .. n : rows[k] \in Row(flags) /\ rows[k].month # m
  BY ElementOfSeq, ToSetType, LenProperties
<1> HIDE DEF n
<1>2. 0 \in P
  BY UpsertRecursion
<1>3. ASSUME NEW k \in Nat, k \in P PROVE k + 1 \in P
  <2>1. SUFFICES ASSUME k + 1 <= n
                 PROVE  OfMonth(UpsertUpTo(costs, rows, k + 1), m) = OfMonth(costs, m)
    OBVIOUS
  <2>2. k \in 0 .. n /\ k + 1 \in 1 .. n /\ (k + 1) - 1 = k
    <3>1. n \in Nat /\ k \in Nat /\ k + 1 <= n
      BY <1>1, <2>1
    <3> HIDE DEF P
    <3>2. QED
      BY <3>1
  <2>3. UpsertUpTo(costs, rows, k + 1) = UpsertLine(UpsertUpTo(costs, rows, k), rows[k + 1])
    BY <2>2, UpsertRecursion DEF n
  <2>4. UpsertUpTo(costs, rows, k) \in Seq(Row(flags))
    BY <2>2, UpsertRecursion DEF n
  <2>5. OfMonth(UpsertLine(UpsertUpTo(costs, rows, k), rows[k + 1]), m)
          = OfMonth(UpsertUpTo(costs, rows, k), m)
    <3>1. rows[k + 1] \in Row(flags) /\ m # rows[k + 1].month
      BY <1>1, <2>2
    <3>2. QED
      BY <2>4, <3>1, UpsertLineFacts
  <2>6. OfMonth(UpsertUpTo(costs, rows, k), m) = OfMonth(costs, m)
    BY <1>3, <2>2
  <2>7. QED
    BY <2>3, <2>5, <2>6
<1> HIDE DEF P
<1>4. \A k \in Nat : k \in P
  BY <1>2, <1>3, Induction
<1>5. QED
  BY <1>1, <1>4 DEF P, n

\* What a request may say of a line's inflation.
Asked == Flags \cup {Unasked}

LEMMA RequestsAreRows ==
  /\ Amounts \subseteq Nat
  /\ Request \subseteq Row(Asked)
  /\ CostLine \subseteq Row(Flags)
  /\ \A lines \in Requests : lines \in Seq(Row(Asked)) /\ lines # << >>
<1>1. Amounts \subseteq Nat
  BY DataAssumption
<1>2. Request \subseteq Row(Asked)
  <2>1. Asks \subseteq Asked
    BY DataAssumption DEF Asked
  <2>2. QED
    BY <1>1, <2>1 DEF Request, Row, Actual
<1>3. CostLine \subseteq Row(Flags)
  BY DataAssumption DEF CostLine, Row, Actual
<1>4. ASSUME NEW lines \in Requests PROVE lines \in Seq(Row(Asked)) /\ lines # << >>
  <2>1. PICK n \in 1 .. MaxPayload : lines \in [1 .. n -> Request]
    BY DEF Requests
  <2>2. n \in Nat /\ lines \in [1 .. n -> Row(Asked)] /\ 1 \in DOMAIN lines
    BY <1>2, <2>1
  <2>3. lines \in Seq(Row(Asked))
    BY <2>2
  <2>4. DOMAIN << >> = {}
    OBVIOUS
  <2>5. QED
    BY <2>2, <2>3, <2>4
<1>5. QED
  BY <1>1, <1>2, <1>3, <1>4

-------------------------------------------------------------------------------
(* Actual amounts *)

LEMMA PlanOfAppend ==
  ASSUME NEW flags, NEW s \in Seq(Row(flags)), NEW e \in Row(flags), NEW m
  PROVE  PlanOf(Append(s, e), m) = IF e.month = m THEN PlanOf(s, m) + e.plan ELSE PlanOf(s, m)
<1>1. OfMonth(s, m) \in Seq(Row(flags))
  BY OfMonthType
<1>2. OfMonth(Append(s, e), m) = IF e.month = m THEN Append(OfMonth(s, m), e) ELSE OfMonth(s, m)
  BY OfMonthAppend
<1>3. PlannedCost(Append(OfMonth(s, m), e)) = PlannedCost(OfMonth(s, m)) + e.plan
  BY <1>1, PlannedAppend
<1>4. QED
  BY <1>2, <1>3 DEF PlanOf

\* Lines that differ in their actual amounts only.
Alike(s, t) ==
  /\ Len(t) = Len(s)
  /\ \A k \in 1 .. Len(s) : t[k].month = s[k].month /\ t[k].plan = s[k].plan

LEMMA AlikePlan ==
  ASSUME NEW flags, NEW s \in Seq(Row(flags)), NEW t \in Seq(Row(flags)), Alike(s, t), NEW m
  PROVE  PlanOf(t, m) = PlanOf(s, m)
<1> DEFINE Same(u) == \A v \in Seq(Row(flags)) : Alike(u, v) => PlanOf(v, m) = PlanOf(u, m)
           P == {u \in Seq(Row(flags)) : Same(u)}
<1>1. << >> \in P
  <2>1. \A v \in Seq(Row(flags)) : Alike(<< >>, v) => v = << >>
    BY EmptySeq DEF Alike
  <2>2. << >> \in Seq(Row(flags))
    OBVIOUS
  <2>3. QED
    BY <2>1, <2>2
<1>2. ASSUME NEW u \in Seq(Row(flags)), NEW e \in Row(flags), u \in P PROVE Append(u, e) \in P
  <2>1. SUFFICES ASSUME NEW v \in Seq(Row(flags)), Alike(Append(u, e), v)
                 PROVE  PlanOf(v, m) = PlanOf(Append(u, e), m)
    BY AppendProperties
  <2> DEFINE n == Len(u)
  <2>2. n \in Nat /\ Append(u, e) \in Seq(Row(flags)) /\ Len(Append(u, e)) = n + 1
        /\ Append(u, e)[n + 1] = e /\ \A k \in 1 .. n : Append(u, e)[k] = u[k]
    BY LenProperties, AppendProperties
  <2>3. Len(v) = n + 1 /\ v # << >>
    BY <2>1, <2>2 DEF Alike
  <2>4. PICK w \in Seq(Row(flags)) : \E f \in Row(flags) : v = Append(w, f)
    BY <2>3, SequenceEmptyOrAppend
  <2>5. PICK f \in Row(flags) : v = Append(w, f)
    BY <2>4
  <2>6. Len(w) \in Nat /\ Len(v) = Len(w) + 1 /\ v[Len(w) + 1] = f
        /\ \A k \in 1 .. Len(w) : v[k] = w[k]
    BY <2>5, LenProperties, AppendProperties
  <2> HIDE DEF n
  <2>7. Len(w) = n
    BY <2>2, <2>3, <2>6
  <2>8. f.month = e.month /\ f.plan = e.plan
    BY <2>1, <2>2, <2>6, <2>7 DEF Alike
  <2>9. Alike(u, w)
    BY <2>1, <2>2, <2>6, <2>7 DEF Alike, n
  <2>10. PlanOf(w, m) = PlanOf(u, m)
    BY <1>2, <2>9
  <2>11. QED
    BY <2>5, <2>8, <2>10, PlanOfAppend
<1> HIDE DEF P
<1>3. s \in P
  BY <1>1, <1>2, SequenceInduction
<1>4. QED
  BY <1>3 DEF P

\* An actual amount leaves every planned cost as it is, whether the month has
\* several lines, one, or none.
LEMMA UpsertActualFacts ==
  ASSUME NEW flags, NEW s \in Seq(Row(flags)), NEW r \in Row(flags)
  PROVE  /\ UpsertActual(s, r) \in Seq(Row(flags))
         /\ \A m : PlanOf(UpsertActual(s, r), m) = PlanOf(s, m)
<1> DEFINE found == \E k \in DOMAIN s : s[k].month = r.month
           t == [k \in DOMAIN s |->
                   IF s[k].month = r.month THEN [s[k] EXCEPT !.actual = r.actual] ELSE s[k]]
           e == [r EXCEPT !.plan = 0]
<1>1. UpsertActual(s, r) = IF found THEN t
                           ELSE IF r.actual = SomeActual THEN Append(s, e) ELSE s
  BY DEF UpsertActual
<1>2. t \in Seq(Row(flags)) /\ Alike(s, t)
  <2>1. DOMAIN s = 1 .. Len(s) /\ Len(s) \in Nat
    BY LenProperties
  <2>2. ASSUME NEW k \in 1 .. Len(s)
        PROVE  t[k] \in Row(flags) /\ t[k].month = s[k].month /\ t[k].plan = s[k].plan
    <3>1. s[k] \in Row(flags)
      BY ElementOfSeq
    <3>2. QED
      BY <2>1, <3>1 DEF Row
  <2>3. DOMAIN t = 1 .. Len(s)
    BY <2>1
  <2> HIDE DEF t
  <2>4. t \in [1 .. Len(s) -> Row(flags)]
    <3>1. t = [k \in 1 .. Len(s) |-> t[k]]
      BY <2>1 DEF t
    <3>2. QED
      BY <2>2, <3>1
  <2>5. t \in Seq(Row(flags)) /\ Len(t) = Len(s)
    BY <2>1, <2>4
  <2>6. QED
    BY <2>2, <2>5 DEF Alike
<1>3. e \in Row(flags) /\ e.plan = 0
  BY DEF Row
<1> HIDE DEF t, e, found
<1>4. CASE found
  BY <1>1, <1>2, <1>4, AlikePlan
<1>5. CASE ~ found /\ r.actual = SomeActual
  <2>1. Append(s, e) \in Seq(Row(flags))
    BY <1>3, AppendProperties
  <2>2. ASSUME NEW m PROVE PlanOf(Append(s, e), m) = PlanOf(s, m)
    <3>1. PlanOf(s, m) \in Nat
      BY OfMonthType
    <3>2. QED
      BY <1>3, <3>1, PlanOfAppend
  <2>3. QED
    BY <1>1, <1>5, <2>1, <2>2
<1>6. CASE ~ found /\ r.actual # SomeActual
  BY <1>1, <1>6
<1>7. QED
  BY <1>4, <1>5, <1>6

LEMMA ActualsRecursion ==
  ASSUME NEW flags, NEW costs \in Seq(Row(flags)), NEW rows \in Seq(Row(flags))
  PROVE  /\ UpsertActualsUpTo(costs, rows, 0) = costs
         /\ \A k \in 1 .. Len(rows) :
              UpsertActualsUpTo(costs, rows, k) = UpsertActual(UpsertActualsUpTo(costs, rows, k - 1), rows[k])
         /\ \A k \in 0 .. Len(rows) : UpsertActualsUpTo(costs, rows, k) \in Seq(Row(flags))
<1> DEFINE n == Len(rows)
           h == [k \in 1 .. n |-> [v \in Seq(Row(flags)) |-> UpsertActual(v, rows[k])]]
           Body(g) == [k \in 0 .. n |-> IF k = 0 THEN costs ELSE UpsertActual(g[k - 1], rows[k])]
           G == CHOOSE g : g = Body(g)
<1>1. n \in Nat /\ \A k \in 1 .. n : rows[k] \in Row(flags)
  BY ElementOfSeq, LenProperties
<1>2. h \in [1 .. n -> [Seq(Row(flags)) -> Seq(Row(flags))]]
  <2> HIDE DEF n
  <2>1. \A k \in 1 .. n : \A v \in Seq(Row(flags)) : UpsertActual(v, rows[k]) \in Seq(Row(flags))
    BY <1>1, UpsertActualFacts
  <2>2. QED
    BY <2>1
<1>3. PICK F \in [0 .. n -> Seq(Row(flags))] : F[0] = costs /\ \A k \in 1 .. n : F[k] = h[k][F[k - 1]]
  <2>1. h \in Steps(n, Seq(Row(flags)))
    BY <1>2 DEF Steps
  <2> HIDE DEF h, n
  <2>2. \E F : Takes(F, n, Seq(Row(flags)), costs, h)
    BY <1>1, <2>1, Recursion
  <2>3. QED
    BY <2>2 DEF Takes
<1>4. ASSUME NEW k \in 1 .. n PROVE F[k] = UpsertActual(F[k - 1], rows[k])
  <2>1. k - 1 \in 0 .. n /\ F[k - 1] \in Seq(Row(flags))
    <3> HIDE DEF n
    <3>1. QED
      BY <1>1
  <2>2. h[k][F[k - 1]] = UpsertActual(F[k - 1], rows[k])
    BY <2>1
  <2>3. QED
    BY <2>2, <1>3
<1>5. F = Body(F)
  <2> HIDE DEF n
  <2>1. F[0] = Body(F)[0]
    BY <1>1, <1>3
  <2>2. ASSUME NEW k \in 1 .. n PROVE F[k] = Body(F)[k]
    <3>1. k \in 0 .. n /\ k # 0
      BY <1>1
    <3>2. Body(F)[k] = UpsertActual(F[k - 1], rows[k])
      BY <3>1
    <3>3. QED
      BY <1>4, <3>2
  <2>3. \A k \in 0 .. n : k = 0 \/ k \in 1 .. n
    BY <1>1
  <2>4. QED
    BY <1>3, <2>1, <2>2, <2>3
<1>6. G = Body(G)
  <2> HIDE DEF Body
  <2>1. QED
    BY <1>5
<1>7. G = [k \in 0 .. n |-> IF k = 0 THEN costs ELSE UpsertActual(G[k - 1], rows[k])]
  BY <1>6
<1>8. \A k : UpsertActualsUpTo(costs, rows, k) = G[k]
  BY DEF UpsertActualsUpTo
<1> HIDE DEF G
<1>9. G[0] = F[0]
  BY <1>1, <1>3, <1>7
<1>10. ASSUME NEW k \in 1 .. n PROVE G[k] = UpsertActual(G[k - 1], rows[k])
  <2> HIDE DEF n
  <2>1. k \in 0 .. n /\ k # 0
    BY <1>1
  <2>2. QED
    BY <1>7, <2>1
<1>11. \A k \in 0 .. n : G[k] = F[k]
  <2> HIDE DEF n
  <2>1. StepAlike(G, F, n)
    BY <1>4, <1>9, <1>10 DEF StepAlike
  <2>2. QED
    BY <1>1, <2>1, Agreement
<1> HIDE DEF n
<1>12. G[0] = costs /\ \A k \in 0 .. n : G[k] \in Seq(Row(flags))
  BY <1>1, <1>3, <1>9, <1>11
<1>13. QED
  BY <1>8, <1>10, <1>12 DEF n

LEMMA ActualsKeepEveryPlan ==
  ASSUME NEW flags, NEW costs \in Seq(Row(flags)), NEW rows \in Seq(Row(flags)), NEW m
  PROVE  \A k \in 0 .. Len(rows) : PlanOf(UpsertActualsUpTo(costs, rows, k), m) = PlanOf(costs, m)
<1> DEFINE n == Len(rows)
           P == {k \in Nat : k <= n => PlanOf(UpsertActualsUpTo(costs, rows, k), m) = PlanOf(costs, m)}
<1>1. n \in Nat /\ \A k \in 1 .. n : rows[k] \in Row(flags)
  BY ElementOfSeq, LenProperties
<1> HIDE DEF n
<1>2. 0 \in P
  BY ActualsRecursion
<1>3. ASSUME NEW k \in Nat, k \in P PROVE k + 1 \in P
  <2>1. SUFFICES ASSUME k + 1 <= n
                 PROVE  PlanOf(UpsertActualsUpTo(costs, rows, k + 1), m) = PlanOf(costs, m)
    OBVIOUS
  <2>2. k \in 0 .. n /\ k + 1 \in 1 .. n /\ (k + 1) - 1 = k /\ rows[k + 1] \in Row(flags)
    BY <1>1, <2>1
  <2>3. UpsertActualsUpTo(costs, rows, k + 1)
          = UpsertActual(UpsertActualsUpTo(costs, rows, k), rows[k + 1])
    BY <2>2, ActualsRecursion DEF n
  <2>4. UpsertActualsUpTo(costs, rows, k) \in Seq(Row(flags))
    BY <2>2, ActualsRecursion DEF n
  <2>5. PlanOf(UpsertActual(UpsertActualsUpTo(costs, rows, k), rows[k + 1]), m)
          = PlanOf(UpsertActualsUpTo(costs, rows, k), m)
    BY <2>2, <2>4, UpsertActualFacts
  <2>6. PlanOf(UpsertActualsUpTo(costs, rows, k), m) = PlanOf(costs, m)
    BY <1>3, <2>2
  <2>7. QED
    BY <2>3, <2>5, <2>6
<1> HIDE DEF P
<1>4. \A k \in Nat : k \in P
  BY <1>2, <1>3, Induction
<1>5. QED
  BY <1>1, <1>4 DEF P, n

-------------------------------------------------------------------------------
(* The planned period *)

Periods == Windows \cup {NoWindow}

LEMMA Calendar ==
  /\ Cardinality(Months) \in Nat /\ Months = 1 .. Cardinality(Months)
  /\ Periods \subseteq [start : Months \cup {0}, end : Months \cup {0}]
  /\ \A w \in Periods : w # NoWindow => w.start \in Months /\ w.end \in Months
<1>1. Cardinality(Months) \in Nat
  BY DataAssumption, FS_CardinalityType
<1>2. NoWindow \in [start : Months \cup {0}, end : Months \cup {0}]
  BY DEF NoWindow
<1>3. Windows \subseteq [start : Months, end : Months] \cup {NoWindow}
  BY DataAssumption
<1>4. QED
  BY <1>1, <1>2, <1>3, DataAssumption DEF Periods

LEMMA MonthInType ==
  ASSUME NEW flags, NEW w \in Periods, NEW r \in Row(flags)
  PROVE  MonthIn(w, r) \in Months
  BY Calendar DEF MonthIn, Outside, Row

LEMMA MovedType ==
  ASSUME NEW flags, NEW w \in Periods, NEW rows \in Seq(Row(flags)), NEW m
  PROVE  /\ MovedTo(w, rows, m) \in Seq(Row(flags))
         /\ ToSet(MovedTo(w, rows, m)) = {r \in ToSet(rows) : MonthIn(w, r) = m}
<1> DEFINE S == {r \in ToSet(rows) : MonthIn(w, r) = m}
<1>1. Among(rows, S) \in Seq(Row(flags)) /\ ToSet(Among(rows, S)) = ToSet(rows) \cap S
  BY AmongType
<1>2. QED
  BY <1>1 DEF MovedTo

LEMMA MergedLineType ==
  ASSUME NEW flags, "on" \in flags, NEW w \in Periods, NEW rows \in Seq(Row(flags)),
         NEW m \in {MonthIn(w, r) : r \in ToSet(rows)}
  PROVE  MergedLine(w, rows, m) \in Row(flags)
<1> DEFINE t == MovedTo(w, rows, m)
           A == {r.actual : r \in ToSet(t)}
<1>1. t \in Seq(Row(flags)) /\ ToSet(t) = {r \in ToSet(rows) : MonthIn(w, r) = m}
  BY MovedType
<1>2. ToSet(rows) \subseteq Row(flags)
  BY ToSetType
<1> HIDE DEF t
<1>3. PICK r \in ToSet(rows) : MonthIn(w, r) = m
  OBVIOUS
<1>4. m \in Months
  BY <1>2, <1>3, MonthInType
<1>5. PlannedCost(t) \in Nat
  BY <1>1, PlannedNat
<1>6. A \subseteq Actual /\ r.actual \in A
  BY <1>1, <1>2, <1>3 DEF Row
<1> HIDE DEF A
<1>7. \E x \in A : \A y \in A : x >= y
  <2>1. Actual = {0, 1, 2}
    BY DEF Actual, NoActual, ZeroActual, SomeActual
  <2>2. CASE 2 \in A
    BY <1>6, <2>1, <2>2
  <2>3. CASE 2 \notin A /\ 1 \in A
    BY <1>6, <2>1, <2>3
  <2>4. CASE 2 \notin A /\ 1 \notin A
    <3>1. \A y \in A : y = 0
      BY <1>6, <2>1, <2>4
    <3>2. 0 \in A
      BY <1>6, <3>1
    <3>3. QED
      BY <3>1, <3>2
  <2>5. QED
    BY <2>2, <2>3, <2>4
<1>8. Max(A) \in A
  BY <1>7 DEF Max
<1> DEFINE f == IF InflatedYears(t) = {} THEN Head(t).inflated ELSE "on"
<1>9. f \in flags
  <2>1. t # << >>
    BY <1>1, <1>3, ToSetType
  <2>2. Head(t) \in Row(flags)
    BY <1>1, <2>1, HeadTailProperties
  <2>3. QED
    BY <2>2 DEF Row
<1>10. MergedLine(w, rows, m) = [month |-> m, plan |-> PlannedCost(t), actual |-> Max(A), inflated |-> f]
  BY DEF MergedLine, A, t
<1> HIDE DEF f
<1>11. QED
  BY <1>4, <1>5, <1>6, <1>8, <1>9, <1>10 DEF Row

\* The months that hold a line once costs have moved, in order.
MonthsHeld(w, rows) == Among([m \in Months |-> m], {MonthIn(w, r) : r \in ToSet(rows)})

LEMMA MonthsHeldType ==
  ASSUME NEW flags, NEW w \in Periods, NEW rows \in Seq(Row(flags))
  PROVE  /\ [m \in Months |-> m] \in Seq(Months) /\ ToSet([m \in Months |-> m]) = Months
         /\ MonthsHeld(w, rows) \in Seq(Months)
         /\ ToSet(MonthsHeld(w, rows)) = {MonthIn(w, r) : r \in ToSet(rows)}
<1> DEFINE c == Cardinality(Months)
           all == [m \in Months |-> m]
           S == {MonthIn(w, r) : r \in ToSet(rows)}
<1>1. c \in Nat /\ Months = 1 .. c
  BY Calendar
<1> HIDE DEF c
<1>2. all \in Seq(Months) /\ DOMAIN all = Months
  <2>1. all \in [1 .. c -> Months]
    BY <1>1
  <2>2. QED
    BY <1>1, <2>1
<1>3. ToSet(all) = Months
  BY <1>2 DEF ToSet
<1>4. S \subseteq Months
  BY ToSetType, MonthInType
<1> HIDE DEF all, S
<1>5. Among(all, S) \in Seq(Months) /\ ToSet(Among(all, S)) = ToSet(all) \cap S
  BY <1>2, AmongType
<1>6. QED
  BY <1>2, <1>3, <1>4, <1>5 DEF MonthsHeld, all, S

LEMMA NormalizeType ==
  ASSUME NEW flags, "on" \in flags, NEW w \in Periods, NEW rows \in Seq(Row(flags))
  PROVE  Normalize(w, rows) \in Seq(Row(flags))
<1> DEFINE ms == MonthsHeld(w, rows)
           N == [k \in DOMAIN ms |-> MergedLine(w, rows, ms[k])]
<1>1. CASE w = NoWindow
  BY <1>1 DEF Normalize
<1>2. CASE w # NoWindow
  <2>1. ms \in Seq(Months) /\ ToSet(ms) = {MonthIn(w, r) : r \in ToSet(rows)}
    BY MonthsHeldType
  <2>2. Normalize(w, rows) = N
    BY <1>2 DEF Normalize, MonthsHeld
  <2> HIDE DEF ms
  <2>3. DOMAIN ms = 1 .. Len(ms) /\ Len(ms) \in Nat
    BY <2>1, LenProperties
  <2>4. \A k \in 1 .. Len(ms) : ms[k] \in ToSet(ms)
    BY <2>1, ToSetType
  <2>5. \A k \in 1 .. Len(ms) : MergedLine(w, rows, ms[k]) \in Row(flags)
    BY <2>1, <2>4, MergedLineType
  <2>6. N \in [1 .. Len(ms) -> Row(flags)]
    BY <2>3, <2>5
  <2>7. QED
    BY <2>2, <2>3, <2>6
<1>3. QED
  BY <1>1, <1>2

-------------------------------------------------------------------------------
(* What handlers leave has the type of a grid; the bounds on a grid do the rest *)

Wide == [costs : Seq(Row(Flags)), plan : Amounts \cup {0}, actual : Amounts \cup {0}]

Narrow == [costs : Seq(CostLine), plan : Amounts \cup {0}, actual : Amounts \cup {0}]

LEMMA NarrowIsWide ==
  /\ Narrow \subseteq Wide
  /\ \A g \in Wide : Fits(g) => g \in Narrow
<1>1. ASSUME NEW g \in Narrow PROVE g \in Wide
  <2>1. g.costs \in Seq(Row(Flags))
    BY RequestsAreRows, SeqMonotonic DEF Narrow
  <2>2. QED
    BY <2>1 DEF Narrow, Wide
<1>2. ASSUME NEW g \in Wide, Fits(g) PROVE g \in Narrow
  <2> DEFINE c == g.costs
  <2>1. c \in Seq(Row(Flags)) /\ \A r \in ToSet(c) : r.plan =< MaxAmount
    BY <1>2 DEF Wide, Fits
  <2> HIDE DEF c
  <2>2. Len(c) \in Nat /\ c \in [1 .. Len(c) -> Row(Flags)] /\ \A k \in 1 .. Len(c) : c[k] \in ToSet(c)
    BY <2>1, LenProperties, ToSetType
  <2>3. \A k \in 1 .. Len(c) : c[k] \in CostLine
    <3>1. SUFFICES ASSUME NEW k \in 1 .. Len(c) PROVE c[k] \in CostLine
      OBVIOUS
    <3>2. c[k] \in Row(Flags) /\ c[k].plan =< MaxAmount
      BY <2>1, <2>2
    <3>3. c[k].plan \in 0 .. MaxAmount
      BY <3>2, DataAssumption DEF Row
    <3>4. QED
      BY <3>2, <3>3 DEF Row, CostLine, Actual
  <2>4. c \in [1 .. Len(c) -> CostLine]
    BY <2>2, <2>3
  <2>5. c \in Seq(CostLine)
    BY <2>2, <2>4
  <2>6. QED
    BY <2>5 DEF c, Wide, Narrow
<1>3. QED
  BY <1>1, <1>2

LEMMA WithCosts ==
  ASSUME NEW g \in Wide, NEW c \in Seq(Row(Flags))
  PROVE  [g EXCEPT !.costs = c] \in Wide
  BY DEF Wide

\* Deleting lines of a month leaves the other months, and no more of this one.
LEMMA DeletionsType ==
  ASSUME NEW flags, NEW s \in Seq(Row(flags)), NEW n, NEW c \in Deletions(s, n), NEW m
  PROVE  /\ c \in Seq(Row(flags))
         /\ m # n => OfMonth(c, m) = OfMonth(s, m)
         /\ PlanOf(c, m) <= PlanOf(s, m)
<1>1. PICK S \in SUBSET {r \in ToSet(s) : r.month = n} : c = Among(s, ToSet(s) \ S)
  BY DEF Deletions
<1> DEFINE T == ToSet(s) \ S
           I == InMonth(flags, m)
<1>2. c = Among(s, T) /\ c \in Seq(Row(flags))
  BY <1>1, AmongType
<1>3. OfMonth(s, m) = Among(s, I) /\ OfMonth(c, m) = Among(c, I)
  BY <1>2, MonthsAmong
<1>4. m # n => ToSet(s) \cap (T \cap I) = ToSet(s) \cap I
  BY DEF InMonth
<1> HIDE DEF T, I
<1>5. OfMonth(c, m) = Among(s, T \cap I)
  BY <1>2, <1>3, AmongTwice
<1>6. m # n => OfMonth(c, m) = OfMonth(s, m)
  BY <1>3, <1>4, <1>5, AmongSame
<1>7. PlanOf(c, m) <= PlanOf(s, m)
  <2>1. Among(Among(s, I), T) = Among(s, I \cap T) /\ I \cap T = T \cap I
    BY AmongTwice
  <2>2. OfMonth(c, m) = Among(OfMonth(s, m), T)
    BY <1>3, <1>5, <2>1
  <2>3. OfMonth(s, m) \in Seq(Row(flags))
    BY OfMonthType
  <2>4. PlannedCost(Among(OfMonth(s, m), T)) <= PlannedCost(OfMonth(s, m))
    BY <2>3, PlannedPart
  <2>5. QED
    BY <2>2, <2>4 DEF PlanOf
<1>8. QED
  BY <1>2, <1>6, <1>7

LEMMA InterruptedType ==
  ASSUME NEW flags, NEW costs \in Seq(Row(flags)), NEW rows \in Seq(Row(flags))
  PROVE  /\ InterruptedUpserts(costs, rows) \subseteq Seq(Row(flags))
         /\ UpsertLines(costs, rows) \in Seq(Row(flags))
<1>1. Len(rows) \in Nat /\ DOMAIN rows = 1 .. Len(rows)
  BY LenProperties
<1>2. \A k \in 0 .. Len(rows) : UpsertUpTo(costs, rows, k) \in Seq(Row(flags))
  BY UpsertRecursion
<1>3. UpsertLines(costs, rows) \in Seq(Row(flags))
  <2>1. Len(rows) \in 0 .. Len(rows)
    BY <1>1
  <2>2. QED
    BY <1>2, <2>1 DEF UpsertLines
<1>4. ASSUME NEW k \in DOMAIN rows, NEW c \in Deletions(UpsertUpTo(costs, rows, k - 1), rows[k].month)
      PROVE  c \in Seq(Row(flags))
  <2>1. k - 1 \in 0 .. Len(rows)
    BY <1>1
  <2>2. UpsertUpTo(costs, rows, k - 1) \in Seq(Row(flags))
    BY <1>2, <2>1
  <2>3. QED
    BY <2>2, DeletionsType
<1>5. QED
  BY <1>3, <1>4 DEF InterruptedUpserts

-------------------------------------------------------------------------------
(* Inflation *)

LEMMA Minimum ==
  ASSUME NEW S \in SUBSET Nat, S # {}
  PROVE  Min(S) \in S /\ \A x \in S : Min(S) <= x
<1> DEFINE R == {ss \in Nat \X Nat : ss[1] < ss[2]}
<1>1. IsWellFoundedOn(R, Nat)
  BY NatLessThanWellFounded DEF OpToRel
<1>2. PICK x \in S : \A y \in S : ~ (<<y, x>> \in R)
  <2> HIDE DEF R
  <2>1. QED
    BY <1>1, WFMin
<1>3. \A y \in S : x <= y
  <2>1. ASSUME NEW y \in S PROVE x <= y
    <3>1. x \in Nat /\ y \in Nat
      OBVIOUS
    <3>2. <<y, x>> \in Nat \X Nat /\ <<y, x>>[1] = y /\ <<y, x>>[2] = x
      BY <3>1
    <3>3. ~ (y < x)
      BY <1>2, <3>2
    <3>4. QED
      BY <3>1, <3>3
  <2>2. QED
    BY <2>1
<1>4. QED
  BY <1>3 DEF Min

LEMMA ResolvedType ==
  ASSUME NEW r \in Row(Asked)
  PROVE  /\ Resolved(r) \in Row(Flags)
         /\ Resolved(r).month = r.month /\ Resolved(r).plan = r.plan
         /\ r.inflated \in Flags => Resolved(r) = r
<1>1. Unasked \notin Flags
  BY DEF Unasked, Flags
<1>2. CASE r.inflated = Unasked
  BY <1>1, <1>2 DEF Resolved, Row, Flags, Asked
<1>3. CASE r.inflated # Unasked
  BY <1>3 DEF Resolved, Row, Asked
<1>4. QED
  BY <1>2, <1>3

LEMMA InflatedYearsType ==
  ASSUME NEW flags, NEW rows \in Seq(Row(flags))
  PROVE  InflatedYears(rows) \subseteq Nat
<1>1. ToSet(rows) \subseteq Row(flags)
  BY ToSetType
<1>2. \A r \in ToSet(rows) : Year[r.month] \in Nat
  BY <1>1, DataAssumption DEF Row
<1>3. QED
  BY <1>2 DEF InflatedYears

\* Inflation raises a planned amount or leaves it, and changes nothing else.
LEMMA InflatedType ==
  ASSUME NEW rows \in Seq(Row(Flags)), NEW r \in ToSet(rows)
  PROVE  /\ Inflated(rows, r) \in Row(Flags)
         /\ Inflated(rows, r).month = r.month /\ Inflated(rows, r).plan >= r.plan
         /\ InflatedYears(rows) = {} => Inflated(rows, r) = r
<1> DEFINE Y == InflatedYears(rows)
           f == Growth[Year[r.month] - Min(Y)]
<1>1. ToSet(rows) \subseteq Row(Flags)
  BY ToSetType
<1>2. r \in Row(Flags) /\ r.plan \in Nat /\ r.month \in Months
  BY <1>1 DEF Row
<1>3. CASE r.inflated # "on"
  BY <1>2, <1>3 DEF Inflated
<1>4. CASE r.inflated = "on"
  <2>1. Year[r.month] \in Y
    BY <1>4 DEF InflatedYears
  <2>2. Min(Y) \in Y /\ Min(Y) <= Year[r.month]
    BY <2>1, InflatedYearsType, Minimum
  <2>3. PICK q \in ToSet(rows) : Min(Y) = Year[q.month]
    BY <2>2 DEF InflatedYears
  <2>4. q.month \in Months
    BY <1>1 DEF Row
  <2>5. f \in Nat \ {0}
    BY <1>2, <2>2, <2>3, <2>4, DataAssumption
  <2>6. Inflated(rows, r) = [r EXCEPT !.plan = @ * f]
    BY <1>4 DEF Inflated
  <2> HIDE DEF f, Y
  <2>7. r.plan * f \in Nat /\ r.plan * f >= r.plan
    BY <1>2, <2>5
  <2>8. QED
    BY <1>2, <2>1, <2>6, <2>7 DEF Row, Y
<1>5. QED
  BY <1>3, <1>4

LEMMA PreparedLinesType ==
  ASSUME NEW rows \in Seq(Row(Asked))
  PROVE  /\ PreparedLines(rows) \in Seq(Row(Flags))
         /\ Len(PreparedLines(rows)) = Len(rows)
         /\ \A k \in 1 .. Len(rows) : /\ PreparedLines(rows)[k].month = rows[k].month
                                      /\ PreparedLines(rows)[k].plan >= rows[k].plan
         /\ (rows \in Seq(Row(Flags)) /\ InflatedYears(rows) = {}) => PreparedLines(rows) = rows
<1> DEFINE n == Len(rows)
           resolved == [k \in DOMAIN rows |-> Resolved(rows[k])]
           P == PreparedLines(rows)
<1>1. n \in Nat /\ DOMAIN rows = 1 .. n /\ \A k \in 1 .. n : rows[k] \in Row(Asked)
  BY LenProperties, ElementOfSeq
<1>2. P = [k \in 1 .. n |-> Inflated(resolved, resolved[k])]
  BY <1>1 DEF PreparedLines
<1>3. \A k \in 1 .. n : /\ resolved[k] \in Row(Flags)
                        /\ resolved[k].month = rows[k].month /\ resolved[k].plan = rows[k].plan
  BY <1>1, ResolvedType
<1>4. resolved \in Seq(Row(Flags)) /\ Len(resolved) = n
  <2>1. resolved \in [1 .. n -> Row(Flags)]
    BY <1>1, <1>3
  <2>2. QED
    BY <1>1, <2>1
<1>5. (rows \in Seq(Row(Flags))) => resolved = rows
  <2>1. SUFFICES ASSUME rows \in Seq(Row(Flags)) PROVE resolved = rows
    OBVIOUS
  <2>2. \A k \in 1 .. n : rows[k].inflated \in Flags
    <3>1. \A k \in 1 .. n : rows[k] \in Row(Flags)
      BY <2>1, ElementOfSeq
    <3>2. QED
      BY <3>1 DEF Row
  <2>3. \A k \in 1 .. n : resolved[k] = rows[k]
    BY <1>1, <2>2, ResolvedType
  <2>4. rows = [k \in 1 .. n |-> rows[k]]
    BY <1>1
  <2>5. DOMAIN resolved = 1 .. n
    BY <1>1
  <2> HIDE DEF n
  <2>6. resolved = [k \in 1 .. n |-> rows[k]]
    BY <1>1, <2>3
  <2>7. QED
    BY <2>4, <2>6
<1> HIDE DEF resolved, n, P
<1>6. \A k \in 1 .. n : resolved[k] \in ToSet(resolved)
  BY <1>4, ToSetType
<1>7. \A k \in 1 .. n :
         /\ Inflated(resolved, resolved[k]) \in Row(Flags)
         /\ Inflated(resolved, resolved[k]).month = resolved[k].month
         /\ Inflated(resolved, resolved[k]).plan >= resolved[k].plan
         /\ InflatedYears(resolved) = {} => Inflated(resolved, resolved[k]) = resolved[k]
  BY <1>4, <1>6, InflatedType
<1>8. P \in [1 .. n -> Row(Flags)]
  BY <1>2, <1>7
<1>9. P \in Seq(Row(Flags)) /\ Len(P) = n
  BY <1>1, <1>2, <1>8
<1>10. \A k \in 1 .. n : P[k].month = rows[k].month /\ P[k].plan >= rows[k].plan
  BY <1>2, <1>3, <1>7
<1>11. (rows \in Seq(Row(Flags)) /\ InflatedYears(rows) = {}) => P = rows
  <2>1. SUFFICES ASSUME rows \in Seq(Row(Flags)), InflatedYears(rows) = {} PROVE P = rows
    OBVIOUS
  <2>2. \A k \in 1 .. n : Inflated(resolved, resolved[k]) = rows[k]
    BY <1>5, <1>7, <2>1
  <2>3. rows = [k \in 1 .. n |-> rows[k]]
    BY <1>1
  <2>4. QED
    BY <1>2, <2>2, <2>3
<1>12. QED
  BY <1>9, <1>10, <1>11 DEF n, P

LEMMA AdmittedType ==
  ASSUME NEW rows \in Seq(Row(Asked))
  PROVE  Admitted(rows) \in Seq(Row(Flags))
<1>1. << >> \in Seq(Row(Flags))
  OBVIOUS
<1>2. QED
  BY <1>1, PreparedLinesType DEF Admitted

\* A stored line is one a request might name.
LEMMA StoredIsAsked ==
  /\ "on" \in Flags /\ "on" \in Asked
  /\ Seq(Row(Flags)) \subseteq Seq(Row(Asked))
<1>1. Row(Flags) \subseteq Row(Asked)
  BY DEF Row, Asked
<1>2. QED
  BY <1>1, SeqMonotonic DEF Flags, Asked

LEMMA DeletedType ==
  ASSUME NEW g \in Wide, NEW manages
  PROVE  /\ DeletedGrid(g, manages) \in Wide
         /\ InterruptedDeletes(g) \subseteq Wide
<1>1. << >> \in Seq(Row(Flags))
  OBVIOUS
<1>2. EmptyGrid \in Wide
  BY <1>1 DEF EmptyGrid, Wide
<1>3. [g EXCEPT !.costs = << >>] \in Wide
  BY <1>1, WithCosts
<1>4. QED
  BY <1>2, <1>3 DEF DeletedGrid, InterruptedDeletes

LEMMA MigrationType ==
  ASSUME NEW w \in Periods, NEW g \in Wide, NEW manages
  PROVE  MigrationOutcomes(w, g, manages) \subseteq Wide
<1> DEFINE d == DeletedGrid(g, manages)
           N == Admitted(Normalize(w, g.costs))
<1>1. g.costs \in Seq(Row(Flags)) /\ N \in Seq(Row(Flags))
  <2>1. g.costs \in Seq(Row(Flags))
    BY DEF Wide
  <2>2. Normalize(w, g.costs) \in Seq(Row(Flags))
    BY <2>1, StoredIsAsked, NormalizeType
  <2>3. QED
    BY <2>1, <2>2, StoredIsAsked, AdmittedType
<1>2. d \in Wide /\ InterruptedDeletes(g) \subseteq Wide
  BY DeletedType
<1> HIDE DEF d, N
<1>3. UpsertLines(<< >>, N) \in Seq(Row(Flags)) /\ InterruptedUpserts(<< >>, N) \subseteq Seq(Row(Flags))
  <2>1. << >> \in Seq(Row(Flags))
    OBVIOUS
  <2>2. QED
    BY <1>1, <2>1, InterruptedType
<1>4. Migrated(w, g, manages) \in Wide
  BY <1>2, <1>3, WithCosts DEF Migrated, d, N
<1>5. {[d EXCEPT !.costs = c] : c \in InterruptedUpserts(<< >>, N)} \subseteq Wide
  BY <1>2, <1>3, WithCosts
<1>6. QED
  BY <1>2, <1>4, <1>5 DEF MigrationOutcomes, d, N

LEMMA KeepingPlanType ==
  ASSUME NEW flags, NEW costs \in Seq(Row(flags)), NEW rows \in Seq(Row(flags))
  PROVE  /\ KeepingPlan(costs, rows) \in Seq(Row(flags))
         /\ \A k \in 1 .. Len(KeepingPlan(costs, rows)) :
               LET r == KeepingPlan(costs, rows)[k]
               IN  r \in Row(flags) /\ r.plan <= PlanOf(costs, r.month)
<1> DEFINE S == {r \in ToSet(rows) : OfMonth(costs, r.month) # << >>}
           known == Among(rows, S)
           K == [k \in DOMAIN known |->
                   [known[k] EXCEPT !.plan = Last(OfMonth(costs, known[k].month)).plan]]
<1>1. known \in Seq(Row(flags)) /\ ToSet(known) = ToSet(rows) \cap S
  BY AmongType
<1>2. KeepingPlan(costs, rows) = K
  BY DEF KeepingPlan
<1> HIDE DEF known
<1>3. DOMAIN known = 1 .. Len(known) /\ Len(known) \in Nat
      /\ \A k \in 1 .. Len(known) : known[k] \in ToSet(known) /\ known[k] \in Row(flags)
  BY <1>1, LenProperties, ToSetType, ElementOfSeq
<1>4. ASSUME NEW k \in 1 .. Len(known)
      PROVE  K[k] \in Row(flags) /\ K[k].plan <= PlanOf(costs, K[k].month)
  <2> DEFINE q == known[k]
             e == Last(OfMonth(costs, q.month))
  <2>1. q \in Row(flags) /\ OfMonth(costs, q.month) # << >>
    BY <1>1, <1>3
  <2>2. e \in Row(flags) /\ e.plan <= PlanOf(costs, q.month)
    BY <2>1, MonthElement
  <2>3. K[k] = [q EXCEPT !.plan = e.plan]
    BY <1>3
  <2> HIDE DEF q, e, K
  <2>4. K[k] \in Row(flags) /\ K[k].plan = e.plan /\ K[k].month = q.month
    BY <2>1, <2>2, <2>3 DEF Row
  <2>5. QED
    BY <2>2, <2>4
<1>5. DOMAIN K = 1 .. Len(known)
  BY <1>3
<1> HIDE DEF K
<1>6. K \in Seq(Row(flags)) /\ Len(K) = Len(known)
  <2>1. K = [k \in 1 .. Len(known) |-> K[k]]
    BY <1>5 DEF K
  <2>2. K \in [1 .. Len(known) -> Row(flags)]
    BY <1>4, <2>1
  <2>3. QED
    BY <1>3, <2>2
<1>7. QED
  BY <1>2, <1>4, <1>6

LEMMA ImportType ==
  ASSUME NEW w \in Periods, NEW g \in Wide, NEW locked, NEW lines \in Seq(Row(Asked)), NEW manages
  PROVE  /\ RowsToImport(w, g, locked, lines) \in Seq(Row(Flags))
         /\ ImportOutcomes(w, g, locked, lines, manages) \subseteq Wide
         /\ [g EXCEPT !.costs = UpsertLines(@, RowsToImport(w, g, locked, lines))] \in Wide
<1> DEFINE rows == RowsToImport(w, g, locked, lines)
           done == [g EXCEPT !.costs = UpsertLines(@, rows)]
<1>1. g.costs \in Seq(Row(Flags))
  BY DEF Wide
<1>2. rows \in Seq(Row(Flags))
  <2>1. Admitted(Normalize(w, lines)) \in Seq(Row(Flags))
    BY StoredIsAsked, NormalizeType, AdmittedType
  <2>2. QED
    BY <1>1, <2>1, KeepingPlanType DEF RowsToImport
<1>3. done = [g EXCEPT !.costs = UpsertLines(g.costs, rows)]
  BY DEF Wide
<1> HIDE DEF rows
<1>4. UpsertLines(g.costs, rows) \in Seq(Row(Flags)) /\ InterruptedUpserts(g.costs, rows) \subseteq Seq(Row(Flags))
  BY <1>1, <1>2, InterruptedType
<1>5. done \in Wide
  BY <1>3, <1>4, WithCosts
<1>6. MigrationOutcomes(w, done, manages) \subseteq Wide
  BY <1>5, MigrationType
<1>7. {[g EXCEPT !.costs = c] : c \in InterruptedUpserts(g.costs, rows)} \subseteq Wide
  BY <1>4, WithCosts
<1>8. ImportOutcomes(w, g, locked, lines, manages) \subseteq Wide
  <2> HIDE DEF done
  <2>1. ImportOutcomes(w, g, locked, lines, manages)
          \subseteq {[g EXCEPT !.costs = c] : c \in InterruptedUpserts(g.costs, rows)}
                       \cup {done} \cup MigrationOutcomes(w, done, manages)
    BY DEF ImportOutcomes, rows, done
  <2>2. QED
    BY <1>5, <1>6, <1>7, <2>1
<1>9. QED
  BY <1>2, <1>5, <1>8 DEF rows, done

LEMMA ReplaceType ==
  ASSUME NEW w \in Periods, NEW g \in Wide, NEW locked, NEW lines \in Seq(Row(Asked)), NEW manages
  PROVE  ReplaceOutcomes(w, g, locked, lines, manages) \subseteq Wide
  BY DeletedType, ImportType DEF ReplaceOutcomes

LEMMA SaveType ==
  ASSUME NEW g \in Wide, NEW lines \in Seq(Row(Asked)), NEW plan \in Amounts \cup {0},
         NEW actual \in Amounts \cup {0}
  PROVE  SaveOutcomes(g, lines, plan, actual) \subseteq Wide
<1> DEFINE done == [costs |-> UpsertLines(g.costs, PreparedLines(lines)), plan |-> plan, actual |-> actual]
<1>1. g.costs \in Seq(Row(Flags)) /\ Admitted(lines) \in Seq(Row(Flags))
      /\ PreparedLines(lines) \in Seq(Row(Flags))
  BY AdmittedType, PreparedLinesType DEF Wide
<1>2. UpsertLines(g.costs, PreparedLines(lines)) \in Seq(Row(Flags))
      /\ InterruptedUpserts(g.costs, Admitted(lines)) \subseteq Seq(Row(Flags))
  BY <1>1, InterruptedType
<1>3. done \in Wide
  BY <1>2 DEF Wide
<1>4. {[g EXCEPT !.costs = c] : c \in InterruptedUpserts(g.costs, Admitted(lines))} \subseteq Wide
  BY <1>2, WithCosts
<1> HIDE DEF done
<1>5. SaveOutcomes(g, lines, plan, actual)
        \subseteq {[g EXCEPT !.costs = c] : c \in InterruptedUpserts(g.costs, Admitted(lines))}
                     \cup {g} \cup {done}
  BY DEF SaveOutcomes, done
<1>6. QED
  BY <1>3, <1>4, <1>5

\* Entering actuals keeps the plan of a grid, row by row.
LEMMA LockedSaveFacts ==
  ASSUME NEW g \in Wide, NEW lines \in Seq(Row(Asked)), NEW actual \in Amounts \cup {0},
         NEW h \in LockedSaveOutcomes(g, lines, actual)
  PROVE  h \in Wide /\ SamePlan(g, h)
<1> DEFINE values == [g EXCEPT !.actual = actual]
           set == PreparedLines(lines)
           rows == Among(set, {r \in ToSet(set) : r.actual # NoActual})
<1>1. values \in Wide /\ values.costs = g.costs /\ values.plan = g.plan /\ g.costs \in Seq(Row(Flags))
  BY DEF Wide
<1>2. rows \in Seq(Row(Flags))
  BY PreparedLinesType, AmongType
<1>3. h = values \/ \E k \in 0 .. Len(rows) : h = [values EXCEPT !.costs = UpsertActualsUpTo(g.costs, rows, k)]
  <2>1. Len(rows) \in Nat
    BY <1>2, LenProperties
  <2>2. h = values \/ \E k \in IF MayFail THEN 0 .. Len(rows) ELSE {Len(rows)} :
                        h = [values EXCEPT !.costs = UpsertActualsUpTo(g.costs, rows, k)]
    BY DEF LockedSaveOutcomes
  <2>3. \A k \in IF MayFail THEN 0 .. Len(rows) ELSE {Len(rows)} : k \in 0 .. Len(rows)
    BY <2>1
  <2>4. QED
    BY <2>2, <2>3
<1> HIDE DEF values, rows
<1>4. CASE h = values
  BY <1>1, <1>4 DEF SamePlan
<1>5. ASSUME NEW k \in 0 .. Len(rows), h = [values EXCEPT !.costs = UpsertActualsUpTo(g.costs, rows, k)]
      PROVE  h \in Wide /\ SamePlan(g, h)
  <2> DEFINE c == UpsertActualsUpTo(g.costs, rows, k)
  <2>1. c \in Seq(Row(Flags))
    BY <1>1, <1>2, ActualsRecursion
  <2>2. \A m \in Months : PlanOf(c, m) = PlanOf(g.costs, m)
    BY <1>1, <1>2, ActualsKeepEveryPlan
  <2> HIDE DEF c
  <2>3. h = [values EXCEPT !.costs = c]
    BY <1>5 DEF c
  <2>4. h \in Wide /\ h.costs = c /\ h.plan = g.plan
    BY <1>1, <2>1, <2>3 DEF Wide
  <2>5. QED
    BY <2>2, <2>4 DEF SamePlan
<1>6. QED
  BY <1>3, <1>4, <1>5

LEMMA EditsType ==
  ASSUME NEW g \in Wide, NEW r \in Row(Flags)
  PROVE  /\ [g EXCEPT !.costs = Append(@, r)] \in Wide
         /\ \A k \in DOMAIN g.costs : /\ [g EXCEPT !.costs[k] = r] \in Wide
                                      /\ [g EXCEPT !.costs[k] = r].plan = g.plan
                                      /\ [g EXCEPT !.costs = RemoveAt(@, k)] \in Wide
<1> DEFINE c == g.costs
<1>1. c \in Seq(Row(Flags))
  BY DEF Wide
<1>2. Append(c, r) \in Seq(Row(Flags))
  BY <1>1, AppendProperties
<1>3. [g EXCEPT !.costs = Append(@, r)] \in Wide
  BY <1>2, WithCosts
<1>4. ASSUME NEW k \in DOMAIN c
      PROVE  /\ [g EXCEPT !.costs[k] = r] \in Wide
             /\ [g EXCEPT !.costs[k] = r].plan = g.plan
             /\ [g EXCEPT !.costs = RemoveAt(@, k)] \in Wide
  <2>1. k \in 1 .. Len(c) /\ Len(c) \in Nat
    BY <1>1, LenProperties
  <2>2. [c EXCEPT ![k] = r] \in Seq(Row(Flags))
    BY <1>1, <2>1, ExceptSeq
  <2>3. [g EXCEPT !.costs[k] = r] = [g EXCEPT !.costs = [c EXCEPT ![k] = r]]
    BY DEF Wide
  <2>4. SubSeq(c, 1, k - 1) \in Seq(Row(Flags))
    <3>1. 1 \in Int /\ k - 1 \in Int /\ \A j \in 1 .. k - 1 : c[j] \in Row(Flags)
      BY <1>1, <2>1, ElementOfSeq
    <3>2. QED
      BY <3>1, SubSeqProperties
  <2>5. SubSeq(c, k + 1, Len(c)) \in Seq(Row(Flags))
    <3>1. k + 1 \in Int /\ Len(c) \in Int /\ \A j \in k + 1 .. Len(c) : c[j] \in Row(Flags)
      BY <1>1, <2>1, ElementOfSeq
    <3>2. QED
      BY <3>1, SubSeqProperties
  <2>6. RemoveAt(c, k) \in Seq(Row(Flags))
    BY <2>4, <2>5, ConcatProperties DEF RemoveAt
  <2>7. [g EXCEPT !.costs = RemoveAt(@, k)] \in Wide
    BY <2>6, WithCosts
  <2>8. [g EXCEPT !.costs[k] = r] \in Wide
    BY <2>2, <2>3, WithCosts
  <2>9. QED
    BY <2>7, <2>8 DEF Wide
<1>5. QED
  BY <1>3, <1>4

-------------------------------------------------------------------------------
(* The types *)

LEMMA WriteType ==
  ASSUME TypeOK, NEW i \in Initiatives, NEW outcomes \in SUBSET Wide, Write(i, outcomes)
  PROVE  /\ TypeOK'
         /\ grid'[i] \in outcomes
         /\ \A j \in Initiatives \ {i} : grid'[j] = grid[j]
         /\ UNCHANGED <<ledger, planLock, inflationMode, window>>
<1>1. PICK g \in outcomes : Fits(g) /\ grid' = [grid EXCEPT ![i] = g]
  BY DEF Write
<1>2. g \in Narrow
  BY <1>1, NarrowIsWide
<1>3. grid \in [Initiatives -> Narrow]
  BY DEF TypeOK, Narrow
<1>4. grid' \in [Initiatives -> Narrow]
  BY <1>1, <1>2, <1>3
<1>5. UNCHANGED <<ledger, planLock, inflationMode, window>>
  BY DEF Write
<1>6. QED
  BY <1>1, <1>3, <1>4, <1>5 DEF TypeOK, Narrow

LEMMA StateIsWide ==
  ASSUME TypeOK, NEW i \in Initiatives
  PROVE  grid[i] \in Wide /\ window[i] \in Periods
<1>1. grid[i] \in Narrow /\ window[i] \in Periods
  BY DEF TypeOK, Narrow, Periods
<1>2. QED
  BY <1>1, NarrowIsWide

\* What a step may do to the plan of an initiative that is locked.
AllowedUnderLock(i) ==
  (Locked(i) /\ ~ SamePlan(grid[i], grid'[i]))
    => \/ grid'[i].plan = grid[i].plan /\ (EditsLine(i) \/ Imports(i))
       \/ Replaces(i)

LEMMA OthersKeep ==
  ASSUME NEW i \in Initiatives, \A j \in Initiatives \ {i} : grid'[j] = grid[j], AllowedUnderLock(i)
  PROVE  \A j \in Initiatives : AllowedUnderLock(j)
<1>1. ASSUME NEW j \in Initiatives \ {i} PROVE AllowedUnderLock(j)
  BY <1>1 DEF AllowedUnderLock, SamePlan
<1>2. QED
  BY <1>1

LEMMA SaveGridStep ==
  ASSUME TypeOK, NEW i \in Initiatives, NEW lines \in Requests, NEW plan \in Amounts,
         NEW actual \in Amounts, SaveGrid(i, lines, plan, actual)
  PROVE  TypeOK' /\ \A j \in Initiatives : AllowedUnderLock(j)
<1> DEFINE outcomes == SaveOutcomes(grid[i], lines, plan, actual)
<1>1. outcomes \in SUBSET Wide
  BY StateIsWide, RequestsAreRows, SaveType
<1>2. Write(i, outcomes) /\ ~ Locked(i)
  BY DEF SaveGrid
<1> HIDE DEF outcomes
<1>3. TypeOK' /\ \A j \in Initiatives \ {i} : grid'[j] = grid[j]
  BY <1>1, <1>2, WriteType
<1>4. AllowedUnderLock(i)
  BY <1>2 DEF AllowedUnderLock
<1>5. QED
  BY <1>3, <1>4, OthersKeep

LEMMA SaveLockedActualsStep ==
  ASSUME TypeOK, NEW i \in Initiatives, NEW lines \in Requests, NEW actual \in Amounts,
         SaveLockedActuals(i, lines, actual)
  PROVE  TypeOK' /\ \A j \in Initiatives : AllowedUnderLock(j)
<1> DEFINE outcomes == LockedSaveOutcomes(grid[i], lines, actual)
<1>1. \A h \in outcomes : h \in Wide /\ SamePlan(grid[i], h)
  BY StateIsWide, RequestsAreRows, LockedSaveFacts
<1>2. Write(i, outcomes)
  BY DEF SaveLockedActuals
<1> HIDE DEF outcomes
<1>3. TypeOK' /\ grid'[i] \in outcomes /\ \A j \in Initiatives \ {i} : grid'[j] = grid[j]
  BY <1>1, <1>2, WriteType
<1>4. AllowedUnderLock(i)
  BY <1>1, <1>3 DEF AllowedUnderLock
<1>5. QED
  BY <1>3, <1>4, OthersKeep

LEMMA ImportGridStep ==
  ASSUME TypeOK, NEW i \in Initiatives, NEW lines \in Requests, NEW manages \in BOOLEAN,
         ImportGrid(i, lines, manages)
  PROVE  TypeOK' /\ \A j \in Initiatives : AllowedUnderLock(j)
<1> DEFINE outcomes == ImportOutcomes(window[i], grid[i], Locked(i), lines, manages)
<1>1. grid[i] \in Wide /\ window[i] \in Periods /\ lines \in Seq(Row(Asked))
  BY StateIsWide, RequestsAreRows
<1>2. outcomes \in SUBSET Wide
  BY <1>1, ImportType
<1>3. ASSUME Locked(i), NEW h \in outcomes PROVE h.plan = grid[i].plan
  <2>1. \E c : h = [grid[i] EXCEPT !.costs = c]
    BY <1>1, <1>3 DEF ImportOutcomes, Wide
  <2>2. QED
    BY <1>1, <2>1 DEF Wide
<1>4. Write(i, outcomes) /\ Imports(i)
  BY DEF ImportGrid, Imports
<1> HIDE DEF outcomes
<1>5. TypeOK' /\ grid'[i] \in outcomes /\ \A j \in Initiatives \ {i} : grid'[j] = grid[j]
  BY <1>2, <1>4, WriteType
<1>6. AllowedUnderLock(i)
  BY <1>3, <1>4, <1>5 DEF AllowedUnderLock
<1>7. QED
  BY <1>5, <1>6, OthersKeep

LEMMA ReplaceGridStep ==
  ASSUME TypeOK, NEW i \in Initiatives, NEW lines \in Requests, NEW manages \in BOOLEAN,
         ReplaceGrid(i, lines, manages)
  PROVE  TypeOK' /\ \A j \in Initiatives : AllowedUnderLock(j)
<1> DEFINE outcomes == ReplaceOutcomes(window[i], grid[i], Locked(i), lines, manages)
<1>1. outcomes \in SUBSET Wide
  BY StateIsWide, RequestsAreRows, ReplaceType
<1>2. Write(i, outcomes) /\ Replaces(i)
  BY DEF ReplaceGrid, Replaces
<1> HIDE DEF outcomes
<1>3. TypeOK' /\ \A j \in Initiatives \ {i} : grid'[j] = grid[j]
  BY <1>1, <1>2, WriteType
<1>4. AllowedUnderLock(i)
  BY <1>2 DEF AllowedUnderLock
<1>5. QED
  BY <1>3, <1>4, OthersKeep

LEMMA ExportWorkbookStep ==
  ASSUME TypeOK, NEW i \in Initiatives, NEW manages \in BOOLEAN, ExportWorkbook(i, manages)
  PROVE  TypeOK' /\ \A j \in Initiatives : AllowedUnderLock(j)
<1> DEFINE outcomes == MigrationOutcomes(window[i], grid[i], manages)
<1>1. outcomes \in SUBSET Wide
  BY StateIsWide, MigrationType
<1>2. Write(i, outcomes) /\ ~ Locked(i)
  BY DEF ExportWorkbook
<1> HIDE DEF outcomes
<1>3. TypeOK' /\ \A j \in Initiatives \ {i} : grid'[j] = grid[j]
  BY <1>1, <1>2, WriteType
<1>4. AllowedUnderLock(i)
  BY <1>2 DEF AllowedUnderLock
<1>5. QED
  BY <1>3, <1>4, OthersKeep

LEMMA CreateCostLineStep ==
  ASSUME TypeOK, NEW i \in Initiatives, NEW r \in Request, CreateCostLine(i, r)
  PROVE  TypeOK' /\ \A j \in Initiatives : AllowedUnderLock(j)
<1> DEFINE g == [grid[i] EXCEPT !.costs = Append(@, Resolved(r))]
<1>1. g \in Wide
  <2>1. Resolved(r) \in Row(Flags)
    BY RequestsAreRows, ResolvedType
  <2>2. QED
    BY <2>1, StateIsWide, EditsType
<1>2. Write(i, {g}) /\ ~ Locked(i)
  BY DEF CreateCostLine
<1> HIDE DEF g
<1>3. {g} \in SUBSET Wide
  BY <1>1
<1>4. TypeOK' /\ \A j \in Initiatives \ {i} : grid'[j] = grid[j]
  BY <1>2, <1>3, WriteType
<1>5. AllowedUnderLock(i)
  BY <1>2 DEF AllowedUnderLock
<1>6. QED
  BY <1>4, <1>5, OthersKeep

LEMMA UpdateCostLineStep ==
  ASSUME TypeOK, NEW i \in Initiatives, NEW k \in DOMAIN grid[i].costs, NEW r \in Request,
         UpdateCostLine(i, k, r)
  PROVE  TypeOK' /\ \A j \in Initiatives : AllowedUnderLock(j)
<1> DEFINE F == {Resolved(r).inflated} \cup
                  IF r.inflated = Unasked THEN {grid[i].costs[k].inflated} ELSE {}
           outcomes == {[grid[i] EXCEPT !.costs[k] = [r EXCEPT !.inflated = f]] : f \in F}
<1>1. grid[i] \in Wide /\ r \in Row(Asked) /\ Resolved(r) \in Row(Flags)
  BY StateIsWide, RequestsAreRows, ResolvedType
<1>2. grid[i].costs[k] \in Row(Flags)
  BY <1>1, LenProperties, ElementOfSeq DEF Wide
<1>3. F \subseteq Flags
  BY <1>1, <1>2 DEF Row
<1> HIDE DEF F
<1>4. \A g \in outcomes : g \in Wide /\ g.plan = grid[i].plan
  <2>1. \A f \in F : [r EXCEPT !.inflated = f] \in Row(Flags)
    BY <1>1, <1>3 DEF Row
  <2>2. ASSUME NEW f \in F
        PROVE  [grid[i] EXCEPT !.costs[k] = [r EXCEPT !.inflated = f]] \in Wide
    BY <1>1, <2>1, EditsType
  <2>3. \A f \in F : [grid[i] EXCEPT !.costs[k] = [r EXCEPT !.inflated = f]].plan = grid[i].plan
    BY <1>1 DEF Wide
  <2>4. QED
    BY <2>2, <2>3
<1>5. Write(i, outcomes) /\ EditsLine(i)
  BY DEF UpdateCostLine, EditsLine, F
<1> HIDE DEF outcomes
<1>6. TypeOK' /\ grid'[i] \in outcomes /\ \A j \in Initiatives \ {i} : grid'[j] = grid[j]
  BY <1>4, <1>5, WriteType
<1>7. grid'[i].plan = grid[i].plan
  BY <1>4, <1>6
<1>8. AllowedUnderLock(i)
  BY <1>5, <1>7 DEF AllowedUnderLock
<1>9. QED
  BY <1>6, <1>8, OthersKeep

LEMMA DeleteCostLineStep ==
  ASSUME TypeOK, NEW i \in Initiatives, NEW k \in DOMAIN grid[i].costs, DeleteCostLine(i, k)
  PROVE  TypeOK' /\ \A j \in Initiatives : AllowedUnderLock(j)
<1> DEFINE g == [grid[i] EXCEPT !.costs = RemoveAt(@, k)]
<1>1. g \in Wide
  <2>1. grid[i].costs[k] \in Row(Flags) /\ grid[i] \in Wide
    BY StateIsWide, LenProperties, ElementOfSeq DEF Wide
  <2>2. QED
    BY <2>1, EditsType
<1>2. Write(i, {g}) /\ ~ Locked(i)
  BY DEF DeleteCostLine
<1> HIDE DEF g
<1>3. {g} \in SUBSET Wide
  BY <1>1
<1>4. TypeOK' /\ \A j \in Initiatives \ {i} : grid'[j] = grid[j]
  BY <1>2, <1>3, WriteType
<1>5. AllowedUnderLock(i)
  BY <1>2 DEF AllowedUnderLock
<1>6. QED
  BY <1>4, <1>5, OthersKeep

\* Steps that write no grid.
LEMMA OtherSteps ==
  ASSUME TypeOK,
         \/ \E i \in Initiatives, w \in Windows : SetWindow(i, w)
         \/ \E b \in BOOLEAN : SetPlanLock(b)
         \/ \E mode \in InflationModes : SetInflationMode(mode)
         \/ \E i \in Initiatives, s \in Triggers : WriteVersion(i, s)
         \/ UNCHANGED vars
  PROVE  TypeOK' /\ \A j \in Initiatives : AllowedUnderLock(j)
<1>1. ASSUME NEW i \in Initiatives, NEW w \in Windows, SetWindow(i, w) PROVE TypeOK' /\ grid' = grid
  BY <1>1 DEF SetWindow, TypeOK
<1>2. ASSUME NEW b \in BOOLEAN, SetPlanLock(b) PROVE TypeOK' /\ grid' = grid
  BY <1>2 DEF SetPlanLock, TypeOK
<1>3. ASSUME NEW i \in Initiatives, NEW s \in Triggers, WriteVersion(i, s)
      PROVE  TypeOK' /\ grid' = grid
  <2>1. PICK e \in Entry : ledger' = [ledger EXCEPT ![i] = Append(ledger[i], e)]
    BY <1>3 DEF WriteVersion, Lock, Rebaseline, Entry, Origin
  <2>2. ledger[i] \in Seq(Entry)
    BY DEF TypeOK
  <2>3. Append(ledger[i], e) \in Seq(Entry)
    BY <2>2, AppendProperties
  <2>4. ledger' \in [Initiatives -> Seq(Entry)]
    BY <2>1, <2>3 DEF TypeOK
  <2>5. QED
    BY <1>3, <2>4 DEF WriteVersion, TypeOK
<1>4. ASSUME NEW mode \in InflationModes, SetInflationMode(mode) PROVE TypeOK' /\ grid' = grid
  BY <1>4 DEF SetInflationMode, TypeOK
<1>5. CASE UNCHANGED vars
  BY <1>5 DEF vars, TypeOK, AllowedUnderLock, SamePlan
<1>6. grid' = grid => \A j \in Initiatives : AllowedUnderLock(j)
  BY DEF AllowedUnderLock, SamePlan
<1>7. QED
  BY <1>1, <1>2, <1>3, <1>4, <1>5, <1>6

LEMMA PlanStep ==
  ASSUME TypeOK, [PlanNext]_vars
  PROVE  TypeOK' /\ \A j \in Initiatives : AllowedUnderLock(j)
  BY SaveGridStep, SaveLockedActualsStep, ImportGridStep, ReplaceGridStep, ExportWorkbookStep,
     CreateCostLineStep, UpdateCostLineStep, DeleteCostLineStep, OtherSteps DEF PlanNext

\* Every grid, period and version has its type, at any size of the calendar.
THEOREM PlanTyped == PlanSpec => []TypeOK
<1>1. PlanInit => TypeOK
  <2>1. << >> \in Seq(CostLine) /\ << >> \in Seq(Entry)
    OBVIOUS
  <2>2. QED
    BY <2>1 DEF PlanInit, Init, TypeOK, EmptyGrid, InflationModes
<1>2. TypeOK /\ [PlanNext]_vars => TypeOK'
  BY PlanStep
<1>3. QED
  BY <1>1, <1>2, PTL DEF PlanSpec

\* While a plan is locked, no form and no failure half way changes it (financial.py,
\* _update_locked_configurable_actuals, update_financial_grid, replace_financial_grid).
THEOREM LockHolds == PlanSpec => LockedPlanWriters
<1>1. TypeOK /\ [PlanNext]_vars
        => [\A i \in Initiatives :
              (Locked(i) /\ ~ SamePlan(grid[i], grid'[i]))
                => \/ grid'[i].plan = grid[i].plan /\ (EditsLine(i) \/ Imports(i))
                   \/ Replaces(i)]_vars
  BY PlanStep DEF AllowedUnderLock
<1>2. QED
  BY <1>1, PlanTyped, PTL DEF PlanSpec, LockedPlanWriters

-------------------------------------------------------------------------------
(* Saving the form, entering actuals, importing under the lock *)

\* A batch whose rows keep to the plan of their month raises that of none.
LEMMA UpsertsRaiseNoPlan ==
  ASSUME NEW flags, NEW costs \in Seq(Row(flags)), NEW rows \in Seq(Row(flags)), NEW m,
         \A k \in 1 .. Len(rows) : rows[k].plan <= PlanOf(costs, rows[k].month)
  PROVE  \A k \in 0 .. Len(rows) : PlanOf(UpsertUpTo(costs, rows, k), m) <= PlanOf(costs, m)
<1> DEFINE n == Len(rows)
           done(k) == UpsertUpTo(costs, rows, k)
           P == {k \in Nat : k <= n => PlanOf(done(k), m) <= PlanOf(costs, m)}
<1>1. n \in Nat /\ \A k \in 1 .. n : rows[k] \in Row(flags)
  BY ElementOfSeq, LenProperties
<1>2. \A k \in 0 .. n : done(k) \in Seq(Row(flags))
  BY UpsertRecursion
<1>3. PlanOf(costs, m) \in Nat /\ \A k \in 0 .. n : PlanOf(done(k), m) \in Nat
  BY <1>2, OfMonthType
<1>4. done(0) = costs /\ \A k \in 1 .. n : done(k) = UpsertLine(done(k - 1), rows[k])
  BY UpsertRecursion
<1>5. \A k \in 1 .. n : rows[k].plan <= PlanOf(costs, rows[k].month)
  OBVIOUS
<1> HIDE DEF n, done
<1>6. 0 \in P
  BY <1>1, <1>3, <1>4
<1>7. ASSUME NEW k \in Nat, k \in P PROVE k + 1 \in P
  <2>1. SUFFICES ASSUME k + 1 <= n PROVE PlanOf(done(k + 1), m) <= PlanOf(costs, m)
    OBVIOUS
  <2>2. k \in 0 .. n /\ k + 1 \in 1 .. n /\ k + 1 \in 0 .. n /\ (k + 1) - 1 = k /\ rows[k + 1] \in Row(flags)
    BY <1>1, <2>1
  <2>3. done(k + 1) = UpsertLine(done(k), rows[k + 1]) /\ done(k) \in Seq(Row(flags))
    BY <1>2, <1>4, <2>2
  <2>4. PlanOf(done(k), m) <= PlanOf(costs, m)
    BY <1>7, <2>2
  <2>5. CASE m = rows[k + 1].month
    <3>1. PlanOf(done(k + 1), m) <= rows[k + 1].plan
      <4> DEFINE before == done(k)
                 row == rows[k + 1]
      <4>1. before \in Seq(Row(flags)) /\ row \in Row(flags)
        BY <2>2, <2>3
      <4> HIDE DEF before, row
      <4>2. PlanOf(UpsertLine(before, row), row.month) <= row.plan
        BY <4>1, UpsertLineFacts
      <4>3. QED
        BY <2>3, <2>5, <4>2 DEF before, row
    <3>2. rows[k + 1].plan <= PlanOf(costs, m) /\ rows[k + 1].plan \in Nat
      BY <1>5, <2>2, <2>5 DEF Row
    <3>3. QED
      BY <1>3, <2>2, <3>1, <3>2
  <2>6. CASE m # rows[k + 1].month
    <3>1. OfMonth(done(k + 1), m) = OfMonth(done(k), m)
      BY <2>2, <2>3, <2>6, UpsertLineFacts
    <3>2. QED
      BY <2>4, <3>1 DEF PlanOf
  <2>7. QED
    BY <2>5, <2>6
<1> HIDE DEF P
<1>8. \A k \in Nat : k \in P
  BY <1>6, <1>7, Induction
<1>9. QED
  BY <1>1, <1>8 DEF P, n, done

\* A batch, completed or not: what it leaves of the months its rows do not name, and
\* of those whose plan they keep to.
LEMMA UpsertedFacts ==
  ASSUME NEW flags, NEW costs \in Seq(Row(flags)), NEW rows \in Seq(Row(flags)), NEW m, NEW c,
         c = UpsertLines(costs, rows) \/ c \in InterruptedUpserts(costs, rows)
  PROVE  /\ (\A r \in ToSet(rows) : r.month # m) => OfMonth(c, m) = OfMonth(costs, m)
         /\ (\A k \in 1 .. Len(rows) : rows[k].plan <= PlanOf(costs, rows[k].month))
              => PlanOf(c, m) <= PlanOf(costs, m)
<1> DEFINE n == Len(rows)
           done(k) == UpsertUpTo(costs, rows, k)
           Elsewhere == \A r \in ToSet(rows) : r.month # m
           Within == \A k \in 1 .. Len(rows) : rows[k].plan <= PlanOf(costs, rows[k].month)
<1>1. n \in Nat /\ DOMAIN rows = 1 .. n
  BY LenProperties
<1>2. \A k \in 0 .. n : done(k) \in Seq(Row(flags))
  BY UpsertRecursion
<1>3. PlanOf(costs, m) \in Nat /\ \A k \in 0 .. n : PlanOf(done(k), m) \in Nat
  BY <1>2, OfMonthType
<1>4. Elsewhere => \A k \in 0 .. n : OfMonth(done(k), m) = OfMonth(costs, m)
  BY UpsertsTouchTheirMonths
<1>5. Within => \A k \in 0 .. n : PlanOf(done(k), m) <= PlanOf(costs, m)
  BY UpsertsRaiseNoPlan
<1>6. c = done(n) \/ \E k \in 1 .. n : c \in Deletions(done(k - 1), rows[k].month)
  BY <1>1 DEF UpsertLines, InterruptedUpserts
<1>7. \A k \in 1 .. n : Elsewhere => m # rows[k].month
  BY <1>1, ToSetType
<1> HIDE DEF n, done, Elsewhere, Within
<1>8. CASE c = done(n)
  BY <1>1, <1>4, <1>5, <1>8 DEF Elsewhere, Within
<1>9. ASSUME NEW k \in 1 .. n, c \in Deletions(done(k - 1), rows[k].month)
      PROVE  /\ Elsewhere => OfMonth(c, m) = OfMonth(costs, m)
             /\ Within => PlanOf(c, m) <= PlanOf(costs, m)
  <2>1. k - 1 \in 0 .. n
    BY <1>1
  <2>2. /\ c \in Seq(Row(flags))
        /\ m # rows[k].month => OfMonth(c, m) = OfMonth(done(k - 1), m)
        /\ PlanOf(c, m) <= PlanOf(done(k - 1), m)
    BY <1>2, <1>9, <2>1, DeletionsType
  <2>3. PlanOf(c, m) \in Nat
    BY <2>2, OfMonthType
  <2>4. Elsewhere => OfMonth(c, m) = OfMonth(costs, m)
    BY <1>4, <1>7, <2>1, <2>2
  <2>5. Within => PlanOf(c, m) <= PlanOf(costs, m)
    BY <1>3, <1>5, <2>1, <2>2, <2>3
  <2>6. QED
    BY <2>4, <2>5
<1>10. QED
  BY <1>6, <1>8, <1>9 DEF Elsewhere, Within

\* Saving the form, completely or not, leaves the lines of every other month
\* (repositories/financial.py, upsert_cost_lines_batch).
THEOREM SaveIsLocal == PlanSpec => []SaveTouchesItsMonthsOnly
<1>1. ASSUME TypeOK, NEW i \in Initiatives, NEW lines \in Requests,
             NEW g \in SaveOutcomes(grid[i], lines, grid[i].plan, grid[i].actual),
             NEW m \in Months \ {r.month : r \in ToSet(lines)}
      PROVE  OfMonth(g.costs, m) = OfMonth(grid[i].costs, m)
  <2> DEFINE costs == grid[i].costs
             rows == PreparedLines(lines)
  <2>1. costs \in Seq(Row(Flags)) /\ lines \in Seq(Row(Asked)) /\ grid[i] \in Wide
    BY <1>1, StateIsWide, RequestsAreRows DEF Wide
  <2>2. rows \in Seq(Row(Flags)) /\ \A r \in ToSet(rows) : r.month # m
    <3>1. \A k \in 1 .. Len(lines) : lines[k].month # m
      BY <2>1, ToSetType
    <3>2. rows \in Seq(Row(Flags)) /\ Len(rows) = Len(lines)
          /\ \A k \in 1 .. Len(lines) : rows[k].month = lines[k].month
      BY <2>1, PreparedLinesType
    <3>3. ToSet(rows) = {rows[k] : k \in 1 .. Len(rows)}
      BY <3>2, ToSetType
    <3> HIDE DEF rows
    <3>4. QED
      BY <3>1, <3>2, <3>3
  <2>3. << >> \in Seq(Row(Flags)) /\ \A r \in ToSet(<< >>) : r.month # m
    <3>1. << >> \in Seq(Row(Flags))
      OBVIOUS
    <3>2. ToSet(<< >>) = {}
      BY <3>1, ToSetType
    <3>3. QED
      BY <3>1, <3>2
  <2>4. \/ g = grid[i]
        \/ g = [costs |-> UpsertLines(costs, rows), plan |-> grid[i].plan, actual |-> grid[i].actual]
        \/ \E c \in InterruptedUpserts(costs, Admitted(lines)) : g = [grid[i] EXCEPT !.costs = c]
    BY DEF SaveOutcomes
  <2> HIDE DEF rows
  <2>5. CASE g = grid[i]
    BY <2>5
  <2>6. CASE g = [costs |-> UpsertLines(costs, rows), plan |-> grid[i].plan, actual |-> grid[i].actual]
    <3>1. OfMonth(UpsertLines(costs, rows), m) = OfMonth(costs, m)
      BY <2>1, <2>2, UpsertedFacts
    <3>2. QED
      BY <2>6, <3>1
  <2>7. ASSUME NEW c \in InterruptedUpserts(costs, Admitted(lines)), g = [grid[i] EXCEPT !.costs = c]
        PROVE  OfMonth(g.costs, m) = OfMonth(grid[i].costs, m)
    <3>1. Admitted(lines) = << >> \/ Admitted(lines) = rows
      BY DEF Admitted, rows
    <3>2. Admitted(lines) \in Seq(Row(Flags)) /\ \A r \in ToSet(Admitted(lines)) : r.month # m
      BY <2>2, <2>3, <3>1, Zenon
    <3>3. OfMonth(c, m) = OfMonth(costs, m)
      BY <2>1, <3>2, UpsertedFacts
    <3>4. g.costs = c
      BY <2>1, <2>7 DEF Wide
    <3>5. QED
      BY <3>3, <3>4
  <2>8. QED
    BY <2>4, <2>5, <2>6, <2>7
<1>2. TypeOK => SaveTouchesItsMonthsOnly
  BY <1>1 DEF SaveTouchesItsMonthsOnly
<1>3. QED
  BY <1>2, PlanTyped, PTL

LEMMA LockedImportPlan ==
  ASSUME NEW w \in Periods, NEW g \in Wide, NEW lines \in Seq(Row(Asked)), NEW manages,
         NEW h \in ImportOutcomes(w, g, TRUE, lines, manages), NEW m
  PROVE  PlanOf(h.costs, m) <= PlanOf(g.costs, m)
<1> DEFINE costs == g.costs
           rows == KeepingPlan(costs, Admitted(Normalize(w, lines)))
<1>1. costs \in Seq(Row(Flags))
  BY DEF Wide
<1>2. Admitted(Normalize(w, lines)) \in Seq(Row(Flags))
  BY StoredIsAsked, NormalizeType, AdmittedType
<1>3. rows \in Seq(Row(Flags)) /\ \A k \in 1 .. Len(rows) : rows[k].plan <= PlanOf(costs, rows[k].month)
  BY <1>1, <1>2, KeepingPlanType
<1>4. RowsToImport(w, g, TRUE, lines) = rows
  BY DEF RowsToImport
<1> HIDE DEF rows
<1>5. h.costs = UpsertLines(costs, rows) \/ h.costs \in InterruptedUpserts(costs, rows)
  <2>1. h = [g EXCEPT !.costs = UpsertLines(costs, rows)]
        \/ \E c \in InterruptedUpserts(costs, rows) : h = [g EXCEPT !.costs = c]
    BY <1>4 DEF ImportOutcomes, Wide
  <2>2. QED
    BY <2>1 DEF Wide
<1>6. QED
  BY <1>1, <1>3, <1>5, UpsertedFacts

\* Neither entering actuals nor an import raises a planned cost under the lock
\* (financial.py, _update_locked_configurable_actuals and update_financial_grid).
THEOREM PlanKept == PlanSpec => []LockKeepsPlan
<1>1. TypeOK => ActualsKeepPlan
  <2>1. ASSUME TypeOK, NEW i \in Initiatives, NEW lines \in Requests, NEW actual \in Amounts,
               NEW g \in LockedSaveOutcomes(grid[i], lines, actual)
        PROVE  SamePlan(grid[i], g)
    BY <2>1, StateIsWide, RequestsAreRows, LockedSaveFacts
  <2>2. QED
    BY <2>1 DEF ActualsKeepPlan
<1>2. TypeOK => LockedImportRaisesNoPlan
  <2>1. ASSUME TypeOK, NEW i \in Initiatives, NEW lines \in Requests, NEW manages \in BOOLEAN,
               NEW g \in ImportOutcomes(window[i], grid[i], TRUE, lines, manages), NEW m \in Months
        PROVE  PlanOf(g.costs, m) =< PlanOf(grid[i].costs, m)
    BY <2>1, StateIsWide, RequestsAreRows, LockedImportPlan
  <2>2. QED
    BY <2>1 DEF LockedImportRaisesNoPlan
<1>3. QED
  BY <1>1, <1>2, PlanTyped, PTL DEF LockKeepsPlan

-------------------------------------------------------------------------------
(* Moving costs into the planned period *)

\* No element occurs twice.
Apart(s) == \A j, k \in DOMAIN s : j # k => s[j] # s[k]

LEMMA ApartAppend ==
  ASSUME NEW V, NEW s \in Seq(V), NEW e \in V
  PROVE  Apart(Append(s, e)) <=> Apart(s) /\ e \notin ToSet(s)
<1> DEFINE n == Len(s)
           t == Append(s, e)
<1>1. /\ n \in Nat /\ DOMAIN s = 1 .. n /\ DOMAIN t = 1 .. n + 1
      /\ t[n + 1] = e /\ \A k \in 1 .. n : t[k] = s[k]
  BY LenProperties, AppendProperties
<1>2. ToSet(s) = {s[k] : k \in 1 .. n}
  BY ToSetType
<1> HIDE DEF n, t
<1>3. ASSUME Apart(t) PROVE Apart(s) /\ e \notin ToSet(s)
  <2>1. Apart(s)
    BY <1>1, <1>3 DEF Apart
  <2>2. ASSUME NEW k \in 1 .. n PROVE s[k] # e
    <3>1. k \in DOMAIN t /\ n + 1 \in DOMAIN t /\ k # n + 1
      BY <1>1
    <3>2. t[k] # t[n + 1]
      BY <1>3, <3>1 DEF Apart
    <3>3. QED
      BY <1>1, <3>2
  <2>3. QED
    BY <1>2, <2>1, <2>2
<1>4. ASSUME Apart(s), e \notin ToSet(s) PROVE Apart(t)
  <2>1. SUFFICES ASSUME NEW j \in DOMAIN t, NEW k \in DOMAIN t, j # k PROVE t[j] # t[k]
    BY DEF Apart
  <2>2. CASE j \in 1 .. n /\ k \in 1 .. n
    BY <1>1, <1>4, <2>1, <2>2 DEF Apart
  <2>3. CASE j = n + 1 /\ k \in 1 .. n
    BY <1>1, <1>2, <1>4, <2>3
  <2>4. CASE j \in 1 .. n /\ k = n + 1
    BY <1>1, <1>2, <1>4, <2>4
  <2>5. QED
    BY <1>1, <2>1, <2>2, <2>3, <2>4
<1>5. QED
  BY <1>3, <1>4 DEF t

LEMMA AmongApart ==
  ASSUME NEW V, NEW s \in Seq(V), NEW S, Apart(s)
  PROVE  Apart(Among(s, S))
<1> DEFINE P == {u \in Seq(V) : Apart(u) => Apart(Among(u, S))}
<1>1. << >> \in P
  <2>1. Among(<< >>, S) = << >> /\ << >> \in Seq(V)
    BY AmongEmpty
  <2>2. QED
    BY <2>1, Zenon
<1>2. ASSUME NEW u \in Seq(V), NEW e \in V, u \in P PROVE Append(u, e) \in P
  <2>1. Append(u, e) \in Seq(V)
    BY AppendProperties
  <2>2. SUFFICES ASSUME Apart(Append(u, e)) PROVE Apart(Among(Append(u, e), S))
    BY <2>1
  <2>3. Apart(u) /\ e \notin ToSet(u)
    BY <2>2, ApartAppend
  <2>4. Apart(Among(u, S))
    BY <1>2, <2>3
  <2>5. Among(Append(u, e), S) = IF e \in S THEN Append(Among(u, S), e) ELSE Among(u, S)
    BY AmongAppend
  <2>6. Among(u, S) \in Seq(V) /\ e \notin ToSet(Among(u, S))
    BY <2>3, AmongType
  <2>7. Apart(Append(Among(u, S), e))
    BY <2>4, <2>6, ApartAppend
  <2>8. QED
    BY <2>4, <2>5, <2>7
<1> HIDE DEF P
<1>3. s \in P
  BY <1>1, <1>2, SequenceInduction
<1>4. QED
  BY <1>3 DEF P

\* The lines of the months ms.
MergedLines(w, rows, ms) == [k \in DOMAIN ms |-> MergedLine(w, rows, ms[k])]

\* The rows that fall or are moved into a month of M.
MovedInto(w, rows, M) == {r \in ToSet(rows) : MonthIn(w, r) \in M}

LEMMA MergedLinesType ==
  ASSUME NEW flags, "on" \in flags, NEW w \in Periods, NEW rows \in Seq(Row(flags)), NEW ms \in Seq(Months),
         ToSet(ms) \subseteq {MonthIn(w, r) : r \in ToSet(rows)}
  PROVE  /\ MergedLines(w, rows, ms) \in Seq(Row(flags))
         /\ Len(MergedLines(w, rows, ms)) = Len(ms)
         /\ \A k \in 1 .. Len(ms) : MergedLines(w, rows, ms)[k].month = ms[k]
<1> DEFINE n == Len(ms)
           N == MergedLines(w, rows, ms)
<1>1. DOMAIN ms = 1 .. n /\ n \in Nat
  BY LenProperties
<1>2. \A k \in 1 .. n : ms[k] \in ToSet(ms)
  BY ToSetType
<1>3. \A k \in 1 .. n : MergedLine(w, rows, ms[k]) \in Row(flags)
  BY <1>2, MergedLineType
<1> HIDE DEF n
<1>4. N = [k \in 1 .. n |-> MergedLine(w, rows, ms[k])]
  BY <1>1 DEF MergedLines
<1>5. N \in [1 .. n -> Row(flags)]
  BY <1>3, <1>4
<1>6. N \in Seq(Row(flags)) /\ Len(N) = n
  BY <1>1, <1>4, <1>5
<1>7. \A k \in 1 .. n : N[k].month = ms[k]
  BY <1>4 DEF MergedLine
<1>8. QED
  BY <1>6, <1>7 DEF n

LEMMA MergedLinesAppend ==
  ASSUME NEW flags, NEW w \in Periods, NEW rows \in Seq(Row(flags)), NEW ms \in Seq(Months), NEW m \in Months
  PROVE  MergedLines(w, rows, Append(ms, m)) = Append(MergedLines(w, rows, ms), MergedLine(w, rows, m))
<1> DEFINE n == Len(ms)
           t == Append(ms, m)
           N == MergedLines(w, rows, ms)
           e == MergedLine(w, rows, m)
<1>1. /\ n \in Nat /\ DOMAIN ms = 1 .. n /\ DOMAIN t = 1 .. n + 1
      /\ t[n + 1] = m /\ \A k \in 1 .. n : t[k] = ms[k]
  BY LenProperties, AppendProperties
<1> HIDE DEF n, t
<1>2. N = [k \in 1 .. n |-> MergedLine(w, rows, ms[k])]
  BY <1>1 DEF MergedLines
<1>3. MergedLines(w, rows, t) = [k \in 1 .. n + 1 |-> MergedLine(w, rows, t[k])]
  BY <1>1 DEF MergedLines
<1>4. Len(N) = n
  BY <1>1, <1>2
<1> HIDE DEF N, e
<1>5. Append(N, e) = [k \in 1 .. n + 1 |-> IF k = n + 1 THEN e ELSE N[k]]
  BY <1>1, <1>2, <1>4
<1>6. \A k \in 1 .. n + 1 : MergedLine(w, rows, t[k]) = IF k = n + 1 THEN e ELSE N[k]
  BY <1>1, <1>2 DEF e
<1>7. QED
  BY <1>3, <1>5, <1>6 DEF t, N, e

\* Merging neither loses nor doubles a cost.
LEMMA MergedCost ==
  ASSUME NEW flags, "on" \in flags, NEW w \in Periods, NEW rows \in Seq(Row(flags)), NEW ms \in Seq(Months), Apart(ms),
         ToSet(ms) \subseteq {MonthIn(w, r) : r \in ToSet(rows)}
  PROVE  PlannedCost(MergedLines(w, rows, ms)) = PlannedCost(Among(rows, MovedInto(w, rows, ToSet(ms))))
<1> DEFINE Held == {MonthIn(w, r) : r \in ToSet(rows)}
           Kept(u) == PlannedCost(MergedLines(w, rows, u))
                        = PlannedCost(Among(rows, MovedInto(w, rows, ToSet(u))))
           P == {u \in Seq(Months) : Apart(u) /\ ToSet(u) \subseteq Held => Kept(u)}
<1>1. << >> \in P
  <2>1. << >> \in Seq(Months) /\ ToSet(<< >>) = {}
    BY ToSetType
  <2>2. MergedLines(w, rows, << >>) = << >>
    BY DEF MergedLines
  <2>3. ToSet(rows) \cap MovedInto(w, rows, ToSet(<< >>)) = {}
    BY <2>1 DEF MovedInto
  <2>4. Among(rows, MovedInto(w, rows, ToSet(<< >>))) = << >>
    BY <2>3, AmongNone
  <2>5. Kept(<< >>)
    BY <2>2, <2>4, Zenon
  <2>6. QED
    BY <2>1, <2>5
<1>2. ASSUME NEW u \in Seq(Months), NEW m \in Months, u \in P PROVE Append(u, m) \in P
  <2> DEFINE t == Append(u, m)
             S == MovedInto(w, rows, ToSet(u))
             T == {r \in ToSet(rows) : MonthIn(w, r) = m}
  <2>1. t \in Seq(Months) /\ ToSet(t) = ToSet(u) \cup {m}
    BY AppendProperties, ToSetAppend
  <2>2. SUFFICES ASSUME Apart(t), ToSet(t) \subseteq Held PROVE Kept(t)
    BY <2>1
  <2>3. Apart(u) /\ m \notin ToSet(u)
    BY <2>2, ApartAppend
  <2>4. ToSet(u) \subseteq Held /\ m \in Held
    BY <2>1, <2>2
  <2>5. Kept(u)
    BY <1>2, <2>3, <2>4
  <2>6. MergedLines(w, rows, t) = Append(MergedLines(w, rows, u), MergedLine(w, rows, m))
    BY MergedLinesAppend
  <2>7. MergedLines(w, rows, u) \in Seq(Row(flags)) /\ MergedLine(w, rows, m) \in Row(flags)
    BY <2>4, MergedLinesType, MergedLineType
  <2>8. PlannedCost(MergedLines(w, rows, t))
          = PlannedCost(MergedLines(w, rows, u)) + MergedLine(w, rows, m).plan
    BY <2>6, <2>7, PlannedAppend
  <2>9. MergedLine(w, rows, m).plan = PlannedCost(Among(rows, T))
    BY DEF MergedLine, MovedTo
  <2>10. S \cap T = {} /\ MovedInto(w, rows, ToSet(t)) = S \cup T
    BY <2>1, <2>3 DEF MovedInto
  <2> HIDE DEF S, T
  <2>11. PlannedCost(Among(rows, S \cup T)) = PlannedCost(Among(rows, S)) + PlannedCost(Among(rows, T))
    BY <2>10, PlannedSplit
  <2>12. PlannedCost(MergedLines(w, rows, u)) = PlannedCost(Among(rows, S))
    BY <2>5 DEF S
  <2>13. QED
    BY <2>8, <2>9, <2>10, <2>11, <2>12
<1> HIDE DEF P
<1>3. ms \in P
  BY <1>1, <1>2, SequenceInduction
<1>4. QED
  BY <1>3 DEF P

\* What normalizing a grid leaves: its planned cost, at most one line of a month,
\* and months the costs were moved into.
LEMMA NormalizeKeeps ==
  ASSUME NEW flags, "on" \in flags, NEW w \in Periods, w # NoWindow, NEW rows \in Seq(Row(flags))
  PROVE  /\ Normalize(w, rows) \in Seq(Row(flags))
         /\ PlannedCost(Normalize(w, rows)) = PlannedCost(rows)
         /\ \A j, k \in 1 .. Len(Normalize(w, rows)) :
               j # k => Normalize(w, rows)[j].month # Normalize(w, rows)[k].month
         /\ \A k \in 1 .. Len(Normalize(w, rows)) :
               \E r \in ToSet(rows) : Normalize(w, rows)[k].month = MonthIn(w, r)
<1> DEFINE ms == MonthsHeld(w, rows)
           all == [m \in Months |-> m]
           Held == {MonthIn(w, r) : r \in ToSet(rows)}
<1>1. all \in Seq(Months) /\ ms \in Seq(Months) /\ ToSet(ms) = Held
  BY MonthsHeldType
<1>2. Normalize(w, rows) = MergedLines(w, rows, ms)
  BY DEF Normalize, MonthsHeld, MergedLines
<1>3. Apart(all)
  BY DEF Apart
<1>4. ms = Among(all, Held)
  BY DEF MonthsHeld
<1> HIDE DEF all
<1>5. Apart(ms)
  BY <1>1, <1>3, <1>4, AmongApart
<1> HIDE DEF ms
<1>6. /\ MergedLines(w, rows, ms) \in Seq(Row(flags))
      /\ Len(MergedLines(w, rows, ms)) = Len(ms)
      /\ \A k \in 1 .. Len(ms) : MergedLines(w, rows, ms)[k].month = ms[k]
  BY <1>1, MergedLinesType
<1>7. PlannedCost(MergedLines(w, rows, ms)) = PlannedCost(rows)
  <2>1. PlannedCost(MergedLines(w, rows, ms)) = PlannedCost(Among(rows, MovedInto(w, rows, ToSet(ms))))
    BY <1>1, <1>5, MergedCost
  <2>2. ToSet(rows) \subseteq MovedInto(w, rows, ToSet(ms))
    BY <1>1 DEF MovedInto
  <2>3. Among(rows, MovedInto(w, rows, ToSet(ms))) = rows
    BY <2>2, AmongAll
  <2>4. QED
    BY <2>1, <2>3
<1>8. DOMAIN ms = 1 .. Len(ms) /\ \A k \in 1 .. Len(ms) : ms[k] \in Held
  <2>1. \A k \in 1 .. Len(ms) : ms[k] \in ToSet(ms)
    BY <1>1, ToSetType
  <2>2. QED
    BY <1>1, <2>1, LenProperties
<1>9. \A j, k \in 1 .. Len(ms) :
         j # k => MergedLines(w, rows, ms)[j].month # MergedLines(w, rows, ms)[k].month
  BY <1>5, <1>6, <1>8 DEF Apart
<1>10. \A k \in 1 .. Len(ms) : \E r \in ToSet(rows) : MergedLines(w, rows, ms)[k].month = MonthIn(w, r)
  BY <1>6, <1>8
<1>11. QED
  BY <1>2, <1>6, <1>7, <1>9, <1>10

\* Inserting the lines of different months into an empty grid keeps every one that
\* is not zero, and so their planned cost.
LEMMA InsertedApart ==
  ASSUME NEW flags, NEW rows \in Seq(Row(flags)),
         \A j, k \in 1 .. Len(rows) : j # k => rows[j].month # rows[k].month
  PROVE  /\ UpsertLines(<< >>, rows) \in Seq(Row(flags))
         /\ PlannedCost(UpsertLines(<< >>, rows)) = PlannedCost(rows)
         /\ ToSet(UpsertLines(<< >>, rows)) \subseteq ToSet(rows)
<1> DEFINE n == Len(rows)
           done(k) == UpsertUpTo(<< >>, rows, k)
<1>1. n \in Nat /\ \A k \in 1 .. n : rows[k] \in Row(flags)
  BY LenProperties, ElementOfSeq
<1>2. PICK F : F \in [0 .. n -> Nat] /\ PlannedSteps(F, rows) /\ PlannedCost(rows) = F[n]
  BY PlannedRecursion
<1>3. << >> \in Seq(Row(flags)) /\ ToSet(<< >>) = {}
  BY ToSetType
<1>4. /\ done(0) = << >>
      /\ \A k \in 1 .. n : done(k) = UpsertLine(done(k - 1), rows[k])
      /\ \A k \in 0 .. n : done(k) \in Seq(Row(flags))
  BY <1>3, UpsertRecursion
<1>5. F[0] = 0 /\ \A k \in 1 .. n : F[k] = F[k - 1] + rows[k].plan
  BY <1>2 DEF PlannedSteps
<1>6. \A j, k \in 1 .. n : j # k => rows[j].month # rows[k].month
  OBVIOUS
<1> HIDE DEF n, done
<1> DEFINE Good(k) == /\ PlannedCost(done(k)) = F[k]
                      /\ ToSet(done(k)) \subseteq {rows[j] : j \in 1 .. k}
           P == {k \in Nat : k <= n => Good(k)}
<1>7. 0 \in P
  <2>1. PlannedCost(done(0)) = 0
    BY <1>4, PlannedEmpty, Zenon
  <2>2. ToSet(done(0)) = {}
    BY <1>3, <1>4
  <2>3. QED
    BY <1>5, <2>1, <2>2
<1>8. ASSUME NEW k \in Nat, k \in P PROVE k + 1 \in P
  <2> DEFINE s == done(k)
             r == rows[k + 1]
  <2>1. SUFFICES ASSUME k + 1 <= n PROVE Good(k + 1)
    OBVIOUS
  <2>2. k \in 0 .. n /\ k + 1 \in 1 .. n /\ (k + 1) - 1 = k /\ Good(k)
    BY <1>1, <1>8, <2>1
  <2>3. s \in Seq(Row(flags)) /\ r \in Row(flags) /\ done(k + 1) = UpsertLine(s, r) /\ F[k + 1] = F[k] + r.plan
    BY <1>1, <1>4, <1>5, <2>2
  <2>4. PlannedCost(s) = F[k] /\ ToSet(s) \subseteq {rows[j] : j \in 1 .. k}
    BY <2>2
  <2>5. \A q \in ToSet(s) : q.month # r.month
    <3>1. SUFFICES ASSUME NEW q \in ToSet(s) PROVE q.month # r.month
      OBVIOUS
    <3>2. PICK j \in 1 .. k : q = rows[j]
      BY <2>4
    <3>3. j \in 1 .. n /\ j # k + 1
      BY <1>1, <2>2, <3>2
    <3>4. QED
      BY <1>6, <2>2, <3>2, <3>3
  <2> HIDE DEF s, r
  <2>6. OtherMonths(s, r.month) = s
    <3>1. ToSet(s) \subseteq {q \in ToSet(s) : q.month # r.month}
      BY <2>5
    <3>2. QED
      BY <2>3, <3>1, AmongAll DEF OtherMonths
  <2>7. PlannedCost(s) \in Nat /\ r.plan \in Nat
    BY <2>3, PlannedNat DEF Row
  <2>8. PlannedCost(UpsertLine(s, r)) = PlannedCost(s) + r.plan
    <3>1. CASE IsZero(r)
      BY <2>6, <2>7, <3>1 DEF UpsertLine, IsZero
    <3>2. CASE ~ IsZero(r)
      <4>1. UpsertLine(s, r) = Append(s, r)
        BY <2>6, <3>2 DEF UpsertLine
      <4>2. QED
        BY <2>3, <4>1, PlannedAppend
    <3>3. QED
      BY <3>1, <3>2
  <2>9. ToSet(UpsertLine(s, r)) \subseteq ToSet(s) \cup {r}
    BY <2>3, UpsertLineFacts
  <2>10. ToSet(UpsertLine(s, r)) \subseteq {rows[j] : j \in 1 .. k + 1}
    <3>1. ToSet(s) \subseteq {rows[j] : j \in 1 .. k + 1}
      BY <2>2, <2>4
    <3>2. r \in {rows[j] : j \in 1 .. k + 1}
      BY <2>2 DEF r
    <3>3. QED
      BY <2>9, <3>1, <3>2
  <2>11. QED
    BY <2>3, <2>4, <2>8, <2>10
<1> HIDE DEF P
<1>9. \A k \in Nat : k \in P
  BY <1>7, <1>8, Induction
<1>10. Good(n) /\ done(n) \in Seq(Row(flags))
  BY <1>1, <1>4, <1>9 DEF P
<1>11. UpsertLines(<< >>, rows) = done(n) /\ {rows[j] : j \in 1 .. n} = ToSet(rows)
  BY ToSetType DEF UpsertLines, done, n
<1>12. QED
  BY <1>2, <1>10, <1>11

\* Lines that all cost as much or more cost as much or more together.
LEMMA PlannedRises ==
  ASSUME NEW flags, NEW s \in Seq(Row(flags)), NEW t \in Seq(Row(flags)), Len(t) = Len(s),
         \A k \in 1 .. Len(s) : t[k].plan >= s[k].plan
  PROVE  PlannedCost(t) >= PlannedCost(s)
<1> DEFINE n == Len(s)
<1>1. n \in Nat /\ \A k \in 1 .. n : s[k].plan \in Nat /\ t[k].plan \in Nat
  <2>1. \A k \in 1 .. n : s[k] \in Row(flags) /\ t[k] \in Row(flags)
    BY ElementOfSeq
  <2>2. QED
    BY <2>1, LenProperties DEF Row
<1>2. PICK F : F \in [0 .. n -> Nat] /\ PlannedSteps(F, s) /\ PlannedCost(s) = F[n]
  BY PlannedRecursion
<1>3. PICK G : G \in [0 .. n -> Nat] /\ PlannedSteps(G, t) /\ PlannedCost(t) = G[n]
  BY PlannedRecursion
<1>4. F[0] = 0 /\ G[0] = 0
      /\ \A k \in 1 .. n : F[k] = F[k - 1] + s[k].plan /\ G[k] = G[k - 1] + t[k].plan
  BY <1>2, <1>3 DEF PlannedSteps
<1>5. \A k \in 1 .. n : t[k].plan >= s[k].plan
  OBVIOUS
<1> DEFINE P == {k \in Nat : k <= n => G[k] >= F[k]}
<1> HIDE DEF n
<1>6. 0 \in P
  BY <1>4
<1>7. ASSUME NEW k \in Nat, k \in P PROVE k + 1 \in P
  <2>1. SUFFICES ASSUME k + 1 <= n PROVE G[k + 1] >= F[k + 1]
    OBVIOUS
  <2>2. k \in 0 .. n /\ k + 1 \in 1 .. n /\ (k + 1) - 1 = k /\ G[k] >= F[k]
    BY <1>1, <1>7, <2>1
  <2>3. F[k + 1] = F[k] + s[k + 1].plan /\ G[k + 1] = G[k] + t[k + 1].plan
    BY <1>4, <2>2
  <2>4. F[k] \in Nat /\ G[k] \in Nat /\ s[k + 1].plan \in Nat /\ t[k + 1].plan \in Nat
        /\ t[k + 1].plan >= s[k + 1].plan
    BY <1>1, <1>2, <1>3, <1>5, <2>2
  <2>5. QED
    BY <2>2, <2>3, <2>4
<1> HIDE DEF P
<1>8. \A k \in Nat : k \in P
  BY <1>6, <1>7, Induction
<1>9. n \in P /\ n <= n
  BY <1>1, <1>8
<1>10. G[n] >= F[n]
  BY <1>9 DEF P
<1>11. QED
  BY <1>2, <1>3, <1>10 DEF n

\* Merging inflates nothing that was not inflated.
LEMMA NormalizeInflates ==
  ASSUME NEW w \in Periods, w # NoWindow, NEW rows \in Seq(Row(Flags)), InflatedYears(rows) = {}
  PROVE  InflatedYears(Normalize(w, rows)) = {}
<1> DEFINE ms == MonthsHeld(w, rows)
           N == Normalize(w, rows)
<1>1. ms \in Seq(Months) /\ ToSet(ms) = {MonthIn(w, r) : r \in ToSet(rows)}
  BY MonthsHeldType
<1>2. DOMAIN ms = 1 .. Len(ms) /\ \A k \in 1 .. Len(ms) : ms[k] \in ToSet(ms)
  BY <1>1, LenProperties, ToSetType
<1>3. N = [k \in DOMAIN ms |-> MergedLine(w, rows, ms[k])]
  BY DEF Normalize, MonthsHeld
<1>4. \A r \in ToSet(rows) : r.inflated # "on"
  BY DEF InflatedYears
<1> HIDE DEF ms, N
<1>5. ASSUME NEW m \in ToSet(ms) PROVE MergedLine(w, rows, m).inflated # "on"
  <2> DEFINE t == MovedTo(w, rows, m)
  <2>1. t \in Seq(Row(Flags)) /\ ToSet(t) = {r \in ToSet(rows) : MonthIn(w, r) = m}
    BY MovedType
  <2>2. MergedLine(w, rows, m).inflated = IF InflatedYears(t) = {} THEN Head(t).inflated ELSE "on"
    BY DEF MergedLine
  <2> HIDE DEF t
  <2>3. InflatedYears(t) = {}
    BY <1>4, <2>1 DEF InflatedYears
  <2>4. t # << >> /\ 1 \in 1 .. Len(t)
    <3>1. \E r \in ToSet(t) : TRUE
      BY <1>1, <2>1
    <3>2. t # << >>
      BY <3>1, ToSetType
    <3>3. QED
      BY <2>1, <3>2, EmptySeq, LenProperties
  <2>5. Head(t) \in ToSet(t)
    BY <2>1, <2>4, ToSetType, HeadTailProperties
  <2>6. QED
    BY <1>4, <2>1, <2>2, <2>3, <2>5
<1>6. \A q \in ToSet(N) : q.inflated # "on"
  <2>1. N \in Seq(Row(Flags)) /\ DOMAIN N = 1 .. Len(ms)
    BY <1>2, <1>3, StoredIsAsked, NormalizeType DEF N
  <2>2. ToSet(N) = {N[k] : k \in 1 .. Len(ms)}
    BY <2>1 DEF ToSet
  <2>3. QED
    BY <1>2, <1>3, <1>5, <2>2
<1>7. QED
  BY <1>6 DEF InflatedYears, N

LEMMA MigratedFacts ==
  ASSUME NEW w \in Periods, NEW g \in Wide, NEW manages
  PROVE  /\ RefusesOne(Normalize(w, g.costs)) \/
              /\ PlannedCost(Migrated(w, g, manages).costs) >= PlannedCost(g.costs)
              /\ InflatedYears(g.costs) = {}
                   => PlannedCost(Migrated(w, g, manages).costs) = PlannedCost(g.costs)
         /\ w.start <= w.end => Settled(w, Migrated(w, g, manages))
<1> DEFINE costs == g.costs
           N == Normalize(w, costs)
           rows == Admitted(N)
           after == UpsertLines(<< >>, rows)
<1>1. costs \in Seq(Row(Flags)) /\ PlannedCost(costs) \in Nat
  <2>1. costs \in Seq(Row(Flags))
    BY DEF Wide
  <2>2. QED
    BY <2>1, PlannedNat
<1>2. CASE Settled(w, g)
  <2>1. Migrated(w, g, manages) = g
    BY <1>2 DEF Migrated
  <2>2. PlannedCost(costs) >= PlannedCost(costs)
    BY <1>1
  <2>3. QED
    BY <1>2, <2>1, <2>2
<1>3. CASE ~ Settled(w, g)
  <2>1. w # NoWindow
    BY <1>3 DEF Settled, Outside
  <2> HIDE DEF costs
  <2>2. /\ N \in Seq(Row(Flags))
        /\ PlannedCost(N) = PlannedCost(costs)
        /\ \A j, k \in 1 .. Len(N) : j # k => N[j].month # N[k].month
        /\ \A k \in 1 .. Len(N) : \E r \in ToSet(costs) : N[k].month = MonthIn(w, r)
    BY <1>1, <2>1, StoredIsAsked, NormalizeKeeps
  <2>3. InflatedYears(costs) = {} => InflatedYears(N) = {}
    BY <1>1, <2>1, NormalizeInflates
  <2> HIDE DEF N
  <2>4. /\ PreparedLines(N) \in Seq(Row(Flags)) /\ Len(PreparedLines(N)) = Len(N)
        /\ \A k \in 1 .. Len(N) : /\ PreparedLines(N)[k].month = N[k].month
                                  /\ PreparedLines(N)[k].plan >= N[k].plan
        /\ InflatedYears(N) = {} => PreparedLines(N) = N
    BY <2>2, StoredIsAsked, PreparedLinesType
  <2>5. /\ rows \in Seq(Row(Flags))
        /\ \A j, k \in 1 .. Len(rows) : j # k => rows[j].month # rows[k].month
        /\ \A k \in 1 .. Len(rows) : \E r \in ToSet(costs) : rows[k].month = MonthIn(w, r)
    <3>1. CASE RefusesOne(N)
      <4>1. rows = << >>
        BY <3>1 DEF Admitted
      <4> HIDE DEF rows
      <4>2. rows \in Seq(Row(Flags)) /\ Len(rows) = 0
        BY <4>1
      <4>3. QED
        BY <4>2
    <3>2. CASE ~ RefusesOne(N)
      <4>1. rows = PreparedLines(N)
        BY <3>2 DEF Admitted
      <4> HIDE DEF rows
      <4>2. QED
        BY <2>2, <2>4, <4>1
    <3>3. QED
      BY <3>1, <3>2
  <2>6. ~ RefusesOne(N) => /\ PlannedCost(rows) >= PlannedCost(N)
                           /\ InflatedYears(N) = {} => rows = N
    <3>1. SUFFICES ASSUME ~ RefusesOne(N)
                   PROVE  /\ PlannedCost(rows) >= PlannedCost(N)
                          /\ InflatedYears(N) = {} => rows = N
      OBVIOUS
    <3>2. rows = PreparedLines(N)
      BY <3>1 DEF Admitted
    <3> HIDE DEF rows
    <3>3. PlannedCost(rows) >= PlannedCost(N)
      BY <2>2, <2>4, <3>2, PlannedRises
    <3>4. QED
      BY <2>4, <3>2, <3>3
  <2> HIDE DEF rows
  <2>7. after \in Seq(Row(Flags)) /\ PlannedCost(after) = PlannedCost(rows) /\ ToSet(after) \subseteq ToSet(rows)
    BY <2>5, InsertedApart
  <2>8. DeletedGrid(g, manages) \in Wide
    BY DeletedType
  <2> HIDE DEF after
  <2>9. Migrated(w, g, manages) = [DeletedGrid(g, manages) EXCEPT !.costs = after]
    BY <1>3 DEF Migrated, after, rows, N, costs
  <2>10. Migrated(w, g, manages).costs = after
    BY <2>8, <2>9 DEF Wide
  <2>11. ASSUME w.start <= w.end, NEW q \in ToSet(after) PROVE ~ Outside(w, q)
    <3>1. q \in ToSet(rows)
      BY <2>7
    <3>2. PICK k \in 1 .. Len(rows) : q = rows[k]
      BY <2>5, <3>1, ToSetType
    <3>3. PICK r \in ToSet(costs) : q.month = MonthIn(w, r)
      BY <2>5, <3>2
    <3>4. w.start \in Nat /\ w.end \in Nat
      BY <2>1, Calendar
    <3>5. r.month \in Months /\ Months \subseteq Nat
      <4>1. ToSet(costs) \subseteq Row(Flags)
        BY <1>1, ToSetType DEF costs
      <4>2. r.month \in Months
        BY <4>1 DEF Row
      <4>3. Months \subseteq Nat
        BY Calendar
      <4>4. QED
        BY <4>2, <4>3
    <3>6. q.month \in w.start .. w.end
      BY <2>1, <2>11, <3>3, <3>4, <3>5 DEF MonthIn, Outside
    <3>7. QED
      BY <3>6 DEF Outside
  <2>12. w.start <= w.end => Settled(w, Migrated(w, g, manages))
    BY <2>10, <2>11 DEF Settled
  <2>13. ~ RefusesOne(N) => /\ PlannedCost(after) >= PlannedCost(costs)
                            /\ InflatedYears(costs) = {} => PlannedCost(after) = PlannedCost(costs)
    BY <2>2, <2>3, <2>6, <2>7
  <2>14. QED
    BY <2>10, <2>12, <2>13 DEF N, costs
<1>4. QED
  BY <1>2, <1>3

\* Moving the costs of a grid into the planned period loses none of them, unless a
\* line is refused, changes none that is not inflated, and comes to an end, for any
\* grid, settings and file (financial.py, _migrate_existing_grid_to_planned_window).
THEOREM MovingKeeps == PlanSpec => []MovingKeepsCosts
<1>1. TypeOK => MigrationLosesNoCost
  <2>1. ASSUME TypeOK, NEW i \in Initiatives, NEW manages \in BOOLEAN
        PROVE  RefusesOne(Normalize(window[i], grid[i].costs)) \/
                 /\ PlannedCost(Migrated(window[i], grid[i], manages).costs) >= PlannedCost(grid[i].costs)
                 /\ InflatedYears(grid[i].costs) = {}
                      => PlannedCost(Migrated(window[i], grid[i], manages).costs) = PlannedCost(grid[i].costs)
    BY <2>1, StateIsWide, MigratedFacts
  <2>2. QED
    BY <2>1 DEF MigrationLosesNoCost
<1>2. TypeOK => MigrationSettles
  <2>1. ASSUME TypeOK, NEW i \in Initiatives, NEW lines \in Requests, NEW manages \in BOOLEAN,
               window[i].start =< window[i].end,
               NEW g \in {grid[i], [grid[i] EXCEPT
                             !.costs = UpsertLines(@, RowsToImport(window[i], grid[i], FALSE, lines))]}
        PROVE  Settled(window[i], Migrated(window[i], g, manages))
    <3>1. grid[i] \in Wide /\ window[i] \in Periods /\ lines \in Seq(Row(Asked))
      BY <2>1, StateIsWide, RequestsAreRows
    <3>2. [grid[i] EXCEPT !.costs = UpsertLines(@, RowsToImport(window[i], grid[i], FALSE, lines))] \in Wide
      BY <3>1, ImportType
    <3>3. g \in Wide
      BY <2>1, <3>1, <3>2
    <3>4. QED
      BY <2>1, <3>1, <3>3, MigratedFacts
  <2>2. QED
    BY <2>1 DEF MigrationSettles
<1>3. QED
  BY <1>1, <1>2, PlanTyped, PTL DEF MovingKeepsCosts

=============================================================================
