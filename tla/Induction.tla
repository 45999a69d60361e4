------------------------------- MODULE Induction -------------------------------
(***************************************************************************)
(* Induction over naturals and sequences, stated of sets: a property is    *)
(* the set of the values that have it, so that the provers can use the     *)
(* lemmas for properties of their own.  The proofs about the recursive     *)
(* functions of the model rest on it.                                      *)
(***************************************************************************)
EXTENDS Integers, Sequences, SequenceTheorems, WellFoundedInduction, TLAPS

\* Every set of naturals that is not empty has a least element.
LEMMA LeastNatural ==
  ASSUME NEW T, T \subseteq Nat, T # {}
  PROVE  \E x \in T : \A y \in T : x <= y
<1> DEFINE R == {ss \in Nat \X Nat : ss[1] < ss[2]}
<1>1. IsWellFoundedOn(R, Nat)
  <2>1. OpToRel(<, Nat) = R
    BY DEF OpToRel
  <2> QED
    BY <2>1, NatLessThanWellFounded
<1>2. \A x, y \in Nat : <<y, x>> \in R <=> y < x
  OBVIOUS
<1> HIDE DEF R
<1>3. PICK x \in T : \A y \in T : <<y, x>> \notin R
  BY <1>1, WFMin, Zenon
<1>4. \A y \in T : ~(y < x)
  BY <1>2, <1>3
<1>5. \A y \in T : x <= y
  BY <1>4
<1> QED
  BY <1>5

\* What holds of 0, and of n + 1 when it holds of n, holds of every natural.
LEMMA NaturalInduction ==
  ASSUME NEW T, 0 \in T, \A n \in Nat : n \in T => n + 1 \in T
  PROVE  Nat \subseteq T
<1> SUFFICES ASSUME Nat \ T # {} PROVE FALSE
  OBVIOUS
<1>1. PICK x \in Nat \ T : \A y \in Nat \ T : x <= y
  BY LeastNatural
<1> QED
  BY <1>1

\* What holds of the empty sequence, and of a sequence with one more element
\* when it holds of the sequence, holds of every sequence.
LEMMA SequenceInduction ==
  ASSUME NEW S, NEW T, <<>> \in T,
         \A s \in Seq(S), e \in S : s \in T => Append(s, e) \in T
  PROVE  Seq(S) \subseteq T
<1> DEFINE L == {n \in Nat : \A s \in Seq(S) : Len(s) = n => s \in T}
<1>1. 0 \in L
  OBVIOUS
<1>2. ASSUME NEW n \in Nat, n \in L PROVE n + 1 \in L
  <2> SUFFICES ASSUME NEW s \in Seq(S), Len(s) = n + 1 PROVE s \in T
    OBVIOUS
  <2> DEFINE p == SubSeq(s, 1, n)
  <2>1. p \in Seq(S) /\ Len(p) = n /\ s[n + 1] \in S
    OBVIOUS
  <2>2. s = Append(p, s[n + 1])
    OBVIOUS
  <2>3. p \in T
    BY <1>2, <2>1
  <2> HIDE DEF p
  <2> QED
    BY <2>1, <2>2, <2>3
<1> HIDE DEF L
<1>3. Nat \subseteq L
  BY <1>1, <1>2, NaturalInduction
<1> QED
  BY <1>3 DEF L

\* A function on 1..n is a sequence of length n.
LEMMA TupleIsSequence ==
  ASSUME NEW S, NEW n \in Nat, NEW f \in [1..n -> S]
  PROVE  f \in Seq(S) /\ Len(f) = n
<1>1. f \in Seq(S)
  BY SeqDef
<1> QED
  BY <1>1

\* Two functions that take the same steps agree.
LEMMA SameSteps ==
  ASSUME NEW n \in Nat, NEW g, NEW h, g[0] = h[0],
         \A i \in 1..n : g[i - 1] = h[i - 1] => g[i] = h[i]
  PROVE  \A i \in 0..n : g[i] = h[i]
<1> DEFINE T == {i \in Nat : i <= n => g[i] = h[i]}
<1>1. 0 \in T
  OBVIOUS
<1>2. ASSUME NEW i \in Nat, i \in T PROVE i + 1 \in T
  <2> SUFFICES ASSUME i + 1 <= n PROVE g[i + 1] = h[i + 1]
    OBVIOUS
  <2>1. i + 1 \in 1..n /\ (i + 1) - 1 = i /\ g[i] = h[i]
    BY <1>2
  <2> QED
    BY <2>1
<1> HIDE DEF T
<1>3. Nat \subseteq T
  BY <1>1, <1>2, NaturalInduction
<1> QED
  BY <1>3 DEF T

\* A fold over a sequence exists: the function of its intermediate values.
LEMMA FoldExists ==
  ASSUME NEW S, NEW V, NEW base \in V, NEW F \in [S -> [V -> V]], NEW s \in Seq(S)
  PROVE  \E g \in [0..Len(s) -> V] :
           g[0] = base /\ \A i \in 1..Len(s) : g[i] = F[s[i]][g[i - 1]]
<1> DEFINE Steps(q, g) == g[0] = base /\ \A i \in 1..Len(q) : g[i] = F[q[i]][g[i - 1]]
           T == {q \in Seq(S) : \E g \in [0..Len(q) -> V] : Steps(q, g)}
<1>1. <<>> \in T
  <2> DEFINE g == [i \in 0..0 |-> base]
  <2>1. g \in [0..Len(<<>>) -> V] /\ Steps(<<>>, g) /\ <<>> \in Seq(S)
    OBVIOUS
  <2> HIDE DEF g
  <2> QED
    BY <2>1
<1>2. ASSUME NEW q \in Seq(S), NEW e \in S, q \in T PROVE Append(q, e) \in T
  <2>1. PICK g \in [0..Len(q) -> V] : Steps(q, g)
    BY <1>2
  <2> DEFINE n == Len(q) + 1
             r == Append(q, e)
             last == F[e][g[Len(q)]]
             h == [i \in 0..n |-> IF i < n THEN g[i] ELSE last]
  <2>2. /\ r \in Seq(S) /\ Len(r) = n /\ r[n] = e /\ n \in Nat \ {0}
        /\ \A i \in 1..Len(q) : r[i] = q[i]
    OBVIOUS
  <2>3. last \in V
    OBVIOUS
  <2>4. /\ h \in [0..n -> V] /\ h[n] = last
        /\ \A i \in 0..Len(q) : h[i] = g[i]
    BY <2>3
  <2>5. ASSUME NEW i \in 1..n PROVE h[i] = F[r[i]][h[i - 1]]
    <3>1. CASE i = n
      <4>1. i - 1 = Len(q) /\ h[i - 1] = g[Len(q)]
        BY <2>4, <3>1
      <4> QED
        BY <2>2, <2>4, <3>1, <4>1
    <3>2. CASE i # n
      <4>1. i \in 1..Len(q) /\ i \in 0..Len(q) /\ i - 1 \in 0..Len(q)
        BY <3>2
      <4>2. h[i] = g[i] /\ h[i - 1] = g[i - 1] /\ r[i] = q[i]
        BY <2>2, <2>4, <4>1
      <4>3. g[i] = F[q[i]][g[i - 1]]
        BY <2>1, <4>1
      <4> HIDE DEF h, r, last
      <4> QED
        BY <4>2, <4>3
    <3> QED
      BY <3>1, <3>2
  <2>6. h[0] = base
    BY <2>1, <2>4
  <2> HIDE DEF h, last
  <2>7. h \in [0..Len(r) -> V] /\ Steps(r, h)
    <3> HIDE DEF r
    <3> QED
      BY <2>2, <2>4, <2>5, <2>6
  <2> QED
    BY <2>2, <2>7
<1> HIDE DEF T
<1>3. Seq(S) \subseteq T
  BY <1>1, <1>2, SequenceInduction
<1> QED
  BY <1>3 DEF T

\* The same, for a step that is given a name: the provers find it by these.
IsStep(F, S, V) == F \in [S -> [V -> V]]

RunsAlong(g, F, V, base, s) ==
  g \in [0..Len(s) -> V] /\ g[0] = base /\ \A i \in 1..Len(s) : g[i] = F[s[i]][g[i - 1]]

LEMMA RunExists ==
  ASSUME NEW S, NEW V, NEW base \in V, NEW F, IsStep(F, S, V), NEW s \in Seq(S)
  PROVE  \E g : RunsAlong(g, F, V, base, s)
<1>1. F \in [S -> [V -> V]]
  BY DEF IsStep
<1>2. \E g \in [0..Len(s) -> V] :
        g[0] = base /\ \A i \in 1..Len(s) : g[i] = F[s[i]][g[i - 1]]
  BY <1>1, FoldExists
<1> QED
  BY <1>2, Zenon DEF RunsAlong
=============================================================================
