-------------------------- MODULE InductionProofs ---------------------------
(***************************************************************************)
(* Induction on the natural numbers, from the well-foundedness of `<', in  *)
(* a form without operator parameters, and what it says of FlattenSeq,     *)
(* whose definition is recursive.                                          *)
(***************************************************************************)
EXTENDS Integers, Sequences, SequencesExt, SequenceTheorems, WellFoundedInduction, TLAPS

LEMMA NatLess == IsWellFoundedOn({ss \in Nat \X Nat : ss[1] < ss[2]}, Nat)
BY NatLessThanWellFounded, Zenon DEF OpToRel

LEMMA LeastNat ==
  ASSUME NEW T \in SUBSET Nat, T # {}
  PROVE  \E x \in T : \A y \in T : x <= y
<1>. DEFINE R == {ss \in Nat \X Nat : ss[1] < ss[2]}
<1>1. PICK x \in T : \A y \in T : ~ (<<y, x>> \in R)
  <2>1. IsWellFoundedOn(R, Nat)
    BY NatLess
  <2>. HIDE DEF R
  <2>. QED
    BY <2>1, WFMin, Zenon
<1>2. \A y \in T : ~(y < x)
  BY <1>1
<1>. QED
  BY <1>2

\* Induction: the set of the numbers that have a property is Nat.
LEMMA SetInduction ==
  ASSUME NEW S \in SUBSET Nat, 0 \in S, \A n \in S : n + 1 \in S
  PROVE  S = Nat
<1>. DEFINE T == Nat \ S
<1>. SUFFICES ASSUME T # {} PROVE FALSE
  OBVIOUS
<1>1. PICK x \in T : \A y \in T : x <= y
  BY LeastNat, Zenon
<1>2. x # 0 /\ x - 1 \in Nat /\ ~(x - 1 \in T)
  BY <1>1
<1>. QED
  BY <1>2
-----------------------------------------------------------------------------
\* The parts of a flattened sequence of n sequences, from the left.
Joins(T, n, seqs, g) ==
  /\ g \in [0..n -> Seq(T)]
  /\ g[0] = <<>>
  /\ \A i \in 1..n : g[i] = g[i - 1] \o seqs[i]

LEMMA NextJoin ==
  ASSUME NEW T, NEW n \in Nat, NEW seqs \in [1..n -> Seq(T)],
         NEW m \in Nat, m < n, NEW g, Joins(T, m, seqs, g)
  PROVE  Joins(T, m + 1, seqs, [i \in 0..(m + 1) |->
                                  IF i = m + 1 THEN g[m] \o seqs[m + 1] ELSE g[i]])
<1>. DEFINE h == [i \in 0..(m + 1) |-> IF i = m + 1 THEN g[m] \o seqs[m + 1] ELSE g[i]]
<1>1. /\ \A i \in 0..m : g[i] \in Seq(T)
      /\ g[0] = <<>>
      /\ \A i \in 1..m : g[i] = g[i - 1] \o seqs[i]
  BY DEF Joins
<1>2. g[m] \in Seq(T) /\ seqs[m + 1] \in Seq(T)
  BY <1>1
<1>3. g[m] \o seqs[m + 1] \in Seq(T)
  BY <1>2, ConcatProperties
<1>4. h[m + 1] = g[m] \o seqs[m + 1] /\ \A i \in 0..m : h[i] = g[i]
  <2>1. m + 1 \in 0..(m + 1) /\ \A i \in 0..m : i \in 0..(m + 1) /\ i # m + 1
    OBVIOUS
  <2>. QED
    BY <2>1
<1>5. h \in [0..(m + 1) -> Seq(T)]
  BY <1>1, <1>3
<1>. HIDE DEF h
<1>6. ASSUME NEW i \in 1..(m + 1) PROVE h[i] = h[i - 1] \o seqs[i]
  <2>1. CASE i = m + 1
    <3>1. i - 1 = m /\ m \in 0..m
      BY <2>1
    <3>. QED
      BY <2>1, <3>1, <1>4
  <2>2. CASE i # m + 1
    <3>1. i \in 1..m /\ i \in 0..m /\ i - 1 \in 0..m
      BY <2>2
    <3>. QED
      BY <3>1, <1>1, <1>4
  <2>. QED
    BY <2>1, <2>2
<1>7. h[0] = <<>>
  <2>1. 0 \in 0..m
    OBVIOUS
  <2>. QED
    BY <2>1, <1>1, <1>4
<1>8. Joins(T, m + 1, seqs, h)
  BY <1>5, <1>6, <1>7 DEF Joins
<1>. QED
  BY <1>8 DEF h

LEMMA JoinsExist ==
  ASSUME NEW T, NEW n \in Nat, NEW seqs \in [1..n -> Seq(T)]
  PROVE  \E g : Joins(T, n, seqs, g)
<1>. DEFINE S == {m \in Nat : m <= n => \E g : Joins(T, m, seqs, g)}
<1>1. 0 \in S
  <2>1. Joins(T, 0, seqs, [i \in 0..0 |-> <<>>])
    BY DEF Joins
  <2>. QED
    BY <2>1
<1>2. ASSUME NEW m \in S PROVE m + 1 \in S
  <2>. SUFFICES ASSUME m + 1 <= n PROVE \E g : Joins(T, m + 1, seqs, g)
    BY <1>2
  <2>1. m \in Nat /\ m < n
    BY <1>2
  <2>2. PICK g : Joins(T, m, seqs, g)
    BY <1>2, <2>1
  <2>. QED
    BY <2>1, <2>2, NextJoin
<1>3. S = Nat
  <2>. HIDE DEF S
  <2>1. S \subseteq Nat
    BY DEF S
  <2>. QED
    BY <1>1, <1>2, <2>1, SetInduction
<1>4. n \in S
  BY <1>3
<1>. QED
  BY <1>4

\* FlattenSeq joins all of them.
LEMMA FlattenJoins ==
  ASSUME NEW T, NEW n \in Nat, NEW seqs \in [1..n -> Seq(T)], NEW g, Joins(T, n, seqs, g)
  PROVE  FlattenSeq(seqs) = g[n]
<1>0. seqs \in Seq(Seq(T)) /\ Len(seqs) = n
  OBVIOUS
<1>j. /\ \A i \in 0..n : g[i] \in Seq(T)
      /\ g[0] = <<>>
      /\ \A i \in 1..n : g[i] = g[i - 1] \o seqs[i]
  BY DEF Joins
<1>f. 1 \in 1..n => g[1] = seqs[1]
  <2>1. ASSUME NEW i \in 1..n, i = 1 PROVE g[i] = g[0] \o seqs[i]
    <3>1. i - 1 = 0
      BY <2>1
    <3>. QED
      BY <3>1, <1>j
  <2>. QED
    BY <2>1, <1>j, ConcatEmptySeq
<1>1. CASE n = 0
  BY <1>0, <1>1, <1>j DEF FlattenSeq
<1>2. CASE n # 0
  <2>. DEFINE Step(f) == [i \in 1..n |-> IF i = 1 THEN seqs[i] ELSE f[i - 1] \o seqs[i]]
              flatten == CHOOSE f : f = Step(f)
              h == [i \in 1..n |-> g[i]]
  <2>1. h = Step(h)
    <3>1. ASSUME NEW i \in 1..n
          PROVE  g[i] = IF i = 1 THEN seqs[i] ELSE h[i - 1] \o seqs[i]
      <4>1. i # 1 => i - 1 \in 1..n
        OBVIOUS
      <4>. QED
        BY <4>1, <1>f, <1>j
    <3>. HIDE DEF h
    <3>. QED
      BY <3>1 DEF h
  <2>2. flatten = Step(flatten)
    <3>. HIDE DEF Step, h
    <3>. QED
      BY <2>1
  <2>3. FlattenSeq(seqs) = flatten[n]
    BY <1>0, <1>2, Zenon DEF FlattenSeq
  <2>. HIDE DEF flatten
  <2>s. ASSUME NEW i \in 1..n PROVE flatten[i] = IF i = 1 THEN seqs[i] ELSE flatten[i - 1] \o seqs[i]
    <3>1. Step(flatten)[i] = IF i = 1 THEN seqs[i] ELSE flatten[i - 1] \o seqs[i]
      OBVIOUS
    <3>. HIDE DEF Step
    <3>. QED
      BY <2>2, <3>1
  <2>. HIDE DEF Step, h
  <2>. DEFINE S == {m \in Nat : m \in 1..n => flatten[m] = g[m]}
  <2>4. 0 \in S
    OBVIOUS
  <2>5. ASSUME NEW m \in S PROVE m + 1 \in S
    <3>. SUFFICES ASSUME m + 1 \in 1..n PROVE flatten[m + 1] = g[m + 1]
      BY <2>5
    <3>1. CASE m = 0
      BY <3>1, <2>s, <1>f
    <3>2. CASE m # 0
      <4>1. m \in 1..n /\ (m + 1) - 1 = m /\ m + 1 # 1
        BY <2>5, <3>2
      <4>2. flatten[m] = g[m]
        BY <2>5, <4>1
      <4>3. flatten[m + 1] = flatten[m] \o seqs[m + 1]
        BY <2>s, <4>1
      <4>. QED
        BY <4>1, <4>2, <4>3, <1>j
    <3>. QED
      BY <3>1, <3>2
  <2>6. S = Nat
    <3>. HIDE DEF S
    <3>1. S \subseteq Nat
      BY DEF S
    <3>. QED
      BY <2>4, <2>5, <3>1, SetInduction
  <2>7. n \in S /\ n \in 1..n
    BY <1>2, <2>6
  <2>. QED
    BY <2>3, <2>7
<1>. QED
  BY <1>1, <1>2

\* What holds of no sequence, and stays true when one more is joined, holds of
\* all of them joined.
LEMMA FlattenInduction ==
  ASSUME NEW T, NEW n \in Nat, NEW seqs \in [1..n -> Seq(T)], NEW Good,
         <<>> \in Good[0],
         \A i \in 1..n : \A s \in Seq(T) : s \in Good[i - 1] => s \o seqs[i] \in Good[i]
  PROVE  FlattenSeq(seqs) \in Seq(T) /\ FlattenSeq(seqs) \in Good[n]
<1>1. PICK g : Joins(T, n, seqs, g)
  BY JoinsExist
<1>2. /\ \A i \in 0..n : g[i] \in Seq(T)
      /\ g[0] = <<>>
      /\ \A i \in 1..n : g[i] = g[i - 1] \o seqs[i]
  BY <1>1 DEF Joins
<1>. DEFINE S == {m \in Nat : m <= n => g[m] \in Good[m]}
<1>3. 0 \in S
  BY <1>2
<1>4. ASSUME NEW m \in S PROVE m + 1 \in S
  <2>. SUFFICES ASSUME m + 1 <= n PROVE g[m + 1] \in Good[m + 1]
    BY <1>4
  <2>1. m \in 0..n /\ m + 1 \in 1..n /\ (m + 1) - 1 = m /\ m <= n
    BY <1>4
  <2>2. g[m] \in Seq(T) /\ g[m] \in Good[m] /\ g[m + 1] = g[m] \o seqs[m + 1]
    BY <1>2, <1>4, <2>1
  <2>. QED
    BY <2>1, <2>2
<1>5. S = Nat
  <2>. HIDE DEF S
  <2>1. S \subseteq Nat
    BY DEF S
  <2>. QED
    BY <1>3, <1>4, <2>1, SetInduction
<1>6. n \in S /\ n \in 0..n
  BY <1>5
<1>7. FlattenSeq(seqs) = g[n]
  BY <1>1, FlattenJoins, Zenon
<1>. HIDE DEF S
<1>8. g[n] \in Good[n] /\ g[n] \in Seq(T)
  BY <1>2, <1>6 DEF S
<1>. QED
  BY <1>7, <1>8
-----------------------------------------------------------------------------
(***************************************************************************)
(* What FlattenSeq makes of a change of the sequences.                     *)
(***************************************************************************)
LEMMA FlattenType ==
  ASSUME NEW T, NEW n \in Nat, NEW seqs \in [1..n -> Seq(T)]
  PROVE  FlattenSeq(seqs) \in Seq(T)
<1>1. PICK g : Joins(T, n, seqs, g)
  BY JoinsExist
<1>2. n \in 0..n /\ g[n] \in Seq(T)
  BY <1>1 DEF Joins
<1>. QED
  BY <1>1, <1>2, FlattenJoins

LEMMA FlattenNone ==
  ASSUME NEW T, NEW n \in Nat, NEW seqs \in [1..n -> Seq(T)], \A i \in 1..n : seqs[i] = <<>>
  PROVE  FlattenSeq(seqs) = <<>>
<1>. DEFINE h == [i \in 0..n |-> <<>>]
<1>1. \A i \in 0..n : h[i] = <<>>
  OBVIOUS
<1>2. h \in [0..n -> Seq(T)]
  OBVIOUS
<1>. HIDE DEF h
<1>3. ASSUME NEW i \in 1..n PROVE h[i] = h[i - 1] \o seqs[i]
  <2>1. i \in 0..n /\ i - 1 \in 0..n /\ <<>> \o <<>> = <<>>
    OBVIOUS
  <2>2. h[i] = <<>> /\ h[i - 1] = <<>> /\ seqs[i] = <<>>
    BY <1>1, <2>1, Zenon
  <2>. QED
    BY <2>1, <2>2, Zenon
<1>4. 0 \in 0..n /\ n \in 0..n
  OBVIOUS
<1>5. h[0] = <<>> /\ h[n] = <<>>
  BY <1>1, <1>4, Zenon
<1>6. Joins(T, n, seqs, h)
  BY ONLY <1>2, <1>3, <1>5, Zenon DEF Joins
<1>. QED
  BY <1>5, <1>6, FlattenJoins

\* A sequence in front.
LEMMA FlattenFirst ==
  ASSUME NEW T, NEW n \in Nat, NEW seqs \in [1..n -> Seq(T)],
         NEW more \in [1..(n + 1) -> Seq(T)], \A k \in 1..n : more[k + 1] = seqs[k]
  PROVE  FlattenSeq(more) = more[1] \o FlattenSeq(seqs)
<1>1. PICK g : Joins(T, n, seqs, g)
  BY JoinsExist
<1>2. /\ \A i \in 0..n : g[i] \in Seq(T)
      /\ g[0] = <<>>
      /\ \A i \in 1..n : g[i] = g[i - 1] \o seqs[i]
  BY <1>1 DEF Joins
<1>3. more[1] \in Seq(T) /\ \A i \in 1..n : seqs[i] \in Seq(T)
  OBVIOUS
<1>. DEFINE h == [i \in 0..(n + 1) |-> IF i = 0 THEN <<>> ELSE more[1] \o g[i - 1]]
<1>4. /\ h[0] = <<>>
      /\ \A i \in 1..(n + 1) : h[i] = more[1] \o g[i - 1]
  <2>1. 0 \in 0..(n + 1) /\ \A i \in 1..(n + 1) : i \in 0..(n + 1) /\ i # 0
    OBVIOUS
  <2>. QED
    BY <2>1
<1>5. h \in [0..(n + 1) -> Seq(T)]
  <2>1. ASSUME NEW i \in 1..(n + 1) PROVE more[1] \o g[i - 1] \in Seq(T)
    <3>1. i - 1 \in 0..n
      OBVIOUS
    <3>2. g[i - 1] \in Seq(T)
      BY ONLY <1>2, <3>1
    <3>3. more[1] \in Seq(T)
      BY <1>3
    <3>. QED
      BY ONLY <3>2, <3>3, ConcatProperties
  <2>. QED
    BY <2>1
<1>. HIDE DEF h
<1>6. ASSUME NEW i \in 1..(n + 1) PROVE h[i] = h[i - 1] \o more[i]
  <2>1. CASE i = 1
    <3>1. i - 1 = 0
      BY <2>1
    <3>2. h[i] = more[1] \o <<>> /\ h[i - 1] = <<>>
      BY <1>2, <1>4, <3>1
    <3>. QED
      BY <1>3, <2>1, <3>2, ConcatEmptySeq
  <2>2. CASE i # 1
    <3>1. i - 1 \in 1..n /\ i - 1 \in 1..(n + 1) /\ (i - 1) + 1 = i /\ (i - 1) - 1 \in 0..n
      BY <2>2
    <3>2. /\ h[i] = more[1] \o (g[(i - 1) - 1] \o seqs[i - 1])
          /\ h[i - 1] = more[1] \o g[(i - 1) - 1]
          /\ more[i] = seqs[i - 1]
      BY <1>2, <1>4, <3>1
    <3>3. g[(i - 1) - 1] \in Seq(T) /\ seqs[i - 1] \in Seq(T)
      BY <1>2, <1>3, <3>1
    <3>. QED
      <4>1. (more[1] \o g[(i - 1) - 1]) \o seqs[i - 1] = more[1] \o (g[(i - 1) - 1] \o seqs[i - 1])
        <5>. DEFINE x == more[1]
                    y == g[(i - 1) - 1]
                    z == seqs[i - 1]
        <5>1. x \in Seq(T) /\ y \in Seq(T) /\ z \in Seq(T)
          BY <1>3, <3>3
        <5>. HIDE DEF x, y, z
        <5>2. (x \o y) \o z = x \o (y \o z)
          BY ONLY <5>1, ConcatAssociative, SMTT(30)
        <5>. QED
          BY <5>2, Zenon DEF x, y, z
      <4>. QED
        BY <3>2, <4>1, Zenon
  <2>. QED
    BY <2>1, <2>2
<1>7. Joins(T, n + 1, more, h)
  BY <1>4, <1>5, <1>6 DEF Joins
<1>8. FlattenSeq(more) = h[n + 1] /\ FlattenSeq(seqs) = g[n]
  <2>1. n + 1 \in Nat
    OBVIOUS
  <2>. QED
    BY <1>1, <1>7, <2>1, FlattenJoins
<1>9. n + 1 \in 1..(n + 1) /\ (n + 1) - 1 = n
  OBVIOUS
<1>. QED
  BY <1>4, <1>8, <1>9

\* One more at the end.
LEMMA FlattenLast ==
  ASSUME NEW T, NEW n \in Nat, NEW seqs \in [1..n -> Seq(T)],
         NEW more \in [1..(n + 1) -> Seq(T)], \A k \in 1..n : more[k] = seqs[k]
  PROVE  FlattenSeq(more) = FlattenSeq(seqs) \o more[n + 1]
<1>1. PICK g : Joins(T, n, seqs, g)
  BY JoinsExist
<1>2. PICK h : Joins(T, n + 1, more, h)
  <2>1. n + 1 \in Nat
    OBVIOUS
  <2>. QED
    BY <2>1, JoinsExist
<1>3. /\ g[0] = <<>> /\ h[0] = <<>>
      /\ \A i \in 1..n : g[i] = g[i - 1] \o seqs[i]
      /\ \A i \in 1..(n + 1) : h[i] = h[i - 1] \o more[i]
  BY <1>1, <1>2 DEF Joins
<1>. DEFINE S == {i \in Nat : i <= n => h[i] = g[i]}
<1>4. 0 \in S
  BY <1>3
<1>5. ASSUME NEW m \in S PROVE m + 1 \in S
  <2>. SUFFICES ASSUME m + 1 <= n PROVE h[m + 1] = g[m + 1]
    BY <1>5
  <2>1. m + 1 \in 1..n /\ m + 1 \in 1..(n + 1) /\ (m + 1) - 1 = m /\ m <= n
    BY <1>5
  <2>2. h[m] = g[m]
    BY <1>5, <2>1
  <2>. QED
    BY <1>3, <2>1, <2>2
<1>6. S = Nat
  <2>. HIDE DEF S
  <2>1. S \subseteq Nat
    BY DEF S
  <2>. QED
    BY <1>4, <1>5, <2>1, SetInduction
<1>7. h[n] = g[n]
  <2>1. n \in S
    BY <1>6
  <2>. QED
    BY <2>1
<1>8. FlattenSeq(more) = h[n + 1] /\ FlattenSeq(seqs) = g[n]
  <2>1. n + 1 \in Nat
    OBVIOUS
  <2>. QED
    BY <1>1, <1>2, <2>1, FlattenJoins
<1>9. n + 1 \in 1..(n + 1) /\ (n + 1) - 1 = n
  OBVIOUS
<1>. QED
  BY <1>3, <1>7, <1>8, <1>9

\* An element appended to the last sequence that is not empty.
LEMMA FlattenAppend ==
  ASSUME NEW T, NEW n \in Nat, NEW seqs \in [1..n -> Seq(T)],
         NEW more \in [1..n -> Seq(T)], NEW k \in 1..n, NEW e \in T,
         more[k] = Append(seqs[k], e),
         \A j \in 1..n : j # k => more[j] = seqs[j],
         \A j \in 1..n : k < j => seqs[j] = <<>>
  PROVE  FlattenSeq(more) = Append(FlattenSeq(seqs), e)
<1>1. PICK g : Joins(T, n, seqs, g)
  BY JoinsExist
<1>2. /\ \A i \in 0..n : g[i] \in Seq(T)
      /\ g[0] = <<>>
      /\ \A i \in 1..n : g[i] = g[i - 1] \o seqs[i]
  BY <1>1 DEF Joins
<1>3. \A i \in 1..n : seqs[i] \in Seq(T)
  OBVIOUS
<1>. DEFINE h == [i \in 0..n |-> IF i < k THEN g[i] ELSE Append(g[i], e)]
<1>4. \A i \in 0..n : h[i] = IF i < k THEN g[i] ELSE Append(g[i], e)
  OBVIOUS
<1>5. h \in [0..n -> Seq(T)] /\ h[0] = <<>>
  <2>1. \A i \in 0..n : Append(g[i], e) \in Seq(T)
    BY <1>2, AppendProperties
  <2>2. 0 \in 0..n /\ 0 < k
    OBVIOUS
  <2>3. h[0] = <<>>
    BY <1>2, <1>4, <2>2
  <2>4. \A i \in 0..n : (IF i < k THEN g[i] ELSE Append(g[i], e)) \in Seq(T)
    BY <1>2, <2>1
  <2>. QED
    BY <2>3, <2>4
<1>. HIDE DEF h
<1>6. ASSUME NEW i \in 1..n PROVE h[i] = h[i - 1] \o more[i]
  <2>0. /\ i \in 0..n /\ i - 1 \in 0..n /\ g[i - 1] \in Seq(T) /\ seqs[i] \in Seq(T)
        /\ g[i] = g[i - 1] \o seqs[i]
    <3>1. i \in 0..n /\ i - 1 \in 0..n
      OBVIOUS
    <3>. QED
      BY <1>2, <1>3, <3>1, Zenon
  <2>1. CASE i < k
    <3>1. i # k /\ i - 1 < k
      BY <2>1
    <3>2. more[i] = seqs[i] /\ h[i] = g[i] /\ h[i - 1] = g[i - 1]
      BY <1>4, <2>0, <2>1, <3>1
    <3>. QED
      BY <2>0, <3>2, Zenon
  <2>2. CASE i = k
    <3>1. h[i] = Append(g[i - 1] \o seqs[i], e) /\ h[i - 1] = g[i - 1]
          /\ more[i] = Append(seqs[i], e)
      <4>1. ~(i < k) /\ i - 1 < k
        BY <2>2
      <4>2. h[i] = Append(g[i], e) /\ h[i - 1] = g[i - 1]
        BY <1>4, <2>0, <4>1, Zenon
      <4>. QED
        BY <2>0, <2>2, <4>2, Zenon
    <3>2. /\ Append(g[i - 1] \o seqs[i], e) = (g[i - 1] \o seqs[i]) \o <<e>>
          /\ Append(seqs[i], e) = seqs[i] \o <<e>>
      <4>1. g[i - 1] \o seqs[i] \in Seq(T)
        BY ONLY <2>0, ConcatProperties
      <4>2. seqs[i] \in Seq(T)
        BY <2>0
      <4>. QED
        BY ONLY <4>1, <4>2, e \in T, AppendIsConcat
    <3>3. (g[i - 1] \o seqs[i]) \o <<e>> = g[i - 1] \o (seqs[i] \o <<e>>)
      <4>1. <<e>> \in Seq(T)
        OBVIOUS
      <4>. QED
        <5>. DEFINE x == g[i - 1]
                    y == seqs[i]
                    z == <<e>>
        <5>1. x \in Seq(T) /\ y \in Seq(T) /\ z \in Seq(T)
          BY <2>0, <4>1
        <5>. HIDE DEF x, y, z
        <5>2. (x \o y) \o z = x \o (y \o z)
          BY ONLY <5>1, ConcatAssociative, SMTT(30)
        <5>. QED
          BY <5>2, Zenon DEF x, y, z
    <3>. QED
      BY <3>1, <3>2, <3>3
  <2>3. CASE k < i
    <3>1. more[i] = <<>> /\ seqs[i] = <<>> /\ ~(i < k) /\ ~(i - 1 < k) /\ i # k
      BY <2>3
    <3>2. h[i] = Append(g[i], e) /\ h[i - 1] = Append(g[i - 1], e)
      BY <1>4, <2>0, <3>1
    <3>3. g[i] = g[i - 1]
      BY <2>0, <3>1, ConcatEmptySeq
    <3>4. Append(g[i - 1], e) \in Seq(T)
      BY <2>0, AppendProperties
    <3>. QED
      BY <3>1, <3>2, <3>3, <3>4, ConcatEmptySeq
  <2>4. i < k \/ i = k \/ k < i
    OBVIOUS
  <2>. QED
    BY <2>1, <2>2, <2>3, <2>4, Zenon
<1>7. Joins(T, n, more, h)
  BY <1>5, <1>6 DEF Joins
<1>8. FlattenSeq(more) = h[n] /\ FlattenSeq(seqs) = g[n]
  BY <1>1, <1>7, FlattenJoins
<1>9. n \in 0..n /\ ~(n < k)
  OBVIOUS
<1>. QED
  BY <1>4, <1>8, <1>9
-----------------------------------------------------------------------------
LEMMA SuffixOfConcat ==
  ASSUME NEW T, NEW s \in Seq(T), NEW t \in Seq(T)
  PROVE  IsSuffix(t, s \o t)
<1>. DEFINE a == Reverse(t)
            b == Reverse(s \o t)
            m == Len(t)
            n == Len(s)
<1>1. /\ m \in Nat /\ n \in Nat /\ Len(s \o t) = n + m
      /\ \A i \in 1..(n + m) : (s \o t)[i] = IF i <= n THEN s[i] ELSE t[i - n]
  BY ConcatProperties
<1>2. /\ a \in Seq(T) /\ Len(a) = m
      /\ \A i \in 1..m : a[i] = t[(m - i) + 1]
  <2>1. \A i \in 1..m : t[(m - i) + 1] \in T
    BY <1>1
  <2>2. a \in [1..m -> T] /\ \A i \in 1..m : a[i] = t[(m - i) + 1]
    BY <2>1 DEF Reverse
  <2>. HIDE DEF a
  <2>. QED
    BY <1>1, <2>2
<1>3. /\ b \in Seq(T) /\ Len(b) = n + m
      /\ \A i \in 1..(n + m) : b[i] = (s \o t)[((n + m) - i) + 1]
  <2>1. s \o t \in Seq(T)
    BY ConcatProperties
  <2>2. \A i \in 1..(n + m) : (s \o t)[((n + m) - i) + 1] \in T
    BY <1>1, <2>1
  <2>3. b \in [1..(n + m) -> T] /\ \A i \in 1..(n + m) : b[i] = (s \o t)[((n + m) - i) + 1]
    BY <1>1, <2>2 DEF Reverse
  <2>4. n + m \in Nat
    BY <1>1
  <2>5. ASSUME NEW k \in Nat, b \in [1..k -> T] PROVE b \in Seq(T) /\ Len(b) = k
    <3>. HIDE DEF b
    <3>. QED
      BY <2>5
  <2>. QED
    BY <2>3, <2>4, <2>5
<1>. HIDE DEF a, b, m, n
<1>4. ASSUME NEW i \in 1..m PROVE a[i] = b[i]
  <2>1. /\ i \in 1..(n + m) /\ ((n + m) - i) + 1 \in 1..(n + m)
        /\ ~(((n + m) - i) + 1 <= n) /\ (((n + m) - i) + 1) - n = (m - i) + 1
    BY <1>1
  <2>. QED
    BY <1>1, <1>2, <1>3, <2>1
<1>5. SubSeq(a, 1, m) = SubSeq(b, 1, m)
  <2>1. SubSeq(a, 1, m) = [i \in 1..m |-> a[i]]
    BY <1>1, <1>2
  <2>2. SubSeq(b, 1, m) = [i \in 1..m |-> b[i]]
    BY <1>1, <1>3
  <2>. QED
    BY <1>4, <2>1, <2>2
<1>6. IsPrefix(a, b)
  BY <1>1, <1>2, <1>3, <1>5 DEF IsPrefix
<1>. QED
  BY <1>6 DEF IsSuffix, a, b

LEMMA SuffixOfItself == ASSUME NEW T, NEW s \in Seq(T) PROVE IsSuffix(s, s)
<1>1. <<>> \in Seq(T) /\ <<>> \o s = s
  BY ConcatEmptySeq
<1>. QED
  BY <1>1, SuffixOfConcat

LEMMA EmptySuffix == ASSUME NEW T, NEW s \in Seq(T) PROVE IsSuffix(<<>>, s)
<1>1. <<>> \in Seq(T) /\ s \o <<>> = s
  BY ConcatEmptySeq
<1>. QED
  BY <1>1, SuffixOfConcat
=============================================================================
