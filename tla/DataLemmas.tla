----------------------------- MODULE DataLemmas -----------------------------
(***************************************************************************)
(* Facts about numbers and sequences that the standard proof modules do    *)
(* not state, or state with an operator as a parameter: induction, for a   *)
(* set of numbers instead of a predicate, concatenation, and FlattenSeq,   *)
(* from its recursion equation.                                            *)
(***************************************************************************)
EXTENDS Integers, Sequences, SequencesExt, WellFoundedInduction, TLAPS

----------------------------------------------------------------------------
(* Numbers.                                                                *)

\* A set of numbers that is not empty has a least element.
LEMMA LeastNat ==
    ASSUME NEW T, T \subseteq Nat, T # {}
    PROVE  \E x \in T : \A y \in T : x <= y
<1>1. IsWellFoundedOn(OpToRel(<, Nat), Nat)
  BY NatLessThanWellFounded
<1>2. PICK x \in T : \A y \in T : <<y, x>> \notin OpToRel(<, Nat)
  BY <1>1, WFMin
<1>3. \A y \in T : ~(y < x)
  BY <1>2 DEF OpToRel
<1>4. QED
  BY <1>3

\* Induction over the numbers, for the set of those that are good.
LEMMA AllNat ==
    ASSUME NEW T, 0 \in T, \A n \in Nat : n \in T => n + 1 \in T
    PROVE  Nat \subseteq T
<1> SUFFICES ASSUME Nat \ T # {} PROVE FALSE
  OBVIOUS
<1>1. PICK n \in Nat \ T : \A y \in Nat \ T : n <= y
  BY LeastNat
<1>2. n - 1 \in Nat /\ n - 1 \in T
  BY <1>1
<1>3. QED
  BY <1>1, <1>2

\* A register holds what is left of a number.
LEMMA ModRange ==
    ASSUME NEW e \in Int PROVE e % 65536 \in Nat /\ e % 65536 <= 65535
OBVIOUS

\* A number that fits a register is held as it is.
LEMMA ModSmall ==
    ASSUME NEW e \in Nat, e <= 65535 PROVE e % 65536 = e
OBVIOUS

\* What is left of a whole part.
LEMMA Divides ==
    ASSUME NEW a \in Nat, NEW b \in Nat, b > 0
    PROVE  a \div b \in Nat /\ b * (a \div b) <= a /\ a < b * (a \div b) + b
OBVIOUS

\* A whole part is at least what fits.
LEMMA Fitting ==
    ASSUME NEW a \in Nat, NEW b \in Nat, b > 0, NEW q \in Nat, b * q <= a
    PROVE  q <= a \div b
<1> DEFINE d == a \div b
<1>1. d \in Nat /\ a < b * d + b
  BY Divides
<1> HIDE DEF d
<1>2. ASSUME d < q PROVE FALSE
  <2>1. d + 1 <= q
    BY <1>1, <1>2
  <2>2. b * (d + 1) <= b * q
    BY <1>1, <2>1
  <2>3. b * (d + 1) = b * d + b
    BY <1>1
  <2>4. QED
    BY <1>1, <2>2, <2>3
<1>3. QED
  BY <1>1, <1>2 DEF d

\* A whole part is no more than what does not fit.
LEMMA NoMore ==
    ASSUME NEW a \in Nat, NEW b \in Nat, b > 0, NEW q \in Nat, a <= b * q
    PROVE  a \div b <= q
<1> DEFINE d == a \div b
<1>1. d \in Nat /\ b * d <= a
  BY Divides
<1> HIDE DEF d
<1>2. ASSUME q < d PROVE FALSE
  <2>1. q + 1 <= d
    BY <1>1, <1>2
  <2>2. b * (q + 1) <= b * d
    BY <1>1, <2>1
  <2>3. b * (q + 1) = b * q + b
    BY <1>1
  <2>4. QED
    BY <1>1, <2>2, <2>3
<1>3. QED
  BY <1>1, <1>2 DEF d

\* The less of two numbers.
LEMMA MinOfTwo ==
    ASSUME NEW a \in Int, NEW b \in Int
    PROVE  Min({a, b}) = IF a <= b THEN a ELSE b
BY DEF Min

----------------------------------------------------------------------------
(* Sequences.                                                              *)

\* A sequence of n values, whatever they are.
IsSeq(s, n) == n \in Nat /\ Len(s) = n /\ s \in Seq({s[i] : i \in 1 .. n})

\* A sequence over a set is one.
LEMMA IsSeqOf ==
    ASSUME NEW S, NEW s \in Seq(S) PROVE IsSeq(s, Len(s))
BY DEF IsSeq

\* A function on 1 .. n is a sequence.
LEMMA FunctionIsSeq ==
    ASSUME NEW n \in Nat, NEW f, f = [i \in 1 .. n |-> f[i]] PROVE IsSeq(f, n)
BY DEF IsSeq

\* Two sequences are sequences over one set.
LEMMA ConcatBoth ==
    ASSUME NEW s, NEW n \in Nat, IsSeq(s, n), NEW t, NEW m \in Nat, IsSeq(t, m)
    PROVE  \E S : s \in Seq(S) /\ t \in Seq(S) /\ Len(s) = n /\ Len(t) = m
<1> DEFINE S == {s[i] : i \in 1 .. n} \cup {t[i] : i \in 1 .. m}
<1>1. \A i \in 1 .. n : s[i] \in S
  OBVIOUS
<1>2. \A i \in 1 .. m : t[i] \in S
  OBVIOUS
<1>3. s \in Seq(S) /\ t \in Seq(S) /\ Len(s) = n /\ Len(t) = m
  BY <1>1, <1>2 DEF IsSeq
<1>4. QED
  BY <1>3

\* The sequence u is s, of n values, followed by t, of m values.
Concatenated(u, s, n, t, m) ==
    /\ IsSeq(u, n + m)
    /\ \A i \in 1 .. n : u[i] = s[i]
    /\ \A i \in 1 .. m : u[n + i] = t[i]

\* Concatenation is that.
LEMMA ConcatIs ==
    ASSUME NEW s, NEW n \in Nat, IsSeq(s, n), NEW t, NEW m \in Nat, IsSeq(t, m)
    PROVE  Concatenated(s \o t, s, n, t, m)
<1>1. PICK S : s \in Seq(S) /\ t \in Seq(S) /\ Len(s) = n /\ Len(t) = m
  BY ConcatBoth
<1>2. s \o t \in Seq(S) /\ Len(s \o t) = n + m
  BY <1>1
<1>3. IsSeq(s \o t, n + m)
  BY <1>2, IsSeqOf
<1>4. QED
  BY <1>1, <1>3 DEF Concatenated

\* The empty sequence adds nothing.
LEMMA NothingMore ==
    ASSUME NEW s, NEW n \in Nat, IsSeq(s, n), NEW t, t = << >> PROVE s \o t = s
<1>1. s \in Seq({s[i] : i \in 1 .. n})
  BY DEF IsSeq
<1> DEFINE S == {s[i] : i \in 1 .. n}
<1> HIDE DEF S
<1>2. s \in Seq(S)
  BY <1>1 DEF S
<1>3. QED
  BY <1>2

\* The order in which sequences are joined does not matter.
LEMMA Associative ==
    ASSUME NEW a, NEW n \in Nat, IsSeq(a, n), NEW b, NEW m \in Nat, IsSeq(b, m),
           NEW c, NEW k \in Nat, IsSeq(c, k)
    PROVE  a \o (b \o c) = (a \o b) \o c
<1> DEFINE S == {a[i] : i \in 1 .. n} \cup {b[i] : i \in 1 .. m} \cup {c[i] : i \in 1 .. k}
<1>1. \A i \in 1 .. n : a[i] \in S
  OBVIOUS
<1>2. \A i \in 1 .. m : b[i] \in S
  OBVIOUS
<1>3. \A i \in 1 .. k : c[i] \in S
  OBVIOUS
<1>4. a \in Seq(S) /\ b \in Seq(S) /\ c \in Seq(S)
  BY <1>1, <1>2, <1>3 DEF IsSeq
<1> HIDE DEF S
<1>5. QED
  BY <1>4

\* Three values make a triple.
LEMMA ThreeValues ==
    ASSUME NEW p, IsSeq(p, 3) PROVE \E a, b, c : p = <<a, b, c>>
<1>1. p = <<p[1], p[2], p[3]>>
  BY DEF IsSeq
<1>2. QED
  BY <1>1

\* Six values make a sextuple.
LEMMA SixValues ==
    ASSUME NEW p, IsSeq(p, 6) PROVE \E a, b, c, d, e, f : p = <<a, b, c, d, e, f>>
<1>1. p = <<p[1], p[2], p[3], p[4], p[5], p[6]>>
  BY DEF IsSeq
<1>2. QED
  BY <1>1

----------------------------------------------------------------------------
(* FlattenSeq.                                                             *)

\* The recursion equation of FlattenSeq, on its first n sequences.
Flattens(seqs, f, n) ==
    f = [i \in 1 .. n |-> IF i = 1 THEN seqs[i] ELSE f[i - 1] \o seqs[i]]

\* The equation has a solution, by induction on n.
LEMMA FlattensExists ==
    ASSUME NEW seqs, NEW n \in Nat PROVE \E f : Flattens(seqs, f, n)
<1> DEFINE T == {m \in Nat : \E f : Flattens(seqs, f, m)}
<1>1. 0 \in T
  <2>1. Flattens(seqs, << >>, 0)
    BY DEF Flattens
  <2>2. QED
    BY <2>1
<1>2. ASSUME NEW m \in Nat, m \in T PROVE m + 1 \in T
  <2>1. PICK f : Flattens(seqs, f, m)
    BY <1>2
  <2> DEFINE next == IF m = 0 THEN seqs[1] ELSE f[m] \o seqs[m + 1]
             g == [i \in 1 .. m + 1 |-> IF i = m + 1 THEN next ELSE f[i]]
  <2>2. ASSUME NEW i \in 1 .. m + 1
        PROVE  g[i] = IF i = 1 THEN seqs[i] ELSE g[i - 1] \o seqs[i]
    <3>1. CASE i = m + 1
      BY <3>1
    <3>2. CASE i \in 1 .. m
      <4>1. f[i] = IF i = 1 THEN seqs[i] ELSE f[i - 1] \o seqs[i]
        BY <2>1, <3>2 DEF Flattens
      <4>2. g[i] = f[i] /\ (i # 1 => g[i - 1] = f[i - 1])
        BY <3>2
      <4>3. QED
        BY <4>1, <4>2
    <3>3. QED
      BY <3>1, <3>2
  <2>3. Flattens(seqs, g, m + 1)
    BY <2>2 DEF Flattens
  <2>4. QED
    BY <2>3
<1>3. QED
  BY <1>1, <1>2, AllNat

\* FlattenSeq is what a solution holds at the last sequence.
LEMMA FlattenSeqIs ==
    ASSUME NEW seqs, Len(seqs) \in Nat \ {0}
    PROVE  \E f : Flattens(seqs, f, Len(seqs)) /\ FlattenSeq(seqs) = f[Len(seqs)]
<1> DEFINE f == CHOOSE f : Flattens(seqs, f, Len(seqs))
<1>1. Flattens(seqs, f, Len(seqs))
  BY FlattensExists
<1>2. FlattenSeq(seqs) = f[Len(seqs)]
  BY DEF FlattenSeq, Flattens
<1>3. QED
  BY <1>1, <1>2

\* Sequences of one width, one after the other: the width and the values.
LEMMA FlattenUniform ==
    ASSUME NEW seqs, NEW n \in Nat, IsSeq(seqs, n),
           NEW w \in Nat, \A j \in 1 .. n : IsSeq(seqs[j], w)
    PROVE  /\ IsSeq(FlattenSeq(seqs), w * n)
           /\ \A j \in 1 .. n, i \in 1 .. w :
                 FlattenSeq(seqs)[w * (j - 1) + i] = seqs[j][i]
<1>1. CASE n = 0
  <2>1. seqs = << >>
    BY <1>1 DEF IsSeq
  <2>2. FlattenSeq(seqs) = << >>
    BY <2>1 DEF FlattenSeq
  <2>3. QED
    BY <1>1, <2>2 DEF IsSeq
<1>2. CASE n # 0
  <2>1. PICK f : Flattens(seqs, f, n) /\ FlattenSeq(seqs) = f[n]
    BY <1>2, FlattenSeqIs DEF IsSeq
  <2> DEFINE Good(k) == /\ IsSeq(f[k], w * k)
                        /\ \A j \in 1 .. k, i \in 1 .. w : f[k][w * (j - 1) + i] = seqs[j][i]
             T == {k \in Nat : k + 1 \in 1 .. n => Good(k + 1)}
  <2>2. 0 \in T
    <3>1. f[1] = seqs[1]
      BY <1>2, <2>1 DEF Flattens
    <3>2. QED
      BY <1>2, <3>1
  <2>3. ASSUME NEW k \in Nat, k \in T, k + 2 \in 1 .. n PROVE Good(k + 2)
    <3>1. f[k + 2] = f[k + 1] \o seqs[k + 2]
      <4>1. k + 2 # 1 /\ (k + 2) - 1 = k + 1
        OBVIOUS
      <4>2. f[k + 2] = f[(k + 2) - 1] \o seqs[k + 2]
        BY <2>1, <2>3, <4>1 DEF Flattens
      <4>3. QED
        BY <4>1, <4>2
    <3>2. Good(k + 1)
      BY <2>3
    <3> DEFINE a == w * (k + 1)
               s == f[k + 1]
               t == seqs[k + 2]
    <3>3. a \in Nat /\ IsSeq(s, a) /\ IsSeq(t, w) /\ f[k + 2] = s \o t
      BY <2>3, <3>1, <3>2
    <3> HIDE DEF a, s, t
    <3>4. Concatenated(f[k + 2], s, a, t, w)
      BY <3>3, ConcatIs
    <3>5. /\ IsSeq(f[k + 2], a + w)
          /\ \A i \in 1 .. a : f[k + 2][i] = s[i]
          /\ \A i \in 1 .. w : f[k + 2][a + i] = t[i]
      BY <3>4 DEF Concatenated
    <3> USE DEF a, s, t
    <3>6. ASSUME NEW j \in 1 .. k + 2, NEW i \in 1 .. w
          PROVE  f[k + 2][w * (j - 1) + i] = seqs[j][i]
      <4>1. CASE j = k + 2
        <5>1. w * (j - 1) + i = w * (k + 1) + i
          BY <4>1
        <5>2. QED
          BY <3>5, <4>1, <5>1
      <4>2. CASE j \in 1 .. k + 1
        <5>1. w * (j - 1) + i \in 1 .. w * (k + 1)
          <6>1. w * (j - 1) >= 0 /\ w * (j - 1) + w <= w * (k + 1)
            BY <4>2
          <6>2. QED
            BY <6>1
        <5>2. f[k + 2][w * (j - 1) + i] = f[k + 1][w * (j - 1) + i]
          BY <3>5, <5>1
        <5>3. QED
          BY <3>2, <4>2, <5>2
      <4>3. QED
        BY <4>1, <4>2
    <3>7. w * (k + 2) = w * (k + 1) + w
      OBVIOUS
    <3>8. QED
      BY <3>5, <3>6, <3>7
  <2>4. Nat \subseteq T
    <3>1. \A k \in Nat : k \in T => k + 1 \in T
      BY <2>3
    <3> HIDE DEF T
    <3>2. QED
      BY <2>2, <3>1, AllNat
  <2>5. n - 1 \in T
    BY <1>2, <2>4
  <2>6. QED
    BY <1>2, <2>1, <2>5
<1>3. QED
  BY <1>1, <1>2

\* Sequences of a bounded width: a bounded width.
LEMMA FlattenBounded ==
    ASSUME NEW seqs, NEW n \in Nat, IsSeq(seqs, n), NEW b \in Nat,
           \A j \in 1 .. n : \E w \in 0 .. b : IsSeq(seqs[j], w)
    PROVE  \E k \in 0 .. b * n : IsSeq(FlattenSeq(seqs), k)
<1>1. CASE n = 0
  <2>1. seqs = << >>
    BY <1>1 DEF IsSeq
  <2>2. FlattenSeq(seqs) = << >>
    BY <2>1 DEF FlattenSeq
  <2>3. QED
    BY <1>1, <2>2 DEF IsSeq
<1>2. CASE n # 0
  <2>1. PICK f : Flattens(seqs, f, n) /\ FlattenSeq(seqs) = f[n]
    BY <1>2, FlattenSeqIs DEF IsSeq
  <2> DEFINE Good(i) == \E k \in 0 .. b * i : IsSeq(f[i], k)
             T == {i \in Nat : i + 1 \in 1 .. n => Good(i + 1)}
  <2>2. 0 \in T
    <3>1. f[1] = seqs[1]
      BY <1>2, <2>1 DEF Flattens
    <3>2. QED
      BY <1>2, <3>1
  <2>3. ASSUME NEW i \in Nat, i \in T, i + 2 \in 1 .. n PROVE Good(i + 2)
    <3>1. f[i + 2] = f[i + 1] \o seqs[i + 2]
      <4>1. i + 2 # 1 /\ (i + 2) - 1 = i + 1
        OBVIOUS
      <4>2. f[i + 2] = f[(i + 2) - 1] \o seqs[i + 2]
        BY <2>1, <2>3, <4>1 DEF Flattens
      <4>3. QED
        BY <4>1, <4>2
    <3>2. PICK k \in 0 .. b * (i + 1) : IsSeq(f[i + 1], k)
      BY <2>3
    <3>3. PICK w \in 0 .. b : IsSeq(seqs[i + 2], w)
      BY <2>3
    <3>4. IsSeq(f[i + 1] \o seqs[i + 2], k + w)
      <4> DEFINE s == f[i + 1]
                 t == seqs[i + 2]
      <4>1. IsSeq(s, k) /\ IsSeq(t, w) /\ k \in Nat /\ w \in Nat
        BY <3>2, <3>3
      <4> HIDE DEF s, t
      <4>2. Concatenated(s \o t, s, k, t, w)
        BY <4>1, ConcatIs
      <4>3. QED
        BY <4>2 DEF Concatenated, s, t
    <3>5. b * (i + 2) = b * (i + 1) + b /\ b * (i + 1) \in Nat
      OBVIOUS
    <3>6. k + w \in 0 .. b * (i + 2)
      <4> DEFINE c == b * (i + 1)
                 d == b * (i + 2)
      <4>1. c \in Nat /\ d = c + b
        BY <3>5
      <4>2. k \in 0 .. c /\ w \in 0 .. b
        OBVIOUS
      <4> HIDE DEF c, d
      <4>3. k + w \in 0 .. d
        BY <4>1, <4>2
      <4>4. QED
        BY <4>3 DEF d
    <3>7. QED
      BY <3>1, <3>4, <3>6
  <2>4. Nat \subseteq T
    <3>1. \A i \in Nat : i \in T => i + 1 \in T
      BY <2>3
    <3> HIDE DEF T
    <3>2. QED
      BY <2>2, <3>1, AllNat
  <2>5. n - 1 \in T
    <3> HIDE DEF T
    <3>1. QED
      BY <1>2, <2>4
  <2>6. QED
    BY <1>2, <2>1, <2>5
<1>3. QED
  BY <1>1, <1>2
=============================================================================
