------------------------------- MODULE Lemmas -------------------------------
(***************************************************************************)
(* Facts about numbers and lists that the proofs of more than one module,  *)
(* or of more than one operator, rest on.                                  *)
(***************************************************************************)
EXTENDS Naturals, Sequences, SequenceTheorems, FiniteSetTheorems, TLAPS

\* What holds of 0, and of n + 1 if it does of n, holds of all numbers: a
\* least number outside B would be the one more that the numbers up to n
\* outside B have than their predecessors.
LEMMA NatSetInduction ==
    ASSUME NEW B, 0 \in B, \A n \in Nat : n \in B => n + 1 \in B
    PROVE  Nat \subseteq B
<1> SUFFICES ASSUME NEW n \in Nat, n \notin B PROVE FALSE
  OBVIOUS
<1> DEFINE C == {i \in 0..n : i \notin B}
           D == C \ {n}
           f == [i \in C |-> i - 1]
<1>1. IsFiniteSet(C) /\ IsFiniteSet(D)
      /\ Cardinality(D) = Cardinality(C) - 1 /\ Cardinality(C) \in Nat
  <2>1. IsFiniteSet(0..n)
    BY FS_Interval
  <2>2. IsFiniteSet(C)
    BY <2>1, FS_Subset
  <2>3. n \in C
    OBVIOUS
  <2> HIDE DEF C
  <2>4. QED
    BY <2>2, <2>3, FS_RemoveElement, FS_CardinalityType
<1>2. \A i \in C : i - 1 \in D
  <2> SUFFICES ASSUME NEW i \in C PROVE i - 1 \in D
    OBVIOUS
  <2>1. i \in Nat /\ i # 0 /\ i <= n /\ i \notin B
    OBVIOUS
  <2>2. i - 1 \in Nat /\ (i - 1) + 1 = i
    BY <2>1
  <2>3. i - 1 \notin B
    BY <2>1, <2>2
  <2>4. QED
    BY <2>1, <2>2, <2>3
<1>3. C \subseteq Int
  OBVIOUS
<1> HIDE DEF C, D
<1>4. f \in [C -> D] /\ \A i, j \in C : f[i] = f[j] => i = j
  BY <1>2, <1>3
<1>5. Cardinality(D) < Cardinality(C)
  BY <1>1
<1> HIDE DEF f
<1>6. \E i, j \in C : i # j /\ f[i] = f[j]
  BY <1>1, <1>4, <1>5, FS_PigeonHole, Zenon
<1>7. QED
  BY <1>4, <1>6

\* What division leaves.
LEMMA DivMod ==
    ASSUME NEW x \in Nat, NEW b \in Nat \ {0}
    PROVE  /\ x \div b \in Nat
           /\ x % b \in 0..(b - 1)
           /\ ((x \div b) * b) + (x % b) = x
<1>1. x \div b \in Nat
  OBVIOUS
<1>2. x % b \in 0..(b - 1)
  OBVIOUS
<1>3. ((x \div b) * b) + (x % b) = x
  OBVIOUS
<1>4. QED
  BY <1>1, <1>2, <1>3

\* There is a function on 0..n that starts with a and goes on from each of its
\* values to the next by g.
HasSolution(a, g, n) ==
    \E f : /\ f \in [0..n -> Nat] /\ f[0] = a
          /\ \A i \in 1..n : f[i] = g[<<f[i - 1], i>>]

\* There always is one.
LEMMA Recursion ==
    ASSUME NEW a \in Nat, NEW g \in [Nat \X Nat -> Nat], NEW n \in Nat
    PROVE  HasSolution(a, g, n)
<1> DEFINE Solves(f, m) == f \in [0..m -> Nat] /\ f[0] = a
                           /\ \A i \in 1..m : f[i] = g[<<f[i - 1], i>>]
           B == {m \in Nat : \E f : Solves(f, m)}
<1>1. 0 \in B
  <2>1. Solves([i \in 0..0 |-> a], 0)
    OBVIOUS
  <2>2. QED
    BY <2>1
<1>2. ASSUME NEW m \in Nat, m \in B PROVE m + 1 \in B
  <2>1. PICK f : Solves(f, m)
    BY <1>2
  <2> DEFINE next == g[<<f[m], m + 1>>]
             h == [i \in 0..(m + 1) |-> IF i = m + 1 THEN next ELSE f[i]]
  <2>2. next \in Nat
    BY <2>1
  <2> HIDE DEF next
  <2>3. /\ \A i \in 0..m : i \in 0..(m + 1) /\ i # m + 1
        /\ \A i \in 0..(m + 1) : i = m + 1 \/ i \in 0..m
        /\ \A i \in 1..m : i \in 0..m /\ i - 1 \in 0..m
        /\ \A i \in 1..(m + 1) : i = m + 1 \/ i \in 1..m
        /\ (m + 1) - 1 = m /\ 0 \in 0..m /\ m \in 0..m /\ m + 1 \in 0..(m + 1)
    OBVIOUS
  <2>4. h \in [0..(m + 1) -> Nat]
    BY <2>1, <2>2, <2>3
  <2>5. h[m + 1] = next /\ \A i \in 0..m : h[i] = f[i]
    BY <2>3
  <2> HIDE DEF h
  <2>6. h[0] = a
    BY <2>1, <2>3, <2>5
  <2>7. ASSUME NEW i \in 1..(m + 1) PROVE h[i] = g[<<h[i - 1], i>>]
    <3>1. CASE i = m + 1
      BY <2>3, <2>5, <3>1 DEF next
    <3>2. CASE i \in 1..m
      BY <2>1, <2>3, <2>5, <3>2
    <3>3. QED
      BY <2>3, <3>1, <3>2
  <2>8. Solves(h, m + 1)
    BY <2>4, <2>6, <2>7
  <2>9. m + 1 \in Nat
    OBVIOUS
  <2> HIDE DEF Solves
  <2>10. QED
    BY <2>8, <2>9
<1>3. Nat \subseteq B
  <2> HIDE DEF B
  <2> QED
    BY <1>1, <1>2, NatSetInduction
<1>4. QED
  BY <1>3 DEF HasSolution

\* A list of at most one element.
LEMMA ShortSeq ==
    ASSUME NEW S, NEW s \in Seq(S), Len(s) <= 1, s # << >>
    PROVE  s[1] \in S /\ s = <<s[1]>>
<1>1. Len(s) = 1
  <2> DEFINE n == Len(s)
  <2>1. n \in Nat /\ n # 0 /\ n <= 1
    BY EmptySeq, LenProperties
  <2> HIDE DEF n
  <2>2. n = 1
    BY <2>1
  <2>3. QED
    BY <2>2 DEF n
<1>2. s[1] \in S
  BY <1>1, ElementOfSeq
<1>3. <<s[1]>> \in Seq(S) /\ Len(<<s[1]>>) = 1 /\ <<s[1]>>[1] = s[1]
  BY <1>2
<1>4. QED
  BY <1>1, <1>2, <1>3, SeqEqual

\* A list is its head in front of its tail, and the other way round.
LEMMA ConsHeadTail ==
    ASSUME NEW S, NEW s \in Seq(S), s # << >>
    PROVE  <<Head(s)>> \o Tail(s) = s
<1>1. Head(s) \in S /\ Tail(s) \in Seq(S) /\ Len(Tail(s)) = Len(s) - 1
  BY HeadTailProperties
<1>2. <<Head(s)>> \in Seq(S) /\ Len(<<Head(s)>>) = 1 /\ Head(s) = s[1]
  BY <1>1
<1>3. QED
  <2>1. \A i \in 1..Len(Tail(s)) : Tail(s)[i] = s[i + 1]
    BY HeadTailProperties
  <2>2. <<Head(s)>> \o Tail(s) \in Seq(S) /\ Len(<<Head(s)>> \o Tail(s)) = Len(s)
    BY <1>1, <1>2, ConcatProperties, LenProperties
  <2>3. ASSUME NEW i \in 1..Len(s) PROVE (<<Head(s)>> \o Tail(s))[i] = s[i]
    <3>1. (<<Head(s)>> \o Tail(s))[i]
            = IF i <= 1 THEN <<Head(s)>>[i] ELSE Tail(s)[i - 1]
      BY <1>1, <1>2, ConcatProperties, LenProperties
    <3>2. CASE i = 1
      BY <1>2, <3>1, <3>2
    <3>3. CASE i # 1
      BY <1>1, <2>1, <3>1, <3>3, LenProperties
    <3>4. QED
      BY <3>2, <3>3
  <2>4. QED
    BY <2>2, <2>3, SeqEqual

LEMMA HeadTailCons ==
    ASSUME NEW S, NEW e \in S, NEW s \in Seq(S)
    PROVE  /\ <<e>> \o s \in Seq(S)
           /\ <<e>> \o s # << >>
           /\ Len(<<e>> \o s) = Len(s) + 1
           /\ Head(<<e>> \o s) = e
           /\ Tail(<<e>> \o s) = s
<1>1. <<e>> \in Seq(S) /\ Len(<<e>>) = 1 /\ <<e>>[1] = e
  OBVIOUS
<1>2. <<e>> \o s \in Seq(S) /\ Len(<<e>> \o s) = Len(s) + 1
  BY <1>1, ConcatProperties, LenProperties
<1>3. <<e>> \o s # << >>
  BY <1>2, EmptySeq, LenProperties
<1>4. \A i \in 1..(Len(s) + 1) :
         (<<e>> \o s)[i] = IF i <= 1 THEN e ELSE s[i - 1]
  BY <1>1, ConcatProperties, LenProperties
<1>5. Head(<<e>> \o s) = e
  BY <1>2, <1>4, LenProperties
<1>6. /\ Tail(<<e>> \o s) \in Seq(S)
      /\ Len(Tail(<<e>> \o s)) = Len(s)
      /\ \A i \in 1..Len(s) : Tail(<<e>> \o s)[i] = (<<e>> \o s)[i + 1]
  BY <1>2, <1>3, HeadTailProperties, LenProperties
<1>7. \A i \in 1..Len(s) : Tail(<<e>> \o s)[i] = s[i]
  BY <1>4, <1>6, LenProperties
<1>8. Tail(<<e>> \o s) = s
  BY <1>6, <1>7, SeqEqual
<1>9. QED
  BY <1>2, <1>3, <1>5, <1>8

\* What is appended to the second of two lists is appended to both.
LEMMA ConcatAppend ==
    ASSUME NEW S, NEW s \in Seq(S), NEW t \in Seq(S), NEW e \in S
    PROVE  s \o Append(t, e) = Append(s \o t, e)
<1>1. <<e>> \in Seq(S) /\ s \o t \in Seq(S)
  BY ConcatProperties
<1>2. Append(t, e) = t \o <<e>> /\ Append(s \o t, e) = (s \o t) \o <<e>>
  BY <1>1, AppendIsConcat
<1>3. QED
  BY <1>1, <1>2, ConcatAssociative

\* The head of a list and its tail are the list, behind another one as well.
LEMMA JoinHeadTail ==
    ASSUME NEW S, NEW s \in Seq(S), NEW t \in Seq(S), t # << >>
    PROVE  s \o <<Head(t)>> \o Tail(t) = s \o t
<1>1. PICK first \in Seq(S), rest \in Seq(S) : first = <<Head(t)>> /\ rest = Tail(t)
  <2>1. Head(t) \in S /\ Tail(t) \in Seq(S)
    BY HeadTailProperties
  <2>2. <<Head(t)>> \in Seq(S)
    BY <2>1
  <2>3. QED
    BY <2>1, <2>2
<1>2. first \o rest = t
  BY <1>1, ConsHeadTail
<1>3. s \o first \o rest = s \o (first \o rest)
  BY ConcatAssociative
<1>4. QED
  BY <1>1, <1>2, <1>3

\* Where two joined lists are equal and their first parts equally long, the
\* parts are equal.
LEMMA SplitEqual ==
    ASSUME NEW S, NEW a \in Seq(S), NEW b \in Seq(S), NEW c \in Seq(S), NEW d \in Seq(S),
           a \o b = c \o d, Len(a) = Len(c)
    PROVE  a = c /\ b = d
<1>1. Len(a) \in Nat
  BY LenProperties
<1>2. a = c
  <2>1. \A i \in 1..Len(a) : (a \o b)[i] = a[i] /\ (c \o d)[i] = c[i]
    <3>1. \A i \in 1..Len(a) : i \in 1..(Len(a) + Len(b)) /\ i \in 1..(Len(c) + Len(d)) /\ i <= Len(a)
      BY <1>1, LenProperties
    <3>2. QED
      BY <3>1, ConcatProperties
  <2>2. QED
    BY <2>1, SeqEqual
<1>3. a \o b = a \o d
  BY <1>2
<1>4. b = d
  BY <1>3, ConcatSimplifications, Zenon
<1>5. QED
  BY <1>2, <1>4

\* The middle part of three.
LEMMA Middle ==
    ASSUME NEW S, NEW a \in Seq(S), NEW b \in Seq(S), NEW c \in Seq(S)
    PROVE  SubSeq((a \o b) \o c, Len(a) + 1, Len(a) + Len(b)) = b
<1> DEFINE all == (a \o b) \o c
           part == SubSeq(all, Len(a) + 1, Len(a) + Len(b))
<1>1. Len(a) \in Nat /\ Len(b) \in Nat /\ Len(c) \in Nat
  BY LenProperties
<1>2. a \o b \in Seq(S) /\ Len(a \o b) = Len(a) + Len(b)
      /\ \A i \in 1..Len(b) : (a \o b)[Len(a) + i] = b[i]
  <2>1. \A i \in 1..Len(b) : /\ Len(a) + i \in 1..(Len(a) + Len(b)) /\ ~(Len(a) + i <= Len(a))
                             /\ (Len(a) + i) - Len(a) = i
    BY <1>1
  <2>2. QED
    BY <2>1, ConcatProperties
<1>3. \A i \in 1..Len(b) : all[Len(a) + i] = b[i]
  <2>1. \A i \in 1..Len(b) : /\ Len(a) + i \in 1..((Len(a) + Len(b)) + Len(c))
                             /\ Len(a) + i <= Len(a) + Len(b)
    BY <1>1
  <2>2. QED
    BY <1>2, <2>1, ConcatProperties
<1> HIDE DEF all
<1>4. \A i \in (Len(a) + 1)..(Len(a) + Len(b)) : all[i] \in S
  <2> SUFFICES ASSUME NEW i \in (Len(a) + 1)..(Len(a) + Len(b)) PROVE all[i] \in S
    OBVIOUS
  <2>1. i - Len(a) \in 1..Len(b) /\ Len(a) + (i - Len(a)) = i
    BY <1>1
  <2>2. QED
    BY <1>3, <2>1, ElementOfSeq
<1>5. Len(a) + 1 \in Int /\ Len(a) + Len(b) \in Int
  BY <1>1
<1>6. /\ part \in Seq(S)
      /\ Len(part) = IF Len(a) + 1 <= Len(a) + Len(b)
                     THEN (Len(a) + Len(b)) - (Len(a) + 1) + 1 ELSE 0
      /\ \A i \in 1..((Len(a) + Len(b)) - (Len(a) + 1) + 1) : part[i] = all[(Len(a) + 1) + i - 1]
  BY <1>4, <1>5, SubSeqProperties
<1> HIDE DEF part
<1>7. Len(part) = Len(b)
  BY <1>1, <1>6
<1>8. \A i \in 1..Len(b) : part[i] = b[i]
  <2>1. \A i \in 1..Len(b) : /\ i \in 1..((Len(a) + Len(b)) - (Len(a) + 1) + 1)
                             /\ (Len(a) + 1) + i - 1 = Len(a) + i
    BY <1>1
  <2>2. QED
    BY <1>3, <1>6, <2>1
<1>9. part = b
  BY <1>6, <1>7, <1>8, SeqEqual
<1>10. QED
  BY <1>9 DEF part, all

=============================================================================
