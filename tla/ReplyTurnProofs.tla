--------------------------- MODULE ReplyTurnProofs ---------------------------
(***************************************************************************)
(* Theorems about one question to the model and the speech it leads to,    *)
(* for replies, audio and queues of any size.                              *)
(***************************************************************************)
EXTENDS ReplyTurn, WellFoundedInduction, TLAPS

-----------------------------------------------------------------------------
(* Numbers. *)

Precedes == {pair \in Nat \X Nat : pair[1] < pair[2]}

\* A set of numbers that is not empty has a least element.
LEMMA Least ==
  ASSUME NEW S \in SUBSET Nat, S # {}
  PROVE  \E i \in S : \A j \in S : i <= j
<1>1. IsWellFoundedOn(Precedes, Nat)
  <2>1. OpToRel(<, Nat) = Precedes
    BY Zenon DEF OpToRel, Precedes
  <2> QED BY <2>1, NatLessThanWellFounded, Zenon
<1>2. PICK i \in S : \A j \in S : ~(<<j, i>> \in Precedes)
  BY <1>1, WFMin, Zenon
<1>3. ASSUME NEW j \in S PROVE ~(j < i)
  BY <1>2 DEF Precedes
<1> QED BY <1>3

\* Induction up to n, over the set of the numbers that have the property.
LEMMA UpTo ==
  ASSUME NEW n \in Nat, NEW H, 0 \in H, \A i \in 1..n : i - 1 \in H => i \in H
  PROVE  n \in H
<1> DEFINE Not == {i \in 0..n : i \notin H}
<1> SUFFICES ASSUME n \notin H PROVE FALSE
  OBVIOUS
<1>1. PICK i \in Not : \A j \in Not : i <= j
  <2>1. Not \in SUBSET Nat /\ n \in Not
    OBVIOUS
  <2> QED BY <2>1, Least
<1>2. i \in 1..n /\ i - 1 \in 0..n /\ i - 1 \notin Not
  BY <1>1
<1> QED BY <1>1, <1>2

-----------------------------------------------------------------------------
(* Sequences. *)

LEMMA EmptyIsUnit ==
  ASSUME NEW T, NEW q \in Seq(T)
  PROVE  <<>> \o q = q /\ q \o <<>> = q
OBVIOUS

LEMMA NoElements ==
  ASSUME NEW T, NEW q \in Seq(T), Len(q) = 0
  PROVE  q = <<>>
OBVIOUS

LEMMA SameSequence ==
  ASSUME NEW T, NEW q \in Seq(T), NEW r \in Seq(T), Len(q) = Len(r),
         \A i \in 1..Len(q) : q[i] = r[i]
  PROVE  q = r
OBVIOUS

LEMMA ConcatTypes ==
  ASSUME NEW T, NEW q \in Seq(T), NEW r \in Seq(T)
  PROVE  q \o r \in Seq(T) /\ Len(q \o r) = Len(q) + Len(r)
OBVIOUS

Associate(q, r, t) == q \o (r \o t) = (q \o r) \o t

LEMMA ConcatIsAssociative ==
  ASSUME NEW T
  PROVE  \A q, r, t \in Seq(T) : Associate(q, r, t)
BY DEF Associate

\* What FlattenSeq adds up: f[i] is the first i of s, one after the other.
IsSum(s, f) == f[0] = <<>> /\ \A i \in 1..Len(s) : f[i] = f[i - 1] \o s[i]

LEMMA SumExists ==
  ASSUME NEW T, NEW s \in Seq(Seq(T))
  PROVE  \E f \in [0..Len(s) -> Seq(T)] : IsSum(s, f)
<1> DEFINE Sum(n, f) == f[0] = <<>> /\ \A i \in 1..n : f[i] = f[i - 1] \o s[i]
           H == {n \in 0..Len(s) : \E f \in [0..n -> Seq(T)] : Sum(n, f)}
<1>1. Len(s) \in Nat /\ \A i \in 1..Len(s) : s[i] \in Seq(T)
  OBVIOUS
<1>2. 0 \in H
  <2> DEFINE f == [i \in 0..0 |-> <<>>]
  <2>1. f \in [0..0 -> Seq(T)] /\ f[0] = <<>>
    OBVIOUS
  <2>2. Sum(0, f)
    BY <2>1
  <2> HIDE DEF f, Sum
  <2> QED BY <1>1, <2>1, <2>2
<1>3. ASSUME NEW n \in 1..Len(s), n - 1 \in H PROVE n \in H
  <2>1. PICK f \in [0..(n - 1) -> Seq(T)] : Sum(n - 1, f)
    BY <1>3
  <2>2. n \in Nat /\ n >= 1 /\ s[n] \in Seq(T) /\ n - 1 \in 0..(n - 1) /\ f[n - 1] \in Seq(T)
    BY <1>1
  <2> DEFINE g == [i \in 0..n |-> IF i = n THEN f[n - 1] \o s[n] ELSE f[i]]
  <2>3. g \in [0..n -> Seq(T)]
    <3>1. \A i \in 0..n : i = n \/ i \in 0..(n - 1)
      BY <2>2
    <3>2. f[n - 1] \o s[n] \in Seq(T)
      BY <2>2
    <3> QED BY <3>1, <3>2
  <2>4. g[n] = f[n - 1] \o s[n] /\ \A i \in 0..(n - 1) : g[i] = f[i]
    <3>1. n \in 0..n
      BY <2>2
    <3>2. ASSUME NEW i \in 0..(n - 1) PROVE i \in 0..n /\ i # n
      BY <2>2
    <3> QED BY <3>1, <3>2
  <2> HIDE DEF g
  <2>5. Sum(n, g)
    <3>1. g[0] = <<>>
      BY <2>1, <2>2, <2>4
    <3>2. ASSUME NEW i \in 1..n PROVE g[i] = g[i - 1] \o s[i]
      <4>1. CASE i = n
        <5>1. g[i - 1] = f[n - 1]
          BY <2>2, <2>4, <4>1
        <5> QED BY <2>4, <4>1, <5>1
      <4>2. CASE i # n
        <5>1. i \in 1..(n - 1) /\ i \in 0..(n - 1) /\ i - 1 \in 0..(n - 1)
          BY <2>2, <4>2
        <5>2. f[i] = f[i - 1] \o s[i]
          BY <2>1, <5>1
        <5> QED BY <2>4, <5>1, <5>2
      <4> QED BY <4>1, <4>2
    <3> QED BY <3>1, <3>2
  <2> HIDE DEF Sum
  <2> QED BY <2>2, <2>3, <2>5
<1>4. Len(s) \in H
  <2> HIDE DEF H
  <2> QED BY <1>1, <1>2, <1>3, UpTo
<1> QED BY <1>4 DEF IsSum

LEMMA FlattenIsSum ==
  ASSUME NEW T, NEW s \in Seq(Seq(T)), NEW f \in [0..Len(s) -> Seq(T)], IsSum(s, f)
  PROVE  FlattenSeq(s) = f[Len(s)]
<1> DEFINE body(g) == [i \in 1..Len(s) |-> IF i = 1 THEN s[i] ELSE g[i - 1] \o s[i]]
           flatten == CHOOSE g : g = body(g)
<1>1. PICK n \in Nat : n = Len(s)
  OBVIOUS
<1>2. CASE n = 0
  <2>1. FlattenSeq(s) = s
    <3>1. Len(s) = 0
      BY <1>1, <1>2
    <3> QED BY <3>1, Zenon DEF FlattenSeq
  <2>2. s = <<>>
    <3>1. Len(s) = 0
      BY <1>1, <1>2
    <3> QED BY <3>1, NoElements, Zenon
  <2>3. f[Len(s)] = <<>>
    BY <1>1, <1>2 DEF IsSum
  <2> QED BY <2>1, <2>2, <2>3
<1>3. CASE n # 0
  <2>1. FlattenSeq(s) = flatten[n]
    BY <1>1, <1>3 DEF FlattenSeq
  <2> DEFINE h == [i \in 1..Len(s) |-> f[i]]
  <2>2. ASSUME NEW i \in 1..n
        PROVE  h[i] = f[i] /\ f[i] = IF i = 1 THEN s[i] ELSE h[i - 1] \o s[i]
    <3>1. f[i] = f[i - 1] \o s[i] /\ h[i] = f[i]
      BY <1>1 DEF IsSum
    <3>2. CASE i = 1
      <4>1. s[i] \in Seq(T) /\ f[i - 1] = <<>>
        BY <1>1, <3>2 DEF IsSum
      <4>2. <<>> \o s[i] = s[i]
        BY <4>1, EmptyIsUnit
      <4> QED BY <3>1, <3>2, <4>1, <4>2
    <3>3. CASE i # 1
      <4>1. i - 1 \in 1..Len(s)
        BY <1>1, <3>3
      <4> QED BY <3>1, <3>3, <4>1
    <3> QED BY <3>2, <3>3
  <2>3. h = body(h)
    <3>1. \A i \in 1..Len(s) : h[i] = IF i = 1 THEN s[i] ELSE h[i - 1] \o s[i]
      BY <1>1, <2>2
    <3> QED BY <3>1
  <2>4. flatten = body(flatten)
    <3> HIDE DEF h, body
    <3> QED BY <2>3, Zenon
  <2>5. \A i \in 1..n : flatten[i] = IF i = 1 THEN s[i] ELSE flatten[i - 1] \o s[i]
    <3> HIDE DEF flatten
    <3> QED BY <1>1, <2>4
  <2> HIDE DEF flatten
  <2> DEFINE H == {i \in 0..n : i = 0 \/ flatten[i] = f[i]}
  <2>6. 0 \in H
    BY <1>1
  <2>7. ASSUME NEW i \in 1..n, i - 1 \in H PROVE i \in H
    <3>1. flatten[i] = IF i = 1 THEN s[i] ELSE flatten[i - 1] \o s[i]
      BY <2>5
    <3>2. f[i] = IF i = 1 THEN s[i] ELSE f[i - 1] \o s[i]
      <4>1. i # 1 => h[i - 1] = f[i - 1]
        BY <1>1
      <4> QED BY <2>2, <4>1
    <3>3. i - 1 = 0 \/ flatten[i - 1] = f[i - 1]
      BY <2>7
    <3>4. flatten[i] = f[i]
      BY <3>1, <3>2, <3>3
    <3> QED BY <3>4
  <2>8. n \in H
    <3> HIDE DEF H
    <3> QED BY <1>1, <2>6, <2>7, UpTo
  <2> QED BY <1>1, <1>3, <2>1, <2>8
<1> QED BY <1>2, <1>3

\* FlattenSeq, and every other sum with it.
LEMMA Flatten ==
  ASSUME NEW T, NEW s \in Seq(Seq(T))
  PROVE  \E f \in [0..Len(s) -> Seq(T)] : IsSum(s, f) /\ FlattenSeq(s) = f[Len(s)]
BY SumExists, FlattenIsSum

LEMMA FlattenTypes ==
  ASSUME NEW T, NEW s \in Seq(Seq(T))
  PROVE  FlattenSeq(s) \in Seq(T)
<1>1. Len(s) \in 0..Len(s)
  OBVIOUS
<1> QED BY <1>1, Flatten

LEMMA FlattenConcat ==
  ASSUME NEW T, NEW s \in Seq(Seq(T)), NEW t \in Seq(Seq(T))
  PROVE  FlattenSeq(s \o t) = FlattenSeq(s) \o FlattenSeq(t)
<1>1. PICK m \in Nat, n \in Nat : m = Len(s) /\ n = Len(t)
  OBVIOUS
<1>2. PICK f \in [0..m -> Seq(T)] : IsSum(s, f) /\ FlattenSeq(s) = f[m]
  BY <1>1, Flatten
<1>3. PICK g \in [0..n -> Seq(T)] : IsSum(t, g) /\ FlattenSeq(t) = g[n]
  BY <1>1, Flatten
<1>4. /\ s \o t \in Seq(Seq(T)) /\ Len(s \o t) = m + n
      /\ \A i \in 1..m : (s \o t)[i] = s[i] /\ s[i] \in Seq(T)
      /\ \A i \in (m + 1)..(m + n) : (s \o t)[i] = t[i - m] /\ t[i - m] \in Seq(T)
  BY <1>1
<1> DEFINE h == [i \in 0..(m + n) |-> IF i <= m THEN f[i] ELSE f[m] \o g[i - m]]
<1>5. /\ \A i \in 0..m : h[i] = f[i] /\ f[i] \in Seq(T)
      /\ \A i \in (m + 1)..(m + n) : h[i] = f[m] \o g[i - m] /\ g[i - m] \in Seq(T)
  BY SMTT(30)
<1>6. h \in [0..(m + n) -> Seq(T)]
  <2>1. ASSUME NEW i \in 0..(m + n) PROVE h[i] \in Seq(T)
    <3>1. CASE i \in 0..m
      BY <1>5, <3>1
    <3>2. CASE i \in (m + 1)..(m + n)
      BY <1>5, <3>2
    <3> QED BY <3>1, <3>2
  <2> QED BY <2>1
<1> HIDE DEF h
<1>7. h[m + n] = f[m] \o g[n]
  <2>1. CASE n = 0
    <3>1. g[n] = <<>> /\ f[m] \in Seq(T)
      BY <1>3, <2>1 DEF IsSum
    <3>2. h[m + n] = f[m]
      BY <1>5, <2>1
    <3> QED BY <3>1, <3>2, EmptyIsUnit
  <2>2. CASE n # 0
    <3>1. m + n \in (m + 1)..(m + n) /\ (m + n) - m = n
      BY <2>2
    <3> QED BY <1>5, <3>1
  <2> QED BY <2>1, <2>2
<1>8. h[0] = <<>>
  BY <1>2, <1>5 DEF IsSum
<1>9. ASSUME NEW i \in 1..(m + n) PROVE h[i] = h[i - 1] \o (s \o t)[i]
  <2>1. CASE i <= m
    <3>1. i \in 1..m /\ i \in 0..m /\ i - 1 \in 0..m
      BY <2>1
    <3>2. f[i] = f[i - 1] \o s[i]
      BY <1>1, <1>2, <3>1 DEF IsSum
    <3> QED BY <1>4, <1>5, <3>1, <3>2
  <2>2. CASE i > m
    <3>1. i \in (m + 1)..(m + n) /\ i - m \in 1..n
      BY <2>2
    <3>2. g[i - m] = g[(i - m) - 1] \o t[i - m]
      BY <1>1, <1>3, <3>1 DEF IsSum
    <3>3. /\ h[i] = f[m] \o g[i - m]
          /\ (s \o t)[i] = t[i - m] /\ t[i - m] \in Seq(T)
          /\ f[m] \in Seq(T)
      <4>1. h[i] = f[m] \o g[i - m]
        BY <1>5, <3>1
      <4>2. (s \o t)[i] = t[i - m] /\ t[i - m] \in Seq(T)
        BY <1>4, <3>1
      <4>3. f[m] \in Seq(T)
        OBVIOUS
      <4> QED BY <4>1, <4>2, <4>3
    <3>4. h[i - 1] = f[m] \o g[(i - m) - 1] /\ g[(i - m) - 1] \in Seq(T)
      <4>1. CASE i = m + 1
        <5>1. (i - m) - 1 = 0 /\ i - 1 = m /\ m \in 0..m
          BY <4>1
        <5>2. g[(i - m) - 1] = <<>>
          BY <1>3, <5>1 DEF IsSum
        <5>3. h[i - 1] = f[m]
          BY <1>5, <5>1
        <5>4. f[m] \o <<>> = f[m]
          BY <3>3, EmptyIsUnit
        <5>5. <<>> \in Seq(T)
          OBVIOUS
        <5> QED BY <5>2, <5>3, <5>4, <5>5
      <4>2. CASE i # m + 1
        <5>1. i - 1 \in (m + 1)..(m + n) /\ (i - 1) - m = (i - m) - 1
          BY <3>1, <4>2
        <5> QED BY <1>5, <5>1
      <4> QED BY <4>1, <4>2
    <3>5. f[m] \o (g[(i - m) - 1] \o t[i - m]) = (f[m] \o g[(i - m) - 1]) \o t[i - m]
      <4>1. f[m] \in Seq(T) /\ g[(i - m) - 1] \in Seq(T) /\ t[i - m] \in Seq(T)
        BY <3>3, <3>4
      <4>2. Associate(f[m], g[(i - m) - 1], t[i - m])
        BY <4>1, ConcatIsAssociative, Zenon
      <4> QED BY <4>2 DEF Associate
    <3>6. h[i] = f[m] \o (g[(i - m) - 1] \o t[i - m])
      BY <3>2, <3>3, Zenon
    <3>7. h[i - 1] \o (s \o t)[i] = (f[m] \o g[(i - m) - 1]) \o t[i - m]
      BY <3>3, <3>4, Zenon
    <3> QED BY <3>5, <3>6, <3>7, Zenon
  <2>3. i <= m \/ i > m
    OBVIOUS
  <2> QED BY <2>1, <2>2, <2>3, Zenon
<1>10. IsSum(s \o t, h)
  BY <1>4, <1>8, <1>9 DEF IsSum
<1> QED BY <1>2, <1>3, <1>4, <1>6, <1>7, <1>10, FlattenIsSum

\* One sequence, one element and none.
LEMMA FlattenOne ==
  ASSUME NEW T, NEW q \in Seq(T)
  PROVE  FlattenSeq(<<q>>) = q
<1> DEFINE f == [i \in 0..1 |-> IF i = 0 THEN <<>> ELSE q]
<1>1. f \in [0..1 -> Seq(T)] /\ f[0] = <<>> /\ f[1] = q
  OBVIOUS
<1>2. <<q>> \in Seq(Seq(T)) /\ Len(<<q>>) = 1 /\ <<q>>[1] = q
  OBVIOUS
<1> HIDE DEF f
<1>3. IsSum(<<q>>, f)
  <2>1. <<>> \o q = q
    BY EmptyIsUnit
  <2>2. ASSUME NEW i \in 1..Len(<<q>>) PROVE i = 1 /\ i - 1 = 0
    BY <1>2
  <2> QED BY <1>1, <1>2, <2>1, <2>2, Zenon DEF IsSum
<1> QED BY <1>1, <1>2, <1>3, FlattenIsSum

LEMMA FlattenEmpty == FlattenSeq(<<>>) = <<>>
BY Zenon DEF FlattenSeq

LEMMA FlattenAppend ==
  ASSUME NEW T, NEW s \in Seq(Seq(T)), NEW q \in Seq(T)
  PROVE  FlattenSeq(Append(s, q)) = FlattenSeq(s) \o q
<1>1. Append(s, q) = s \o <<q>> /\ <<q>> \in Seq(Seq(T))
  OBVIOUS
<1>2. FlattenSeq(s \o <<q>>) = FlattenSeq(s) \o FlattenSeq(<<q>>)
  BY <1>1, FlattenConcat
<1>3. FlattenSeq(<<q>>) = q
  BY FlattenOne
<1> QED BY <1>1, <1>2, <1>3, Zenon

\* Nothing but empty sequences.
LEMMA FlattenEmpties ==
  ASSUME NEW T, NEW s \in Seq(Seq(T)), \A i \in 1..Len(s) : s[i] = <<>>
  PROVE  FlattenSeq(s) = <<>>
<1>1. PICK n \in Nat : n = Len(s)
  OBVIOUS
<1> DEFINE f == [i \in 0..n |-> <<>>]
<1>2. f \in [0..n -> Seq(T)] /\ \A i \in 0..n : f[i] = <<>>
  OBVIOUS
<1> HIDE DEF f
<1>3. ASSUME NEW i \in 1..n PROVE f[i] = f[i - 1] \o s[i]
  <2>1. i \in 0..n /\ i - 1 \in 0..n
    OBVIOUS
  <2>2. f[i] = <<>> /\ f[i - 1] = <<>> /\ s[i] = <<>>
    BY <1>1, <1>2, <2>1
  <2>3. <<>> \in Seq(T) /\ <<>> \o <<>> = <<>>
    OBVIOUS
  <2> QED BY <2>2, <2>3
<1>4. f[0] = <<>> /\ f[n] = <<>>
  BY <1>2
<1>5. IsSum(s, f)
  BY <1>1, <1>3, <1>4 DEF IsSum
<1> QED BY <1>1, <1>2, <1>4, <1>5, FlattenIsSum

\* Nothing but sequences of one element.
LEMMA FlattenSingles ==
  ASSUME NEW T, NEW s \in Seq(Seq(T)), NEW q \in Seq(T), Len(s) = Len(q),
         \A i \in 1..Len(q) : s[i] = <<q[i]>>
  PROVE  FlattenSeq(s) = q
<1>1. PICK n \in Nat : n = Len(q) /\ n = Len(s)
  OBVIOUS
<1> DEFINE first(i) == [j \in 1..i |-> q[j]]
           f == [i \in 0..n |-> first(i)]
<1>2. ASSUME NEW i \in 0..n PROVE first(i) \in Seq(T) /\ Len(first(i)) = i
  <2>1. \A j \in 1..i : q[j] \in T
    BY <1>1
  <2> QED BY <2>1
<1>3. f \in [0..n -> Seq(T)] /\ \A i \in 0..n : f[i] = first(i)
  BY <1>2
<1>4. ASSUME NEW i \in 1..n PROVE first(i) = first(i - 1) \o <<q[i]>>
  <2>1. i \in 0..n /\ i - 1 \in 0..n /\ q[i] \in T
    BY <1>1
  <2>2. first(i) \in Seq(T) /\ Len(first(i)) = i /\ first(i - 1) \in Seq(T) /\ Len(first(i - 1)) = i - 1
    BY <1>2, <2>1
  <2>3. Append(first(i - 1), q[i]) \in Seq(T) /\ Len(Append(first(i - 1), q[i])) = i
    <3> HIDE DEF first
    <3> QED BY <2>1, <2>2
  <2>4. ASSUME NEW j \in 1..i PROVE first(i)[j] = Append(first(i - 1), q[i])[j]
    <3>1. first(i)[j] = q[j]
      OBVIOUS
    <3>2. j # i => j \in 1..(i - 1) /\ first(i - 1)[j] = q[j]
      BY <2>1
    <3> HIDE DEF first
    <3> QED BY <2>1, <2>2, <3>1, <3>2
  <2>5. first(i - 1) \o <<q[i]>> = Append(first(i - 1), q[i])
    <3> HIDE DEF first
    <3> QED BY <2>1, <2>2
  <2>6. first(i) = Append(first(i - 1), q[i])
    <3> HIDE DEF first
    <3> QED BY <2>2, <2>3, <2>4, SameSequence
  <2> QED BY <2>5, <2>6
<1>5. first(0) = <<>> /\ first(n) = q
  <2>1. first(0) = <<>>
    OBVIOUS
  <2>2. \A j \in 1..n : first(n)[j] = q[j]
    OBVIOUS
  <2>3. first(n) \in Seq(T) /\ Len(first(n)) = n
    BY <1>1, <1>2
  <2> HIDE DEF first
  <2> QED BY <1>1, <2>1, <2>2, <2>3, SameSequence
<1>6. IsSum(s, f)
  <2>1. f[0] = <<>>
    BY <1>3, <1>5
  <2>2. ASSUME NEW i \in 1..n PROVE f[i] = f[i - 1] \o s[i]
    <3>1. i \in 0..n /\ i - 1 \in 0..n /\ s[i] = <<q[i]>>
      BY <1>1
    <3>2. f[i] = first(i) /\ f[i - 1] = first(i - 1)
      BY <1>3, <3>1
    <3> HIDE DEF f, first
    <3> QED BY <1>4, <3>1, <3>2
  <2> HIDE DEF f, first
  <2> QED BY <1>1, <2>1, <2>2 DEF IsSum
<1>7. f[n] = q
  BY <1>3, <1>5
<1> HIDE DEF f, first
<1> QED BY <1>1, <1>3, <1>6, <1>7, FlattenIsSum

\* The last that is not empty grows.
LEMMA FlattenGrowsAt ==
  ASSUME NEW T, NEW s \in Seq(Seq(T)), NEW t \in Seq(Seq(T)), NEW k \in 1..Len(s), NEW x \in Seq(T),
         Len(t) = Len(s), t[k] = s[k] \o x,
         \A i \in 1..Len(s) : i # k => t[i] = s[i],
         \A i \in 1..Len(s) : i > k => s[i] = <<>>
  PROVE  FlattenSeq(t) = FlattenSeq(s) \o x
<1>1. PICK n \in Nat : n = Len(s) /\ n = Len(t) /\ k \in 1..n
  OBVIOUS
<1>2. PICK f \in [0..n -> Seq(T)] : IsSum(s, f) /\ FlattenSeq(s) = f[n]
  BY <1>1, Flatten
<1> DEFINE g == [i \in 0..n |-> IF i < k THEN f[i] ELSE f[i] \o x]
<1>3. /\ \A i \in 0..n : i < k => g[i] = f[i]
      /\ \A i \in 0..n : i >= k => g[i] = f[i] \o x
  BY <1>1
<1>4. g \in [0..n -> Seq(T)]
  <2>1. \A i \in 0..n : f[i] \in Seq(T) /\ f[i] \o x \in Seq(T)
    OBVIOUS
  <2> QED BY <2>1
<1> HIDE DEF g
<1>5. \A i \in 1..n : s[i] \in Seq(T)
  BY <1>1
<1>6. ASSUME NEW i \in 1..n PROVE g[i] = g[i - 1] \o t[i]
  <2>1. i \in 0..n /\ i - 1 \in 0..n /\ i \in Nat /\ k \in Nat
    BY <1>1
  <2>2. f[i] = f[i - 1] \o s[i]
    BY <1>1, <1>2 DEF IsSum
  <2>3. f[i] \in Seq(T) /\ f[i - 1] \in Seq(T) /\ s[i] \in Seq(T)
    BY <1>5, <2>1
  <2>4. CASE i < k
    <3>1. g[i] = f[i] /\ g[i - 1] = f[i - 1] /\ t[i] = s[i]
      BY SMTT(30), <1>1, <1>3, <2>1, <2>4
    <3> QED BY <2>2, <3>1
  <2>5. CASE i = k
    <3>1. g[i] = f[i] \o x /\ g[i - 1] = f[i - 1] /\ t[i] = s[i] \o x
      BY SMTT(30), <1>1, <1>3, <2>1, <2>5
    <3>2. f[i - 1] \o (s[i] \o x) = (f[i - 1] \o s[i]) \o x
      <4>1. x \in Seq(T)
        OBVIOUS
      <4>2. Associate(f[i - 1], s[i], x)
        BY <2>3, <4>1, ConcatIsAssociative, Zenon
      <4> QED BY <4>2 DEF Associate
    <3> QED BY <2>2, <3>1, <3>2
  <2>6. CASE i > k
    <3>0. i >= k /\ i - 1 >= k /\ i # k
      BY <2>1, <2>6
    <3>1. g[i] = f[i] \o x /\ g[i - 1] = f[i - 1] \o x /\ t[i] = s[i] /\ s[i] = <<>>
      BY <1>1, <1>3, <2>1, <2>6, <3>0
    <3>2. f[i - 1] \o <<>> = f[i - 1] /\ (f[i - 1] \o x) \o <<>> = f[i - 1] \o x
      BY <2>3
    <3> QED BY <2>2, <3>1, <3>2
  <2>7. i < k \/ i = k \/ i > k
    BY <2>1
  <2> QED BY <2>4, <2>5, <2>6, <2>7
<1>7. g[0] = <<>>
  BY <1>1, <1>2, <1>3 DEF IsSum
<1>8. IsSum(t, g)
  BY <1>1, <1>6, <1>7 DEF IsSum
<1>9. FlattenSeq(t) = g[n]
  BY <1>1, <1>4, <1>8, FlattenIsSum
<1>10. g[n] = f[n] \o x
  BY <1>1, <1>3
<1> QED BY <1>2, <1>9, <1>10

\* A sequence of sequences, one for each element of s: what each gives is g's.
Mapped(s, g) == [i \in DOMAIN s |-> g[s[i]]]

LEMMA MappedTypes ==
  ASSUME NEW S, NEW T, NEW s \in Seq(S), NEW g \in [S -> Seq(T)]
  PROVE  Mapped(s, g) \in Seq(Seq(T)) /\ Len(Mapped(s, g)) = Len(s)
<1>1. \A i \in DOMAIN s : g[s[i]] \in Seq(T)
  OBVIOUS
<1>2. DOMAIN s = 1..Len(s) /\ Len(s) \in Nat
  OBVIOUS
<1> QED BY <1>1, <1>2 DEF Mapped

LEMMA MappedConcat ==
  ASSUME NEW S, NEW T, NEW s \in Seq(S), NEW t \in Seq(S), NEW g \in [S -> Seq(T)]
  PROVE  FlattenSeq(Mapped(s \o t, g)) = FlattenSeq(Mapped(s, g)) \o FlattenSeq(Mapped(t, g))
<1>0. \A q \in Seq(S) : Mapped(q, g) \in Seq(Seq(T)) /\ Len(Mapped(q, g)) = Len(q)
  BY MappedTypes
<1>1. s \o t \in Seq(S) /\ Len(s \o t) = Len(s) + Len(t)
  OBVIOUS
<1> DEFINE U == Seq(T)
<1> HIDE DEF U
<1>2. PICK u \in Seq(U) : u = Mapped(s, g) /\ Len(u) = Len(s)
  BY <1>0, Zenon DEF U
<1>3. PICK v \in Seq(U) : v = Mapped(t, g) /\ Len(v) = Len(t)
  BY <1>0, Zenon DEF U
<1>4. PICK w \in Seq(U) : w = Mapped(s \o t, g) /\ Len(w) = Len(s \o t)
  BY <1>0, <1>1, Zenon DEF U
<1>5. ASSUME NEW i \in 1..(Len(s) + Len(t))
      PROVE  w[i] = (u \o v)[i]
  <2>1. CASE i <= Len(s)
    <3>1. i \in DOMAIN s /\ (s \o t)[i] = s[i] /\ i \in DOMAIN (s \o t)
      BY <2>1
    <3>2. (u \o v)[i] = u[i]
      BY <1>2, <1>3, <2>1
    <3>3. w[i] = g[(s \o t)[i]] /\ u[i] = g[s[i]]
      BY <1>2, <1>4, <3>1, Zenon DEF Mapped
    <3> QED BY <3>1, <3>2, <3>3
  <2>2. CASE i > Len(s)
    <3>1. i - Len(s) \in DOMAIN t /\ (s \o t)[i] = t[i - Len(s)] /\ i \in DOMAIN (s \o t)
      BY <2>2
    <3>2. (u \o v)[i] = v[i - Len(s)]
      BY <1>2, <1>3, <2>2
    <3>3. w[i] = g[(s \o t)[i]] /\ v[i - Len(s)] = g[t[i - Len(s)]]
      BY <1>3, <1>4, <3>1, Zenon DEF Mapped
    <3> QED BY <3>1, <3>2, <3>3
  <2>3. Len(s) \in Nat /\ Len(t) \in Nat
    OBVIOUS
  <2>4. i <= Len(s) \/ i > Len(s)
    BY <2>3
  <2> QED BY <2>1, <2>2, <2>4
<1>6. w = u \o v
  <2>1. u \o v \in Seq(U) /\ Len(u \o v) = Len(w)
    <3>1. u \o v \in Seq(U) /\ Len(u \o v) = Len(u) + Len(v)
      BY ConcatTypes
    <3> QED BY <1>1, <1>2, <1>3, <1>4, <3>1
  <2>2. \A i \in 1..Len(w) : w[i] = (u \o v)[i]
    BY <1>1, <1>4, <1>5
  <2> QED BY <2>1, <2>2, SameSequence
<1>7. FlattenSeq(u \o v) = FlattenSeq(u) \o FlattenSeq(v)
  BY FlattenConcat DEF U
<1> QED BY <1>2, <1>3, <1>4, <1>6, <1>7, Zenon

LEMMA MappedOne ==
  ASSUME NEW S, NEW T, NEW x \in S, NEW g \in [S -> Seq(T)]
  PROVE  FlattenSeq(Mapped(<<x>>, g)) = g[x]
<1>1. Mapped(<<x>>, g) = <<g[x]>>
  BY DEF Mapped
<1>2. g[x] \in Seq(T)
  OBVIOUS
<1> QED BY <1>1, <1>2, FlattenOne

LEMMA MappedEmpty ==
  ASSUME NEW S, NEW T, NEW g \in [S -> Seq(T)]
  PROVE  FlattenSeq(Mapped(<<>>, g)) = <<>>
<1>1. Mapped(<<>>, g) \in Seq(Seq(T)) /\ Len(Mapped(<<>>, g)) = 0
  <2>1. <<>> \in Seq(S) /\ Len(<<>>) = 0
    OBVIOUS
  <2>2. \A q \in Seq(S) : Mapped(q, g) \in Seq(Seq(T)) /\ Len(Mapped(q, g)) = Len(q)
    BY MappedTypes
  <2> QED BY <2>1, <2>2, Zenon
<1>2. Mapped(<<>>, g) = <<>>
  BY <1>1, NoElements, Zenon
<1> QED BY <1>2, FlattenEmpty, Zenon

LEMMA MappedAppend ==
  ASSUME NEW S, NEW T, NEW s \in Seq(S), NEW x \in S, NEW g \in [S -> Seq(T)]
  PROVE  FlattenSeq(Mapped(Append(s, x), g)) = FlattenSeq(Mapped(s, g)) \o g[x]
<1>1. Append(s, x) = s \o <<x>> /\ <<x>> \in Seq(S)
  OBVIOUS
<1>2. FlattenSeq(Mapped(s \o <<x>>, g)) = FlattenSeq(Mapped(s, g)) \o FlattenSeq(Mapped(<<x>>, g))
  <2>1. \A t \in Seq(S) : FlattenSeq(Mapped(s \o t, g)) = FlattenSeq(Mapped(s, g)) \o FlattenSeq(Mapped(t, g))
    BY MappedConcat
  <2> QED BY <1>1, <2>1, Zenon
<1>3. FlattenSeq(Mapped(<<x>>, g)) = g[x]
  BY MappedOne
<1> QED BY <1>1, <1>2, <1>3, Zenon

\* A filter as such a function.
Keep(T, S) == [x \in T |-> IF x \in S THEN <<>> ELSE <<x>>]

LEMMA WithoutIsMapped ==
  ASSUME NEW T, NEW s \in Seq(T), NEW S
  PROVE  Without(s, S) = FlattenSeq(Mapped(s, Keep(T, S))) /\ Keep(T, S) \in [T -> Seq(T)]
<1>1. Mapped(s, Keep(T, S)) = [i \in DOMAIN s |-> IF s[i] \in S THEN <<>> ELSE <<s[i]>>]
  BY DEF Mapped, Keep
<1>2. Keep(T, S) \in [T -> Seq(T)]
  BY DEF Keep
<1> QED BY <1>1, <1>2 DEF Without

LEMMA WithoutTypes ==
  ASSUME NEW T, NEW s \in Seq(T), NEW S
  PROVE  Without(s, S) \in Seq(T)
<1>1. Without(s, S) = FlattenSeq(Mapped(s, Keep(T, S))) /\ Keep(T, S) \in [T -> Seq(T)]
  BY WithoutIsMapped
<1>2. Mapped(s, Keep(T, S)) \in Seq(Seq(T))
  BY <1>1, MappedTypes
<1> QED BY <1>1, <1>2, FlattenTypes

LEMMA WithoutConcat ==
  ASSUME NEW T, NEW s \in Seq(T), NEW t \in Seq(T), NEW S
  PROVE  Without(s \o t, S) = Without(s, S) \o Without(t, S)
<1>1. s \o t \in Seq(T)
  OBVIOUS
<1>2. /\ Without(s, S) = FlattenSeq(Mapped(s, Keep(T, S)))
      /\ Without(t, S) = FlattenSeq(Mapped(t, Keep(T, S)))
      /\ Without(s \o t, S) = FlattenSeq(Mapped(s \o t, Keep(T, S)))
      /\ Keep(T, S) \in [T -> Seq(T)]
  BY <1>1, WithoutIsMapped, Zenon
<1>3. \A g \in [T -> Seq(T)] :
        FlattenSeq(Mapped(s \o t, g)) = FlattenSeq(Mapped(s, g)) \o FlattenSeq(Mapped(t, g))
  BY MappedConcat
<1> QED BY <1>2, <1>3, Zenon

LEMMA WithoutEmpty ==
  ASSUME NEW S
  PROVE  Without(<<>>, S) = <<>>
<1>1. <<>> \in Seq({})
  OBVIOUS
<1>2. Without(<<>>, S) = FlattenSeq(Mapped(<<>>, Keep({}, S))) /\ Keep({}, S) \in [{} -> Seq({})]
  BY <1>1, WithoutIsMapped, Zenon
<1> QED BY <1>2, MappedEmpty

LEMMA WithoutOne ==
  ASSUME NEW T, NEW x \in T, NEW S
  PROVE  Without(<<x>>, S) = IF x \in S THEN <<>> ELSE <<x>>
<1>1. <<x>> \in Seq(T)
  OBVIOUS
<1>2. Without(<<x>>, S) = FlattenSeq(Mapped(<<x>>, Keep(T, S))) /\ Keep(T, S) \in [T -> Seq(T)]
  BY <1>1, WithoutIsMapped, Zenon
<1>3. FlattenSeq(Mapped(<<x>>, Keep(T, S))) = Keep(T, S)[x]
  BY <1>2, MappedOne
<1> QED BY <1>2, <1>3 DEF Keep

LEMMA WithoutNone ==
  ASSUME NEW T, NEW s \in Seq(T), NEW S, \A i \in 1..Len(s) : s[i] \notin S
  PROVE  Without(s, S) = s
<1> DEFINE k == [i \in DOMAIN s |-> IF s[i] \in S THEN <<>> ELSE <<s[i]>>]
<1>1. DOMAIN s = 1..Len(s) /\ Len(s) \in Nat /\ \A i \in 1..Len(s) : s[i] \in T
  OBVIOUS
<1>2. \A i \in 1..Len(s) : k[i] = <<s[i]>> /\ <<s[i]>> \in Seq(T)
  BY <1>1
<1>3. k \in Seq(Seq(T)) /\ Len(k) = Len(s)
  BY <1>1, <1>2
<1> HIDE DEF k
<1>4. FlattenSeq(k) = s
  BY <1>2, <1>3, FlattenSingles
<1> QED BY <1>4 DEF Without, k

LEMMA WithoutAll ==
  ASSUME NEW T, NEW s \in Seq(T), NEW S, \A i \in 1..Len(s) : s[i] \in S
  PROVE  Without(s, S) = <<>>
<1> DEFINE k == [i \in DOMAIN s |-> IF s[i] \in S THEN <<>> ELSE <<s[i]>>]
<1>1. DOMAIN s = 1..Len(s) /\ Len(s) \in Nat /\ <<>> \in Seq(T)
  OBVIOUS
<1>2. \A i \in 1..Len(s) : k[i] = <<>>
  BY <1>1
<1>3. k \in Seq(Seq(T)) /\ Len(k) = Len(s)
  BY <1>1, <1>2
<1> HIDE DEF k
<1>4. FlattenSeq(k) = <<>>
  BY <1>2, <1>3, FlattenEmpties
<1> QED BY <1>4 DEF Without, k

LEMMA WithoutAppend ==
  ASSUME NEW T, NEW s \in Seq(T), NEW x \in T, NEW S
  PROVE  Without(Append(s, x), S) = IF x \in S THEN Without(s, S) ELSE Append(Without(s, S), x)
<1>1. Append(s, x) = s \o <<x>> /\ <<x>> \in Seq(T)
  OBVIOUS
<1>2. Without(s \o <<x>>, S) = Without(s, S) \o Without(<<x>>, S)
  <2>1. \A t \in Seq(T) : Without(s \o t, S) = Without(s, S) \o Without(t, S)
    BY WithoutConcat
  <2> QED BY <1>1, <2>1, Zenon
<1>3. Without(<<x>>, S) = IF x \in S THEN <<>> ELSE <<x>>
  BY WithoutOne
<1>4. Without(s, S) \in Seq(T)
  BY WithoutTypes
<1>5. CASE x \in S
  <2>1. Without(s, S) \o <<>> = Without(s, S)
    BY <1>4, EmptyIsUnit
  <2> QED BY <1>1, <1>2, <1>3, <1>5, <2>1
<1>6. CASE x \notin S
  <2>1. Without(s, S) \o <<x>> = Append(Without(s, S), x)
    BY <1>4, <1>1
  <2> QED BY <1>1, <1>2, <1>3, <1>6, <2>1
<1> QED BY <1>5, <1>6

-----------------------------------------------------------------------------
(* The states: their types. *)

Positions == Nat \ {0}
Texts     == {f.name : f \in Functions} \cup {f.arg : f \in Functions}
DeltaSet  == [index : Positions, name : Texts, arg : Texts]
CallSet   == [index : Positions, name : Seq(Texts), args : Seq(Texts)]
ItemSet   == [kind : {"sentence", "calls", "error", "end"}, words : Seq(Positions),
              calls : Seq(CallSet)]

Typed ==
  /\ phrases \in Seq(Seq(Nat))
  /\ reply \in Seq(Tokens) /\ flushed \in 0..Len(reply)
  /\ deltas \in Seq(DeltaSet) /\ tool_calls_acc \in Seq(CallSet)
  /\ sentence_queue \in Seq(ItemSet)
  /\ full_response \in Seq(Positions) /\ history \in Seq(Seq(Nat))

LEMMA RawTypes ==
  ASSUME NEW r \in Seq(Tokens), NEW a \in 1..(Len(r) + 1)
  PROVE  /\ Raw(r, a) \in Seq(Positions) /\ Len(Raw(r, a)) = Len(r) - a + 1
         /\ \A i \in 1..(Len(r) - a + 1) : Raw(r, a)[i] = a + i - 1
<1>1. PICK n \in Nat : n = Len(r) - a + 1
  OBVIOUS
<1>2. \A i \in 1..n : a + i - 1 \in Positions
  BY DEF Positions
<1>3. [i \in 1..n |-> a + i - 1] \in Seq(Positions)
  BY <1>2
<1> QED BY <1>1, <1>3 DEF Raw

LEMMA SanitizedTypes ==
  ASSUME NEW r \in Seq(Tokens), NEW a \in 1..(Len(r) + 1)
  PROVE  Sanitized(r, a) \in Seq(Positions)
BY RawTypes, WithoutTypes DEF Sanitized

LEMMA SentencesTypes ==
  ASSUME NEW words \in Seq(Positions)
  PROVE  Sentences(words) \in Seq(ItemSet) /\ (words = <<>> => Sentences(words) = <<>>)
<1>1. Sentence(words) \in ItemSet
  BY DEF Sentence, ItemSet
<1>2. <<Sentence(words)>> \in Seq(ItemSet) /\ <<>> \in Seq(ItemSet)
  BY <1>1
<1> QED BY <1>2 DEF Sentences

LEMMA SignalTypes ==
  ASSUME NEW k \in {"error", "end"}
  PROVE  Signal(k) \in ItemSet
BY DEF Signal, ItemSet

\* The call a delta belongs to keeps its index; its name and arguments grow.
MoreOf(texts, text, nothing) == IF text \in nothing THEN texts ELSE Append(texts, text)

LEMMA MergeTypes ==
  ASSUME NEW call \in CallSet, NEW d \in DeltaSet
  PROVE  /\ Merge(call, d) \in CallSet /\ Merge(call, d).index = call.index
         /\ Merge(call, d).name = MoreOf(call.name, d.name, {""})
         /\ Merge(call, d).args = MoreOf(call.args, d.arg, {"", "null"})
<1>1. /\ call.index \in Positions /\ call.name \in Seq(Texts) /\ call.args \in Seq(Texts)
      /\ d.name \in Texts /\ d.arg \in Texts
  BY DEF CallSet, DeltaSet
<1> DEFINE name == MoreOf(call.name, d.name, {""})
           args == MoreOf(call.args, d.arg, {"", "null"})
<1>2. name \in Seq(Texts) /\ args \in Seq(Texts)
  <2>1. Append(call.name, d.name) \in Seq(Texts) /\ Append(call.args, d.arg) \in Seq(Texts)
    BY <1>1
  <2> QED BY <1>1, <2>1 DEF MoreOf
<1>3. Merge(call, d) = [call EXCEPT !.name = name, !.args = args]
  BY DEF Merge, MoreOf
<1> HIDE DEF name, args
<1>4. [call EXCEPT !.name = name, !.args = args] \in CallSet
  BY <1>2 DEF CallSet
<1>5. /\ Merge(call, d).index = call.index
      /\ Merge(call, d).name = name /\ Merge(call, d).args = args
  BY <1>3 DEF CallSet
<1> QED BY <1>3, <1>4, <1>5 DEF name, args

\* With the calls numbered in the order they came up, a delta finds its own.
Numbered(acc) == \A k \in DOMAIN acc : acc[k].index = k

LEMMA SlotIsIndex ==
  ASSUME NEW acc \in Seq(CallSet), NEW d \in DeltaSet, Numbered(acc), d.index \in 1..(Len(acc) + 1)
  PROVE  Slot(acc, d) = d.index
<1>1. CASE \E i \in DOMAIN acc : acc[i].index = d.index
  <2>1. Slot(acc, d) \in DOMAIN acc /\ acc[Slot(acc, d)].index = d.index
    BY <1>1 DEF Slot
  <2> QED BY <2>1 DEF Numbered
<1>2. CASE ~\E i \in DOMAIN acc : acc[i].index = d.index
  <2>1. Slot(acc, d) = Len(acc) + 1
    BY <1>2 DEF Slot
  <2>2. d.index \notin DOMAIN acc
    BY <1>2 DEF Numbered
  <2>3. DOMAIN acc = 1..Len(acc) /\ Len(acc) \in Nat
    OBVIOUS
  <2> QED BY <2>1, <2>2, <2>3
<1> QED BY <1>1, <1>2

LEMMA ReduceIsMerge ==
  ASSUME NEW acc \in Seq(CallSet), NEW d \in DeltaSet, Numbered(acc), d.index \in 1..(Len(acc) + 1)
  PROVE  /\ Reduce(acc, d) \in Seq(CallSet) /\ Numbered(Reduce(acc, d))
         /\ Len(Reduce(acc, d)) = IF d.index = Len(acc) + 1 THEN Len(acc) + 1 ELSE Len(acc)
         /\ \A k \in DOMAIN Reduce(acc, d) :
              Reduce(acc, d)[k] =
                IF k = d.index
                THEN Merge(IF k \in DOMAIN acc THEN acc[k] ELSE [index |-> k, name |-> <<>>, args |-> <<>>], d)
                ELSE acc[k]
<1> DEFINE i == d.index
           new == [index |-> i, name |-> <<>>, args |-> <<>>]
<1>1. PICK n \in Nat : n = Len(acc) /\ DOMAIN acc = 1..n
  OBVIOUS
<1>2. Slot(acc, d) = i /\ i \in 1..(n + 1)
  BY <1>1, SlotIsIndex
<1>3. CASE i \in 1..n
  <2>1. Reduce(acc, d) = [acc EXCEPT ![i] = Merge(acc[i], d)]
    BY <1>1, <1>2, <1>3 DEF Reduce
  <2>2. acc[i] \in CallSet
    BY <1>1, <1>3
  <2>3. Merge(acc[i], d) \in CallSet /\ Merge(acc[i], d).index = acc[i].index
    BY <2>2, MergeTypes
  <2>4. acc[i].index = i
    BY <1>1, <1>3 DEF Numbered
  <2> DEFINE m == Merge(acc[i], d)
  <2> HIDE DEF m
  <2>5. Reduce(acc, d) = [acc EXCEPT ![i] = m] /\ m \in CallSet /\ m.index = i
    BY <2>1, <2>3, <2>4 DEF m
  <2>6. Reduce(acc, d) \in Seq(CallSet) /\ Len(Reduce(acc, d)) = n /\ DOMAIN Reduce(acc, d) = 1..n
    BY <1>1, <1>3, <2>5
  <2>7. \A k \in 1..n : Reduce(acc, d)[k] = IF k = i THEN m ELSE acc[k]
    BY <1>1, <1>3, <2>5
  <2>8. Numbered(Reduce(acc, d))
    BY <1>1, <2>5, <2>6, <2>7 DEF Numbered
  <2>9. i # n + 1
    BY <1>3
  <2> QED BY <1>1, <1>3, <2>6, <2>7, <2>8, <2>9 DEF m
<1>4. CASE i = n + 1
  <2>1. i \notin DOMAIN acc
    BY <1>1, <1>4
  <2>2. Reduce(acc, d) = Append(acc, Merge(new, d))
    BY <1>2, <2>1 DEF Reduce
  <2>3. new \in CallSet /\ new.index = i
    <3>1. i \in Positions /\ <<>> \in Seq(Texts)
      BY DEF DeltaSet
    <3> QED BY <3>1 DEF CallSet
  <2> DEFINE m == Merge(new, d)
  <2>4. m \in CallSet /\ m.index = i
    <3> HIDE DEF new
    <3> QED BY <2>3, MergeTypes
  <2> HIDE DEF m
  <2>5. Reduce(acc, d) = Append(acc, m)
    BY <2>2 DEF m
  <2>6. Reduce(acc, d) \in Seq(CallSet) /\ Len(Reduce(acc, d)) = n + 1 /\ DOMAIN Reduce(acc, d) = 1..(n + 1)
    BY <1>1, <2>4, <2>5
  <2>7. \A k \in 1..(n + 1) : Reduce(acc, d)[k] = IF k = i THEN m ELSE acc[k]
    BY <1>1, <1>4, <2>5
  <2>8. Numbered(Reduce(acc, d))
    <3>1. ASSUME NEW k \in 1..(n + 1) PROVE Reduce(acc, d)[k].index = k
      <4>1. CASE k = i
        BY <2>4, <2>7, <4>1
      <4>2. CASE k # i
        BY <1>1, <1>4, <2>7, <4>2 DEF Numbered
      <4> QED BY <4>1, <4>2
    <3> QED BY <2>6, <3>1 DEF Numbered
  <2>9. \A k \in 1..(n + 1) : k = i => m = Merge(IF k \in DOMAIN acc THEN acc[k] ELSE [index |-> k, name |-> <<>>, args |-> <<>>], d)
    BY <2>1 DEF m
  <2> QED BY <1>1, <1>4, <2>6, <2>7, <2>8, <2>9
<1> QED
  <2>1. i \in 1..n \/ i = n + 1
    BY <1>2
  <2> QED BY <1>3, <1>4, <2>1

LEMMA HeadTypes ==
  ASSUME NEW T, NEW q \in Seq(T), q # <<>>
  PROVE  Head(q) \in T /\ Tail(q) \in Seq(T) /\ q = <<Head(q)>> \o Tail(q)
OBVIOUS

LEMMA AppendTypes ==
  ASSUME NEW T, NEW q \in Seq(T), NEW x \in T
  PROVE  Append(q, x) \in Seq(T) /\ Append(q, x) = q \o <<x>> /\ Len(Append(q, x)) = Len(q) + 1
OBVIOUS

LEMMA AppendedElements ==
  ASSUME NEW T, NEW q \in Seq(T), NEW x \in T
  PROVE  /\ DOMAIN Append(q, x) = 1..(Len(q) + 1) /\ Append(q, x)[Len(q) + 1] = x
         /\ \A i \in 1..Len(q) : Append(q, x)[i] = q[i]
OBVIOUS

LEMMA TypedInit == Init => Typed
<1>1. <<>> \in Seq(Seq(Nat)) /\ <<<<>>>> \in Seq(Seq(Nat))
  OBVIOUS
<1> QED BY <1>1 DEF Init, SpeechInit, Typed, Question

\* What the program says itself are phrases too.
LEMMA OwnTypes == OwnPhrase \in Seq(Nat) /\ Goodbye \in Seq(Nat)
BY DEF OwnPhrase, Goodbye

LEMMA SayTypes ==
  ASSUME Typed, NEW words \in Seq(Nat), Say(words)
  PROVE  phrases' \in Seq(Seq(Nat))
BY AppendTypes DEF Typed, Say

LEMMA WorkerTyped ==
  ASSUME Typed, WorkerStep
  PROVE  Typed'
<1> USE DEF Typed
<1>1. CASE Token
  <2>1. PICK k \in Tokens : reply' = Append(reply, k)
    BY <1>1 DEF Token
  <2>2. reply' \in Seq(Tokens) /\ Len(reply') = Len(reply) + 1 /\ flushed + 1 \in 1..(Len(reply') + 1)
    BY <2>1, AppendTypes
  <2>3. /\ phrases' = phrases /\ deltas' = deltas /\ tool_calls_acc' = tool_calls_acc
        /\ full_response' = full_response /\ history' = history
    BY <1>1 DEF Token, Streaming, speechVars, loopVars
  <2>4. sentence_queue' \in Seq(ItemSet)
    <3>1. Sentences(Sanitized(reply', flushed + 1)) \in Seq(ItemSet)
      BY <2>2, SanitizedTypes, SentencesTypes
    <3>2. \/ sentence_queue' = sentence_queue
          \/ sentence_queue' = sentence_queue \o Sentences(Sanitized(reply', flushed + 1))
      BY <1>1 DEF Token
    <3> QED BY <3>1, <3>2, ConcatTypes
  <2>5. flushed' \in 0..Len(reply')
    <3>1. flushed' = flushed \/ flushed' = Len(reply')
      BY <1>1 DEF Token
    <3> QED BY <2>2, <3>1
  <2> QED BY <2>2, <2>3, <2>4, <2>5
<1>2. CASE ToolDelta
  <2>1. PICK i \in 1..(Len(tool_calls_acc) + 1), f \in Functions :
          /\ deltas' = Append(deltas, Delta(i, f))
          /\ tool_calls_acc' = Reduce(tool_calls_acc, Delta(i, f))
    BY <1>2 DEF ToolDelta
  <2>2. Delta(i, f) \in DeltaSet
    BY DEF Delta, DeltaSet, Positions, Texts
  <2>3. deltas' \in Seq(DeltaSet)
    BY <2>1, <2>2, AppendTypes
  <2>4. tool_calls_acc' \in Seq(CallSet)
    <3> DEFINE d == Delta(i, f)
               s == Slot(tool_calls_acc, d)
               new == [index |-> d.index, name |-> <<>>, args |-> <<>>]
    <3>1. new \in CallSet
      <4>1. d.index \in Positions /\ <<>> \in Seq(Texts)
        BY <2>2 DEF DeltaSet
      <4> QED BY <4>1 DEF CallSet
    <3>2. Merge(new, d) \in CallSet
      <4> HIDE DEF new, d
      <4> QED BY <2>2, <3>1, MergeTypes DEF d
    <3>3. Append(tool_calls_acc, Merge(new, d)) \in Seq(CallSet)
      BY <3>2, AppendTypes
    <3>4. ASSUME s \in DOMAIN tool_calls_acc
          PROVE  [tool_calls_acc EXCEPT ![s] = Merge(tool_calls_acc[s], d)] \in Seq(CallSet)
      <4> HIDE DEF s, d
      <4>1. tool_calls_acc[s] \in CallSet
        BY <3>4
      <4>2. Merge(tool_calls_acc[s], d) \in CallSet
        BY <2>2, <4>1, MergeTypes DEF d
      <4> QED BY <3>4, <4>2
    <3> QED BY <2>1, <3>3, <3>4 DEF Reduce
  <2>5. /\ phrases' = phrases /\ reply' = reply /\ flushed' = flushed
        /\ sentence_queue' = sentence_queue /\ full_response' = full_response /\ history' = history
    BY <1>2 DEF ToolDelta, Streaming, speechVars, loopVars
  <2> QED BY <2>3, <2>4, <2>5
<1>3. CASE NamelessDelta
  <2>1. <<Signal("error"), Signal("end")>> \in Seq(ItemSet)
    <3>1. Signal("error") \in ItemSet /\ Signal("end") \in ItemSet
      BY SignalTypes
    <3> QED BY <3>1
  <2>2. sentence_queue' \in Seq(ItemSet)
    BY <1>3, <2>1, ConcatTypes DEF NamelessDelta
  <2> QED BY <1>3, <2>2 DEF NamelessDelta, Streaming, speechVars, loopVars
<1>4. CASE FinishReason
  <2>1. Calls(tool_calls_acc) \in ItemSet
    BY DEF Calls, ItemSet
  <2>2. sentence_queue' \in Seq(ItemSet)
    BY <1>4, <2>1, AppendTypes DEF FinishReason
  <2>3. tool_calls_acc' \in Seq(CallSet)
    <3>1. <<>> \in Seq(CallSet)
      OBVIOUS
    <3>2. tool_calls_acc' \in {tool_calls_acc, <<>>}
      BY <1>4 DEF FinishReason
    <3> QED BY <3>1, <3>2
  <2> QED BY <1>4, <2>2, <2>3 DEF FinishReason, Streaming, speechVars, loopVars
<1>5. CASE StreamEnds
  <2>1. Remainder \in Seq(ItemSet)
    BY RawTypes, SentencesTypes DEF Remainder
  <2>2. <<Signal("end")>> \in Seq(ItemSet)
    BY SignalTypes
  <2>3. sentence_queue' \in Seq(ItemSet)
    <3>1. sentence_queue \o Remainder \in Seq(ItemSet)
      BY <2>1, ConcatTypes
    <3>2. sentence_queue' = (sentence_queue \o Remainder) \o <<Signal("end")>>
      BY <1>5 DEF StreamEnds
    <3> QED BY <2>2, <3>1, <3>2, ConcatTypes
  <2>4. flushed' \in 0..Len(reply')
    BY <1>5 DEF StreamEnds
  <2> QED BY <1>5, <2>3, <2>4 DEF StreamEnds, speechVars, loopVars
<1> QED BY <1>1, <1>2, <1>3, <1>4, <1>5 DEF WorkerStep

LEMMA GetTyped ==
  ASSUME Typed, NEW kind, Get(kind)
  PROVE  /\ Head(sentence_queue) \in ItemSet /\ sentence_queue' \in Seq(ItemSet)
         /\ reply' = reply /\ flushed' = flushed /\ deltas' = deltas /\ tool_calls_acc' = tool_calls_acc
BY HeadTypes DEF Typed, Get

LEMMA LoopTyped ==
  ASSUME Typed, LoopStep
  PROVE  Typed'
<1> USE DEF Typed
<1>1. CASE NextSentence
  <2>1. Head(sentence_queue).words \in Seq(Positions)
    BY <1>1, GetTyped DEF NextSentence, ItemSet
  <2>2. Head(sentence_queue).words \in Seq(Nat)
    BY <2>1 DEF Positions
  <2>3. full_response' \in Seq(Positions)
    BY <1>1, <2>1, ConcatTypes DEF NextSentence, Collect
  <2>4. phrases' \in Seq(Seq(Nat))
    BY <1>1, <2>2, SayTypes DEF NextSentence, Saying
  <2> QED BY <1>1, <2>3, <2>4, GetTyped DEF NextSentence
<1>2. CASE SaveAnswer
  <2>1. full_response \in Seq(Nat)
    BY DEF Positions
  <2>2. history' \in Seq(Seq(Nat))
    BY <1>2, <2>1, AppendTypes DEF SaveAnswer
  <2> QED BY <1>2, <2>2, GetTyped DEF SaveAnswer, speechVars
<1>3. ASSUME Apologise PROVE phrases' \in Seq(Seq(Nat)) /\ full_response' = full_response /\ history' = history
  BY <1>3, SayTypes, OwnTypes DEF Apologise, Saying
<1>4. CASE NoAnswer
  BY <1>3, <1>4, GetTyped DEF NoAnswer
<1>5. CASE WorkerFailed
  BY <1>3, <1>5, GetTyped DEF WorkerFailed
<1>6. CASE EndConversation
  <2>1. phrases' \in Seq(Seq(Nat))
    BY <1>6, SayTypes, OwnTypes DEF EndConversation, Farewell
  <2>2. history' \in Seq(Seq(Nat))
    BY <1>6, OwnTypes, AppendTypes DEF EndConversation
  <2> QED BY <1>6, <2>1, <2>2, GetTyped DEF EndConversation
<1>7. CASE ToolsCalled
  BY <1>3, <1>7, GetTyped DEF ToolsCalled
<1>8. CASE KeepWaiting
  <2>1. phrases' \in Seq(Seq(Nat))
    BY <1>8, SayTypes, OwnTypes DEF KeepWaiting, Saying
  <2> QED BY <1>8, <2>1 DEF KeepWaiting, Waited, replyVars
<1>9. CASE GiveUp
  BY <1>3, <1>9 DEF GiveUp, Waited, replyVars
<1>10. CASE Interrupt
  BY <1>10 DEF Interrupt, loopVars
<1> QED BY <1>1, <1>2, <1>4, <1>5, <1>6, <1>7, <1>8, <1>9, <1>10 DEF LoopStep

LEMMA TypedNext ==
  ASSUME Typed, [Next]_vars
  PROVE  Typed'
<1>1. CASE SpeechStep /\ UNCHANGED <<replyVars, loopVars, sentence_queue>>
  <2>1. phrases' = phrases
    BY <1>1 DEF SpeechStep, TakePhrase, ReceiveChunk, ResponseEnds, SynthesisFails, PushPiece,
                Recv, Worker
  <2> QED BY <1>1, <2>1 DEF replyVars, loopVars, Typed
<1>2. CASE UNCHANGED vars
  BY <1>2 DEF vars, speechVars, replyVars, loopVars, Typed
<1> QED BY <1>1, <1>2, WorkerTyped, LoopTyped DEF Next

-----------------------------------------------------------------------------
(* The history. *)

LEMMA WordsAreNotOwn ==
  ASSUME NEW words \in Seq(Positions)
  PROVE  words \notin OwnPhrases
<1>1. ASSUME words = OwnPhrase PROVE FALSE
  <2>1. words[1] \in Positions /\ words[1] = 0
    BY <1>1 DEF OwnPhrase
  <2> QED BY <2>1 DEF Positions
<1>2. ASSUME words = Goodbye PROVE FALSE
  <2>1. words[1] \in Positions /\ words[1] = 0
    BY <1>2 DEF Goodbye
  <2> QED BY <2>1 DEF Positions
<1> QED BY <1>1, <1>2 DEF OwnPhrases

LEMMA SaidTypes ==
  ASSUME Typed
  PROVE  Without(phrases, OwnPhrases) \in Seq(Seq(Nat)) /\ Said \in Seq(Nat)
<1>1. phrases \in Seq(Seq(Nat))
  BY DEF Typed
<1>2. Without(phrases, OwnPhrases) \in Seq(Seq(Nat))
  BY <1>1, WithoutTypes
<1> QED BY <1>2, FlattenTypes DEF Said

\* Words of the reply are added to what was said, the program's own phrases are not.
LEMMA SaidGrows ==
  ASSUME Typed, NEW words \in Seq(Positions), Say(words)
  PROVE  Said' = Said \o words
<1>1. words \in Seq(Nat) /\ words \notin OwnPhrases
  BY WordsAreNotOwn DEF Positions
<1>2. phrases \in Seq(Seq(Nat)) /\ phrases' = Append(phrases, words)
  BY DEF Typed, Say
<1>3. Without(phrases', OwnPhrases) = Append(Without(phrases, OwnPhrases), words)
  BY <1>1, <1>2, WithoutAppend
<1>4. FlattenSeq(Append(Without(phrases, OwnPhrases), words)) = FlattenSeq(Without(phrases, OwnPhrases)) \o words
  BY <1>1, SaidTypes, FlattenAppend
<1> QED BY <1>3, <1>4 DEF Said, OwnPhrases, OwnPhrase, Goodbye

LEMMA SaidKept ==
  ASSUME Typed, NEW words \in OwnPhrases, Say(words)
  PROVE  Said' = Said /\ phrases' # <<>> /\ Last(phrases') = words
<1>1. words \in Seq(Nat)
  BY OwnTypes DEF OwnPhrases
<1>2. phrases \in Seq(Seq(Nat)) /\ phrases' = Append(phrases, words)
  BY DEF Typed, Say
<1>3. Without(phrases', OwnPhrases) = Without(phrases, OwnPhrases)
  BY <1>1, <1>2, WithoutAppend
<1>4. phrases' # <<>> /\ Last(phrases') = words
  BY <1>1, <1>2 DEF Last
<1> QED BY <1>3, <1>4 DEF Said, OwnPhrases, OwnPhrase, Goodbye

\* The inductive invariant: while the loop collects, what it collected is what was said;
\* when it is over either that is the history's second message or an apology was said.
AnswerInv ==
  /\ stage \in {"asked", "over", "ended"}
  /\ stage = "asked" => history = <<Question>> /\ full_response = Said
  /\ stage = "over" => \/ Len(history) = 1 /\ phrases # <<>> /\ Last(phrases) = OwnPhrase
                       \/ Len(history) = 2 /\ history[2] = Said /\ Said \notin OwnPhrases
  /\ stage = "ended" => Len(history) = 2 /\ history[2] = Goodbye

LEMMA AnswerInit == Init => AnswerInv
<1>1. ASSUME Init PROVE Said = <<>>
  <2>1. phrases = <<>>
    BY <1>1 DEF Init, SpeechInit
  <2> QED BY <2>1, WithoutEmpty, FlattenEmpty DEF Said
<1> QED BY <1>1 DEF Init, AnswerInv

LEMMA ApologyKeepsAnswer ==
  ASSUME Typed, AnswerInv, stage = "asked", Apologise
  PROVE  AnswerInv' /\ Said' = Said
<1>1. Said' = Said /\ phrases' # <<>> /\ Last(phrases') = OwnPhrase
  <2>1. Say(OwnPhrase) /\ OwnPhrase \in OwnPhrases
    BY DEF Apologise, Saying, OwnPhrases
  <2> QED BY <2>1, SaidKept
<1>2. stage' = "over" /\ history' = <<Question>>
  BY DEF Apologise, AnswerInv
<1> QED BY <1>1, <1>2 DEF AnswerInv

LEMMA SaidSame ==
  ASSUME phrases' = phrases
  PROVE  Said' = Said
BY DEF Said, Without, OwnPhrases, OwnPhrase, Goodbye

LEMMA AnswerNext ==
  ASSUME Typed, AnswerInv, [Next]_vars
  PROVE  AnswerInv'
<1>1. ASSUME UNCHANGED <<phrases, stage, history, full_response>> PROVE AnswerInv'
  BY <1>1, SaidSame, Zenon DEF AnswerInv
<1>2. CASE WorkerStep
  BY <1>1, <1>2 DEF WorkerStep, Token, ToolDelta, NamelessDelta, FinishReason, StreamEnds,
                    Streaming, speechVars, loopVars
<1>3. CASE SpeechStep /\ UNCHANGED <<replyVars, loopVars, sentence_queue>>
  <2>1. phrases' = phrases
    BY <1>3 DEF SpeechStep, TakePhrase, ReceiveChunk, ResponseEnds, SynthesisFails, PushPiece,
                Recv, Worker
  <2> QED BY <1>1, <1>3, <2>1 DEF loopVars
<1>4. CASE UNCHANGED vars
  BY <1>1, <1>4 DEF vars, speechVars, loopVars
<1>5. CASE NextSentence
  <2> DEFINE words == Head(sentence_queue).words
  <2>1. words \in Seq(Positions)
    BY <1>5, GetTyped DEF NextSentence, ItemSet
  <2>2. Said' = Said \o words
    BY <1>5, <2>1, SaidGrows DEF NextSentence, Saying
  <2> QED BY <1>5, <2>2 DEF NextSentence, Collect, AnswerInv, Get
<1>6. CASE SaveAnswer
  <2>1. /\ stage = "asked" /\ stage' = "over" /\ history' = Append(history, full_response)
        /\ phrases' = phrases
    BY <1>6 DEF SaveAnswer, Get, speechVars
  <2>2. Said' = Said /\ full_response = Said /\ history = <<Question>>
    BY <2>1, SaidSame DEF AnswerInv
  <2>3. Len(history') = 2 /\ history'[2] = full_response
    BY <2>1, <2>2
  <2>4. full_response \notin OwnPhrases
    BY WordsAreNotOwn DEF Typed
  <2> QED BY <2>1, <2>2, <2>3, <2>4, Zenon DEF AnswerInv, OwnPhrases, OwnPhrase, Goodbye
<1>7. CASE NoAnswer
  BY <1>7, ApologyKeepsAnswer DEF NoAnswer, Get
<1>8. CASE WorkerFailed
  BY <1>8, ApologyKeepsAnswer DEF WorkerFailed, Get
<1>9. CASE EndConversation
  <2>1. stage' = "ended" /\ history' = Append(<<Question>>, Goodbye)
    BY <1>9 DEF EndConversation, Get, AnswerInv
  <2>2. Len(history') = 2 /\ history'[2] = Goodbye
    BY <2>1
  <2> QED BY <2>1, <2>2, Zenon DEF AnswerInv, Goodbye
<1>10. CASE ToolsCalled
  BY <1>10, ApologyKeepsAnswer DEF ToolsCalled, Get
<1>11. CASE KeepWaiting
  <2>1. Said' = Said
    <3>1. Say(OwnPhrase) /\ OwnPhrase \in OwnPhrases
      BY <1>11 DEF KeepWaiting, Saying, OwnPhrases
    <3> QED BY <3>1, SaidKept
  <2>2. UNCHANGED <<stage, full_response, history>> /\ stage = "asked"
    BY <1>11 DEF KeepWaiting, Waited
  <2> QED BY <2>1, <2>2 DEF AnswerInv
<1>12. CASE GiveUp
  BY <1>12, ApologyKeepsAnswer DEF GiveUp, Waited
<1>13. CASE Interrupt
  BY <1>1, <1>13 DEF Interrupt, loopVars
<1> QED BY <1>2, <1>3, <1>4, <1>5, <1>6, <1>7, <1>8, <1>9, <1>10, <1>11, <1>12, <1>13
        DEF Next, LoopStep

-----------------------------------------------------------------------------
(* The calls. *)

\* The texts a sequence of deltas has under index i.
NamePart(d, i) == IF d.index = i /\ d.name \notin {""} THEN <<d.name>> ELSE <<>>
ArgPart(d, i)  == IF d.index = i /\ d.arg \notin {"", "null"} THEN <<d.arg>> ELSE <<>>

LEMMA PartTypes ==
  ASSUME NEW d \in DeltaSet, NEW i
  PROVE  NamePart(d, i) \in Seq(Texts) /\ ArgPart(d, i) \in Seq(Texts)
<1>1. d.name \in Texts /\ d.arg \in Texts
  BY DEF DeltaSet
<1>2. <<d.name>> \in Seq(Texts) /\ <<d.arg>> \in Seq(Texts) /\ <<>> \in Seq(Texts)
  BY <1>1
<1> QED BY <1>2 DEF NamePart, ArgPart

LEMMA SentGrows ==
  ASSUME deltas \in Seq(DeltaSet), NEW d \in DeltaSet, deltas' = Append(deltas, d), NEW i
  PROVE  /\ NamesSent(i)' = NamesSent(i) \o NamePart(d, i)
         /\ ArgumentsSent(i)' = ArgumentsSent(i) \o ArgPart(d, i)
<1> DEFINE names == [x \in DeltaSet |-> NamePart(x, i)]
           args  == [x \in DeltaSet |-> ArgPart(x, i)]
<1>1. names \in [DeltaSet -> Seq(Texts)] /\ args \in [DeltaSet -> Seq(Texts)]
  BY PartTypes
<1>2. Append(deltas, d) \in Seq(DeltaSet)
  BY AppendTypes
<1>3. ASSUME NEW s \in Seq(DeltaSet)
      PROVE  /\ Mapped(s, names) = [j \in DOMAIN s |-> NamePart(s[j], i)]
             /\ Mapped(s, args) = [j \in DOMAIN s |-> ArgPart(s[j], i)]
  BY DEF Mapped
<1>4. /\ NamesSent(i) = FlattenSeq([j \in DOMAIN deltas |-> NamePart(deltas[j], i)])
      /\ NamesSent(i)' = FlattenSeq([j \in DOMAIN deltas' |-> NamePart(deltas'[j], i)])
      /\ ArgumentsSent(i) = FlattenSeq([j \in DOMAIN deltas |-> ArgPart(deltas[j], i)])
      /\ ArgumentsSent(i)' = FlattenSeq([j \in DOMAIN deltas' |-> ArgPart(deltas'[j], i)])
  BY DEF NamesSent, ArgumentsSent, Sent, NamePart, ArgPart
<1>5. names[d] = NamePart(d, i) /\ args[d] = ArgPart(d, i)
  OBVIOUS
<1> HIDE DEF names, args
<1>6. /\ FlattenSeq(Mapped(Append(deltas, d), names)) = FlattenSeq(Mapped(deltas, names)) \o names[d]
      /\ FlattenSeq(Mapped(Append(deltas, d), args)) = FlattenSeq(Mapped(deltas, args)) \o args[d]
  BY <1>1, MappedAppend
<1> QED BY <1>2, <1>3, <1>4, <1>5, <1>6

LEMMA SentTypes ==
  ASSUME deltas \in Seq(DeltaSet), NEW i
  PROVE  NamesSent(i) \in Seq(Texts) /\ ArgumentsSent(i) \in Seq(Texts)
<1>1. \A j \in DOMAIN deltas : NamePart(deltas[j], i) \in Seq(Texts) /\ ArgPart(deltas[j], i) \in Seq(Texts)
  BY PartTypes
<1> DEFINE U == Seq(Texts)
<1>2. /\ [j \in DOMAIN deltas |-> NamePart(deltas[j], i)] \in Seq(U)
      /\ [j \in DOMAIN deltas |-> ArgPart(deltas[j], i)] \in Seq(U)
  <2>1. \A j \in DOMAIN deltas : NamePart(deltas[j], i) \in U /\ ArgPart(deltas[j], i) \in U
    BY <1>1
  <2>2. DOMAIN deltas = 1..Len(deltas) /\ Len(deltas) \in Nat
    OBVIOUS
  <2> HIDE DEF U
  <2> QED BY <2>1, <2>2
<1> QED BY <1>2, FlattenTypes DEF NamesSent, ArgumentsSent, Sent, NamePart, ArgPart

\* What acc holds of each call is what was sent for it.
Collected(acc) ==
  \A k \in DOMAIN acc : acc[k].name = NamesSent(k) /\ acc[k].args = ArgumentsSent(k)

\* The inductive invariant: up to the finish reason the worker's calls are all there is,
\* after it the deltas do not change any more and calls can be on their way to the loop.
Collecting ==
  finish = None =>
    /\ Numbered(tool_calls_acc) /\ Collected(tool_calls_acc)
    /\ Len(tool_calls_acc) <= Len(deltas)
    /\ \A j \in DOMAIN deltas : deltas[j].index \in DOMAIN tool_calls_acc

OnTheirWay ==
  \A i \in DOMAIN sentence_queue : sentence_queue[i].kind = "calls" =>
    /\ finish # None
    /\ Numbered(sentence_queue[i].calls) /\ Collected(sentence_queue[i].calls)
    /\ Len(sentence_queue[i].calls) <= MaxChunks

CallsInv ==
  /\ Len(reply) + Len(deltas) <= MaxChunks
  /\ Collecting
  /\ OnTheirWay
  /\ stage = "ended" => worker = "done"
  /\ EndsOnlyWhenAsked

\* Nothing was sent under an index no delta has.
LEMMA NothingSent ==
  ASSUME deltas \in Seq(DeltaSet), NEW i, \A j \in DOMAIN deltas : deltas[j].index # i
  PROVE  NamesSent(i) = <<>> /\ ArgumentsSent(i) = <<>>
<1> DEFINE no == [x \in DeltaSet |-> <<>>]
           none == [j \in DOMAIN deltas |-> <<>>]
           f == [n \in 0..Len(deltas) |-> <<>>]
<1>1. NamesSent(i) = FlattenSeq(none) /\ ArgumentsSent(i) = FlattenSeq(none)
  <2>1. /\ [j \in DOMAIN deltas |-> NamePart(deltas[j], i)] = none
        /\ [j \in DOMAIN deltas |-> ArgPart(deltas[j], i)] = none
    BY DEF NamePart, ArgPart
  <2> QED BY <2>1 DEF NamesSent, ArgumentsSent, Sent, NamePart, ArgPart
<1>2. FlattenSeq(none) = <<>>
  <2>1. <<>> \in Seq(Texts) /\ DOMAIN deltas = 1..Len(deltas) /\ Len(deltas) \in Nat
    OBVIOUS
  <2> DEFINE U == Seq(Texts)
  <2>2. none \in Seq(U) /\ Len(none) = Len(deltas)
    <3>1. <<>> \in U
      BY <2>1
    <3> HIDE DEF U
    <3> QED BY <2>1, <3>1
  <2>3. f \in [0..Len(none) -> Seq(Texts)]
    BY <2>1, <2>2
  <2>4. IsSum(none, f)
    <3>1. <<>> \o <<>> = <<>>
      BY <2>1, EmptyIsUnit
    <3>2. ASSUME NEW n \in 1..Len(deltas)
          PROVE  f[n] = <<>> /\ f[n - 1] = <<>> /\ none[n] = <<>>
      BY <2>1
    <3>3. f[0] = <<>>
      BY <2>1
    <3> HIDE DEF f, none
    <3> QED BY <2>2, <3>1, <3>2, <3>3 DEF IsSum
  <2>5. f[Len(none)] = <<>>
    BY <2>1, <2>2
  <2> HIDE DEF f, none
  <2> QED BY <2>2, <2>3, <2>4, <2>5, FlattenIsSum
<1> QED BY <1>1, <1>2

LEMMA CallsInit == Init => CallsInv
<1> SUFFICES ASSUME Init PROVE CallsInv
  OBVIOUS
<1>1. /\ reply = <<>> /\ deltas = <<>> /\ tool_calls_acc = <<>> /\ sentence_queue = <<>>
      /\ stage = "asked"
  BY DEF Init
<1>2. Len(reply) + Len(deltas) <= MaxChunks /\ Len(tool_calls_acc) <= Len(deltas)
  BY <1>1, ReplyAssumption
<1>3. DOMAIN tool_calls_acc = {} /\ DOMAIN deltas = {} /\ DOMAIN sentence_queue = {}
  BY <1>1
<1> QED BY <1>1, <1>2, <1>3
        DEF CallsInv, Collecting, OnTheirWay, Numbered, Collected, EndsOnlyWhenAsked

\* A delta that may come is added to the call it belongs to.
LEMMA CollectedGrows ==
  ASSUME Typed, finish = None, Collecting,
         NEW d \in DeltaSet, d.index \in 1..(Len(tool_calls_acc) + 1),
         deltas' = Append(deltas, d), tool_calls_acc' = Reduce(tool_calls_acc, d)
  PROVE  /\ Numbered(tool_calls_acc)' /\ Collected(tool_calls_acc)'
         /\ Len(tool_calls_acc') <= Len(deltas')
         /\ \A j \in DOMAIN deltas' : deltas'[j].index \in DOMAIN tool_calls_acc'
<1> DEFINE acc == tool_calls_acc
           new(k) == [index |-> k, name |-> <<>>, args |-> <<>>]
           old(k) == IF k \in DOMAIN acc THEN acc[k] ELSE new(k)
<1>1. /\ deltas \in Seq(DeltaSet) /\ acc \in Seq(CallSet)
      /\ Numbered(acc) /\ Collected(acc) /\ Len(acc) <= Len(deltas)
      /\ \A j \in DOMAIN deltas : deltas[j].index \in DOMAIN acc
  BY DEF Typed, Collecting
<1>2. PICK n \in Nat : n = Len(acc) /\ DOMAIN acc = 1..n
  BY <1>1
<1>3. /\ acc' \in Seq(CallSet) /\ Numbered(acc')
      /\ Len(acc') = IF d.index = n + 1 THEN n + 1 ELSE n
      /\ \A k \in DOMAIN acc' : acc'[k] = IF k = d.index THEN Merge(old(k), d) ELSE acc[k]
  BY <1>1, <1>2, ReduceIsMerge
<1>4. /\ DOMAIN acc' = 1..Len(acc') /\ DOMAIN acc \subseteq DOMAIN acc' /\ d.index \in DOMAIN acc'
      /\ \A k \in DOMAIN acc' : k = d.index \/ k \in DOMAIN acc
  BY <1>2, <1>3
<1>5. ASSUME NEW k \in DOMAIN acc'
      PROVE  acc'[k].name = NamesSent(k)' /\ acc'[k].args = ArgumentsSent(k)'
  <2>1. NamesSent(k)' = NamesSent(k) \o NamePart(d, k) /\ ArgumentsSent(k)' = ArgumentsSent(k) \o ArgPart(d, k)
    BY <1>1, SentGrows
  <2>2. NamesSent(k) \in Seq(Texts) /\ ArgumentsSent(k) \in Seq(Texts)
    BY <1>1, SentTypes
  <2>3. CASE k = d.index
    <3>1. old(k) \in CallSet /\ old(k).name = NamesSent(k) /\ old(k).args = ArgumentsSent(k)
      <4>1. CASE k \in DOMAIN acc
        BY <1>1, <4>1 DEF Collected
      <4>2. CASE k \notin DOMAIN acc
        <5>1. NamesSent(k) = <<>> /\ ArgumentsSent(k) = <<>>
          BY <1>1, <4>2, NothingSent
        <5>2. k \in Positions /\ <<>> \in Seq(Texts)
          BY <2>3 DEF DeltaSet
        <5> QED BY <4>2, <5>1, <5>2 DEF CallSet
      <4> QED BY <4>1, <4>2
    <3> HIDE DEF old
    <3>2. /\ Merge(old(k), d).name = MoreOf(NamesSent(k), d.name, {""})
          /\ Merge(old(k), d).args = MoreOf(ArgumentsSent(k), d.arg, {"", "null"})
      BY <3>1, MergeTypes
    <3>3. d.name \in Texts /\ d.arg \in Texts
      BY DEF DeltaSet
    <3>4. MoreOf(NamesSent(k), d.name, {""}) = NamesSent(k) \o NamePart(d, k)
      <4>1. Append(NamesSent(k), d.name) = NamesSent(k) \o <<d.name>> /\ NamesSent(k) = NamesSent(k) \o <<>>
        BY <2>2, <3>3
      <4> QED BY <2>3, <4>1 DEF MoreOf, NamePart
    <3>5. MoreOf(ArgumentsSent(k), d.arg, {"", "null"}) = ArgumentsSent(k) \o ArgPart(d, k)
      <4>1. Append(ArgumentsSent(k), d.arg) = ArgumentsSent(k) \o <<d.arg>> /\ ArgumentsSent(k) = ArgumentsSent(k) \o <<>>
        BY <2>2, <3>3
      <4> QED BY <2>3, <4>1 DEF MoreOf, ArgPart
    <3> QED BY <1>3, <2>1, <2>3, <3>2, <3>4, <3>5
  <2>4. CASE k # d.index
    <3>1. k \in DOMAIN acc /\ acc'[k] = acc[k]
      BY <1>3, <1>4, <2>4
    <3>2. acc[k].name = NamesSent(k) /\ acc[k].args = ArgumentsSent(k)
      BY <1>1, <3>1 DEF Collected
    <3>3. NamePart(d, k) = <<>> /\ ArgPart(d, k) = <<>>
      BY <2>4 DEF NamePart, ArgPart
    <3>4. NamesSent(k) \o <<>> = NamesSent(k) /\ ArgumentsSent(k) \o <<>> = ArgumentsSent(k)
      BY <2>2, EmptyIsUnit
    <3> QED BY <2>1, <3>1, <3>2, <3>3, <3>4
  <2> QED BY <2>3, <2>4
<1>6. Collected(tool_calls_acc)'
  BY <1>5 DEF Collected
<1>7. Len(deltas') = Len(deltas) + 1 /\ Len(deltas) \in Nat
  BY <1>1
<1>8. ASSUME NEW j \in DOMAIN deltas' PROVE deltas'[j].index \in DOMAIN acc'
  <2>1. deltas'[j] = d \/ (j \in DOMAIN deltas /\ deltas'[j] = deltas[j])
    BY <1>1
  <2> QED BY <1>1, <1>4, <2>1
<1> QED BY <1>1, <1>2, <1>3, <1>6, <1>7, <1>8 DEF Numbered

LEMMA SentSame ==
  ASSUME deltas' = deltas, NEW i
  PROVE  NamesSent(i)' = NamesSent(i) /\ ArgumentsSent(i)' = ArgumentsSent(i)
BY DEF NamesSent, ArgumentsSent, Sent

\* The calls on their way, when the queue loses its first item or gains others at its end.
LEMMA StillOnTheirWay ==
  ASSUME Typed, OnTheirWay, deltas' = deltas, finish' = finish,
         \/ sentence_queue # <<>> /\ sentence_queue' = Tail(sentence_queue)
         \/ sentence_queue' \in {sentence_queue, <<>>}
         \/ \E more \in Seq(ItemSet) : /\ \A i \in DOMAIN more : more[i].kind # "calls"
                                     /\ sentence_queue' = sentence_queue \o more
  PROVE  OnTheirWay'
<1>1. sentence_queue \in Seq(ItemSet)
  BY DEF Typed
<1>2. ASSUME NEW i \in DOMAIN sentence_queue', sentence_queue'[i].kind = "calls"
      PROVE  \E j \in DOMAIN sentence_queue : sentence_queue'[i] = sentence_queue[j]
  <2>1. CASE sentence_queue # <<>> /\ sentence_queue' = Tail(sentence_queue)
    <3>1. i + 1 \in DOMAIN sentence_queue /\ sentence_queue'[i] = sentence_queue[i + 1]
      BY <1>1, <2>1
    <3> QED BY <3>1
  <2>2. CASE sentence_queue' \in {sentence_queue, <<>>}
    BY <2>2
  <2>3. CASE \E more \in Seq(ItemSet) : /\ \A j \in DOMAIN more : more[j].kind # "calls"
                                     /\ sentence_queue' = sentence_queue \o more
    <3>1. PICK more \in Seq(ItemSet) : /\ \A j \in DOMAIN more : more[j].kind # "calls"
                                      /\ sentence_queue' = sentence_queue \o more
      BY <2>3
    <3>2. CASE i \in DOMAIN sentence_queue
      <4>1. sentence_queue'[i] = sentence_queue[i]
        BY <1>1, <3>1, <3>2
      <4> QED BY <3>2, <4>1
    <3>3. CASE i \notin DOMAIN sentence_queue
      <4>1. i - Len(sentence_queue) \in DOMAIN more /\ sentence_queue'[i] = more[i - Len(sentence_queue)]
        BY <1>1, <3>1, <3>3
      <4> QED BY <1>2, <3>1, <4>1
    <3> QED BY <3>2, <3>3
  <2> QED BY <2>1, <2>2, <2>3
<1>3. ASSUME NEW i \in DOMAIN sentence_queue', sentence_queue'[i].kind = "calls"
      PROVE  /\ finish' # None
             /\ Numbered(sentence_queue'[i].calls) /\ Collected(sentence_queue[i].calls)'
             /\ Len(sentence_queue'[i].calls) <= MaxChunks
  <2>1. PICK j \in DOMAIN sentence_queue : sentence_queue'[i] = sentence_queue[j]
    BY <1>2, <1>3
  <2>2. /\ finish # None
        /\ Numbered(sentence_queue[j].calls) /\ Collected(sentence_queue[j].calls)
        /\ Len(sentence_queue[j].calls) <= MaxChunks
    BY <1>3, <2>1 DEF OnTheirWay
  <2>3. \A k \in DOMAIN sentence_queue'[i].calls :
          /\ sentence_queue'[i].calls[k].name = NamesSent(k)'
          /\ sentence_queue'[i].calls[k].args = ArgumentsSent(k)'
    BY <2>1, <2>2, SentSame DEF Collected
  <2> QED BY <2>1, <2>2, <2>3 DEF Collected
<1> QED BY <1>3 DEF OnTheirWay, Numbered

LEMMA CollectingSame ==
  ASSUME Collecting, UNCHANGED <<deltas, tool_calls_acc, finish>>
  PROVE  Collecting'
<1>1. finish' = finish /\ deltas' = deltas /\ tool_calls_acc' = tool_calls_acc
  OBVIOUS
<1>2. Collected(tool_calls_acc) => Collected(tool_calls_acc)'
  BY <1>1, SentSame DEF Collected
<1> QED BY <1>1, <1>2 DEF Collecting, Numbered

LEMMA EndsSame ==
  ASSUME EndsOnlyWhenAsked, deltas' = deltas, stage' = "ended" => stage = "ended"
  PROVE  EndsOnlyWhenAsked'
BY SentSame DEF EndsOnlyWhenAsked, Confirmed

\* Any step that leaves the calls, the deltas and the queue but for items that are not calls.
LEMMA CallsUndisturbed ==
  ASSUME Typed, CallsInv, UNCHANGED <<reply, deltas, tool_calls_acc, finish>>,
         stage' = "ended" => stage = "ended",
         worker' = worker \/ worker' = "done",
         \/ sentence_queue # <<>> /\ sentence_queue' = Tail(sentence_queue)
         \/ sentence_queue' \in {sentence_queue, <<>>}
         \/ \E more \in Seq(ItemSet) : /\ \A i \in DOMAIN more : more[i].kind # "calls"
                                     /\ sentence_queue' = sentence_queue \o more
  PROVE  CallsInv'
<1>1. OnTheirWay'
  BY StillOnTheirWay DEF CallsInv
<1>2. Collecting' /\ EndsOnlyWhenAsked'
  BY CollectingSame, EndsSame DEF CallsInv
<1> QED BY <1>1, <1>2 DEF CallsInv

LEMMA SentencesAreNoCalls ==
  ASSUME NEW words, NEW i \in DOMAIN Sentences(words)
  PROVE  Sentences(words)[i].kind = "sentence"
BY DEF Sentences, Sentence

LEMMA CallsWorker ==
  ASSUME Typed, CallsInv, WorkerStep
  PROVE  CallsInv'
<1>0. stage # "ended" /\ stage' = stage
  BY DEF WorkerStep, Token, ToolDelta, NamelessDelta, FinishReason, StreamEnds, Streaming, loopVars, CallsInv
<1>1. CASE Token
  <2>1. PICK k \in Tokens : reply' = Append(reply, k)
    BY <1>1 DEF Token
  <2>2. Len(reply') + Len(deltas') <= MaxChunks
    <3>1. Len(reply') = Len(reply) + 1 /\ deltas' = deltas /\ Len(reply) \in Nat /\ Len(deltas) \in Nat
      BY <1>1, <2>1, AppendTypes DEF Token, Typed
    <3> QED BY <1>1, <3>1, ReplyAssumption DEF Token, MoreChunks
  <2>3. OnTheirWay'
    <3> DEFINE more == Sentences(Sanitized(reply', flushed + 1))
    <3>1. flushed + 1 \in 1..(Len(reply') + 1) /\ reply' \in Seq(Tokens)
      BY <2>1, AppendTypes DEF Typed
    <3>2. more \in Seq(ItemSet)
      BY <3>1, SanitizedTypes, SentencesTypes
    <3>3. \A i \in DOMAIN more : more[i].kind # "calls"
      BY SentencesAreNoCalls
    <3>4. sentence_queue' = sentence_queue \/ sentence_queue' = sentence_queue \o more
      BY <1>1 DEF Token
    <3> HIDE DEF more
    <3> QED BY <1>1, <3>2, <3>3, <3>4, StillOnTheirWay DEF Token, CallsInv
  <2>4. Collecting' /\ EndsOnlyWhenAsked'
    BY <1>0, <1>1, CollectingSame, EndsSame DEF Token, CallsInv
  <2> QED BY <1>0, <2>2, <2>3, <2>4 DEF CallsInv
<1>2. CASE ToolDelta
  <2>1. PICK i \in 1..(Len(tool_calls_acc) + 1), f \in Functions :
          /\ deltas' = Append(deltas, Delta(i, f))
          /\ tool_calls_acc' = Reduce(tool_calls_acc, Delta(i, f))
    BY <1>2 DEF ToolDelta
  <2>2. Delta(i, f) \in DeltaSet /\ Delta(i, f).index \in 1..(Len(tool_calls_acc) + 1)
    BY DEF Delta, DeltaSet, Positions, Texts
  <2>3. /\ finish = None /\ finish' = finish /\ reply' = reply /\ sentence_queue' = sentence_queue
        /\ MoreChunks
    BY <1>2 DEF ToolDelta, Streaming
  <2>4. Collecting'
    BY <2>1, <2>2, <2>3, CollectedGrows DEF Collecting, CallsInv
  <2>5. Len(reply') + Len(deltas') <= MaxChunks
    <3>1. Len(deltas') = Len(deltas) + 1 /\ Len(reply) \in Nat /\ Len(deltas) \in Nat
      BY <2>1, <2>2, AppendTypes DEF Typed
    <3> QED BY <2>3, <3>1, ReplyAssumption DEF MoreChunks
  <2>6. OnTheirWay'
    BY <2>3 DEF OnTheirWay, CallsInv
  <2> QED BY <1>0, <2>4, <2>5, <2>6 DEF CallsInv, EndsOnlyWhenAsked
<1>3. CASE NamelessDelta
  <2> DEFINE more == <<Signal("error"), Signal("end")>>
  <2>1. more \in Seq(ItemSet)
    BY SignalTypes
  <2>2. \A i \in DOMAIN more : more[i].kind # "calls"
    BY DEF Signal
  <2>3. /\ sentence_queue' = sentence_queue \o more /\ worker' = "done"
        /\ UNCHANGED <<reply, deltas, tool_calls_acc, finish>>
    BY <1>3 DEF NamelessDelta
  <2> HIDE DEF more
  <2> QED BY <1>0, <2>1, <2>2, <2>3, CallsUndisturbed
<1>4. CASE FinishReason
  <2>1. /\ finish = None /\ finish' # None /\ deltas' = deltas /\ reply' = reply /\ worker' = worker
    BY <1>4, ReplyAssumption DEF FinishReason, Streaming
  <2>2. ASSUME NEW i \in DOMAIN sentence_queue PROVE sentence_queue[i].kind # "calls"
    BY <2>1 DEF CallsInv, OnTheirWay
  <2>3. OnTheirWay'
    <3>1. CASE sentence_queue' = sentence_queue
      BY <2>2, <3>1 DEF OnTheirWay
    <3>2. CASE sentence_queue' = Append(sentence_queue, Calls(tool_calls_acc))
      <4>1. Len(tool_calls_acc) <= MaxChunks
        <5>1. Len(tool_calls_acc) <= Len(deltas) /\ Len(reply) + Len(deltas) <= MaxChunks
          BY <2>1 DEF CallsInv, Collecting
        <5>2. Len(tool_calls_acc) \in Nat /\ Len(deltas) \in Nat /\ Len(reply) \in Nat
          BY DEF Typed
        <5> QED BY <5>1, <5>2, ReplyAssumption
      <4>2. Numbered(tool_calls_acc)
        BY <2>1 DEF CallsInv, Collecting
      <4>3. \A k \in DOMAIN tool_calls_acc :
              /\ tool_calls_acc[k].name = NamesSent(k)' /\ tool_calls_acc[k].args = ArgumentsSent(k)'
        BY <2>1, SentSame DEF CallsInv, Collecting, Collected
      <4>4. ASSUME NEW i \in DOMAIN sentence_queue', sentence_queue'[i].kind = "calls"
            PROVE  sentence_queue'[i].calls = tool_calls_acc
        <5>1. sentence_queue \in Seq(ItemSet)
          BY DEF Typed
        <5>2. i \in DOMAIN sentence_queue \/ sentence_queue'[i] = Calls(tool_calls_acc)
          BY <3>2, <5>1
        <5>3. i \in DOMAIN sentence_queue => sentence_queue'[i] = sentence_queue[i]
          BY <3>2, <5>1
        <5> QED BY <2>2, <4>4, <5>2, <5>3 DEF Calls
      <4> QED BY <2>1, <4>1, <4>2, <4>3, <4>4 DEF OnTheirWay, Collected, Numbered
    <3> QED BY <1>4, <3>1, <3>2 DEF FinishReason
  <2>4. Collecting'
    BY <2>1 DEF Collecting
  <2> QED BY <1>0, <2>1, <2>3, <2>4 DEF CallsInv, EndsOnlyWhenAsked
<1>5. CASE StreamEnds
  <2> DEFINE more == Remainder \o <<Signal("end")>>
  <2>1. Remainder \in Seq(ItemSet)
    <3>1. Raw(reply, flushed + 1) \in Seq(Positions)
      BY RawTypes DEF Typed
    <3> QED BY <3>1, SentencesTypes DEF Remainder
  <2>2. <<Signal("end")>> \in Seq(ItemSet) /\ sentence_queue \in Seq(ItemSet)
    BY SignalTypes DEF Typed
  <2>3. more \in Seq(ItemSet) /\ Len(more) = Len(Remainder) + 1
    BY <2>1, <2>2
  <2>4. \A i \in DOMAIN more : more[i].kind # "calls"
    <3>1. ASSUME NEW i \in DOMAIN more PROVE more[i].kind # "calls"
      <4>1. (i \in DOMAIN Remainder /\ more[i] = Remainder[i]) \/ more[i] = Signal("end")
        BY <2>1, <2>2
      <4>2. i \in DOMAIN Remainder => Remainder[i].kind = "sentence"
        BY SentencesAreNoCalls DEF Remainder
      <4> QED BY <4>1, <4>2 DEF Signal
    <3> QED BY <3>1
  <2>5. sentence_queue' = sentence_queue \o more
    <3>1. sentence_queue' = (sentence_queue \o Remainder) \o <<Signal("end")>>
      BY <1>5 DEF StreamEnds
    <3>2. Associate(sentence_queue, Remainder, <<Signal("end")>>)
      BY <2>1, <2>2, ConcatIsAssociative, Zenon
    <3> QED BY <3>1, <3>2 DEF Associate
  <2>6. worker' = "done" /\ UNCHANGED <<reply, deltas, tool_calls_acc, finish>>
    BY <1>5 DEF StreamEnds
  <2> HIDE DEF more
  <2> QED BY <1>0, <2>3, <2>4, <2>5, <2>6, CallsUndisturbed
<1> QED BY <1>1, <1>2, <1>3, <1>4, <1>5 DEF WorkerStep

LEMMA CallsNext ==
  ASSUME Typed, CallsInv, [Next]_vars
  PROVE  CallsInv'
<1>1. CASE NextSentence
  BY <1>1, CallsUndisturbed DEF NextSentence, Get
<1>2. CASE SaveAnswer
  BY <1>2, CallsUndisturbed DEF SaveAnswer, Get
<1>3. CASE NoAnswer
  BY <1>3, CallsUndisturbed DEF NoAnswer, Get, Apologise
<1>4. CASE WorkerFailed
  BY <1>4, CallsUndisturbed DEF WorkerFailed, Get, Apologise
<1>5. CASE EndConversation
  <2> DEFINE item == Head(sentence_queue)
  <2>1. PICK k \in DOMAIN item.calls : HangsUp(item.calls[k])
    BY <1>5 DEF EndConversation
  <2>2. /\ sentence_queue # <<>> /\ item.kind = "calls" /\ sentence_queue' = Tail(sentence_queue)
        /\ UNCHANGED <<reply, deltas, tool_calls_acc, finish>>
        /\ worker' = "done"
    BY <1>5 DEF EndConversation, Get
  <2>3. sentence_queue \in Seq(ItemSet) /\ item = sentence_queue[1] /\ 1 \in DOMAIN sentence_queue
    BY <2>2 DEF Typed
  <2>4. Numbered(item.calls) /\ Collected(item.calls) /\ Len(item.calls) <= MaxChunks
    <3>1. sentence_queue[1].kind = "calls"
      BY <2>2, <2>3
    <3> HIDE DEF item
    <3> QED BY <2>3, <3>1 DEF CallsInv, OnTheirWay
  <2>5. k \in 1..MaxChunks
    <3>1. item.calls \in Seq(CallSet)
      <4>1. item \in ItemSet
        BY <2>2, HeadTypes DEF Typed
      <4> HIDE DEF item
      <4> QED BY <4>1 DEF ItemSet
    <3> HIDE DEF item
    <3> QED BY <2>4, <3>1, ReplyAssumption
  <2>6. NamesSent(k) = <<"end_conversation">> /\ Confirmed(ArgumentsSent(k))
    BY <2>1, <2>4 DEF HangsUp, Collected
  <2>7. EndsOnlyWhenAsked'
    BY <2>2, <2>5, <2>6, SentSame DEF EndsOnlyWhenAsked, Confirmed
  <2>8. OnTheirWay' /\ Collecting'
    BY <2>2, StillOnTheirWay, CollectingSame DEF CallsInv
  <2> QED BY <2>2, <2>7, <2>8 DEF CallsInv
<1>6. CASE ToolsCalled
  BY <1>6, CallsUndisturbed DEF ToolsCalled, Get, Apologise
<1>7. CASE KeepWaiting
  BY <1>7, CallsUndisturbed DEF KeepWaiting, Waited, replyVars
<1>8. CASE GiveUp
  BY <1>8, CallsUndisturbed DEF GiveUp, Waited, replyVars, Apologise
<1>9. CASE Interrupt
  BY <1>9, CallsUndisturbed DEF Interrupt, loopVars
<1>10. CASE SpeechStep /\ UNCHANGED <<replyVars, loopVars, sentence_queue>>
  BY <1>10, CallsUndisturbed DEF replyVars, loopVars
<1>11. CASE UNCHANGED vars
  BY <1>11, CallsUndisturbed DEF vars, replyVars, loopVars
<1> QED BY <1>1, <1>2, <1>3, <1>4, <1>5, <1>6, <1>7, <1>8, <1>9, <1>10, <1>11, CallsWorker
        DEF Next, LoopStep

\* The call is ended only if the model called end_conversation and confirmed it in that very
\* call, also when the deltas of several calls are mixed (steps.py:489-541, 601-612,
\* tool_executor.py:12-28, endtool.py:21-34).
THEOREM EndsOnlyWhenAskedAlways == Spec => []EndsOnlyWhenAsked
<1>1. Init => Typed /\ CallsInv
  BY TypedInit, CallsInit
<1>2. Typed /\ CallsInv /\ [Next]_vars => (Typed /\ CallsInv)'
  BY TypedNext, CallsNext
<1>3. Typed /\ CallsInv => EndsOnlyWhenAsked
  BY DEF CallsInv
<1> QED BY <1>1, <1>2, <1>3, PTL DEF Spec

-----------------------------------------------------------------------------
(* Audio. *)

LEMMA Remainders ==
  ASSUME NEW n \in Nat
  PROVE  n % FrameParts \in 0..(FrameParts - 1) /\ n \div FrameParts \in Nat
         /\ n = FrameParts * (n \div FrameParts) + (n % FrameParts)
BY SpeechAssumption

LEMMA WholeBounds ==
  ASSUME NEW n \in Nat
  PROVE  Whole(n) \in 0..n /\ (n % FrameParts = 0 => Whole(n) = n)
BY SpeechAssumption DEF Whole

LEMMA WholeOfNothing == Whole(0) = 0
BY SpeechAssumption DEF Whole

\* With more audio there are as many whole frames or more.
LEMMA WholeGrows ==
  ASSUME NEW n \in Nat, NEW m \in Nat, n <= m
  PROVE  Whole(n) <= Whole(m)
<1>1. PICK q \in Nat, r \in 0..(FrameParts - 1) : n = FrameParts * q + r /\ Whole(n) = FrameParts * q
  <2>1. n \div FrameParts \in Nat /\ n % FrameParts \in 0..(FrameParts - 1)
        /\ n = FrameParts * (n \div FrameParts) + (n % FrameParts)
    BY Remainders
  <2> QED BY <2>1, SpeechAssumption DEF Whole
<1>2. PICK u \in Nat, v \in 0..(FrameParts - 1) : m = FrameParts * u + v /\ Whole(m) = FrameParts * u
  <2>1. m \div FrameParts \in Nat /\ m % FrameParts \in 0..(FrameParts - 1)
        /\ m = FrameParts * (m \div FrameParts) + (m % FrameParts)
    BY Remainders
  <2> QED BY <2>1, SpeechAssumption DEF Whole
<1>3. q <= u
  <2> SUFFICES ASSUME q >= u + 1 PROVE FALSE
    OBVIOUS
  <2>1. FrameParts * q >= FrameParts * (u + 1)
    BY SpeechAssumption
  <2>2. FrameParts * (u + 1) = FrameParts * u + FrameParts
    BY SpeechAssumption
  <2> QED BY <1>1, <1>2, <2>1, <2>2, SpeechAssumption
<1> QED BY <1>1, <1>2, <1>3, SpeechAssumption

Pieces == Nat \X Nat

LEMMA PartsTypes ==
  ASSUME NEW p \in Nat, NEW a \in Nat, NEW b \in Nat, a <= b
  PROVE  /\ Parts(p, a, b) \in Seq(Pieces) /\ Len(Parts(p, a, b)) = b - a
         /\ \A i \in 1..(b - a) : Parts(p, a, b)[i] = Part(p, a + i)
<1>1. PICK n \in Nat : n = b - a
  OBVIOUS
<1>2. \A i \in 1..n : Part(p, a + i) \in Pieces
  BY DEF Part, Pieces
<1> QED BY <1>1, <1>2 DEF Parts

LEMMA NoParts ==
  ASSUME NEW p \in Nat
  PROVE  Parts(p, 0, 0) = <<>>
<1>1. Parts(p, 0, 0) \in Seq(Pieces) /\ Len(Parts(p, 0, 0)) = 0
  <2>1. 0 <= 0 /\ 0 - 0 = 0
    OBVIOUS
  <2> QED BY <2>1, PartsTypes
<1> QED BY <1>1, NoElements, Zenon

LEMMA SilenceTypes ==
  ASSUME NEW n \in Nat
  PROVE  Silence(n) \in Seq(Pieces) /\ \A i \in 1..Len(Silence(n)) : Silence(n)[i] = Part(0, 0)
<1>1. Part(0, 0) \in Pieces
  BY DEF Part, Pieces
<1> QED BY <1>1 DEF Silence

\* The parts of a phrase, in two goes.
LEMMA PartsJoin ==
  ASSUME NEW p \in Nat, NEW a \in Nat, NEW b \in Nat, NEW c \in Nat, a <= b, b <= c
  PROVE  Parts(p, a, b) \o Parts(p, b, c) = Parts(p, a, c)
<1>1. /\ Parts(p, a, b) \in Seq(Pieces) /\ Len(Parts(p, a, b)) = b - a
      /\ \A i \in 1..(b - a) : Parts(p, a, b)[i] = Part(p, a + i)
  BY PartsTypes
<1>2. /\ Parts(p, b, c) \in Seq(Pieces) /\ Len(Parts(p, b, c)) = c - b
      /\ \A i \in 1..(c - b) : Parts(p, b, c)[i] = Part(p, b + i)
  BY PartsTypes
<1>3. /\ Parts(p, a, c) \in Seq(Pieces) /\ Len(Parts(p, a, c)) = c - a
      /\ \A i \in 1..(c - a) : Parts(p, a, c)[i] = Part(p, a + i)
  <2>1. a <= c
    OBVIOUS
  <2> QED BY <2>1, PartsTypes
<1> DEFINE q == Parts(p, a, b)
           r == Parts(p, b, c)
<1> HIDE DEF q, r
<1>4. /\ q \in Seq(Pieces) /\ Len(q) = b - a /\ \A i \in 1..(b - a) : q[i] = Part(p, a + i)
      /\ r \in Seq(Pieces) /\ Len(r) = c - b /\ \A i \in 1..(c - b) : r[i] = Part(p, b + i)
  BY <1>1, <1>2 DEF q, r
<1>5. q \o r \in Seq(Pieces) /\ Len(q \o r) = c - a
  BY <1>4
<1>6. ASSUME NEW i \in 1..(c - a) PROVE (q \o r)[i] = Part(p, a + i)
  <2>1. CASE i <= b - a
    <3>1. (q \o r)[i] = q[i]
      BY <1>4, <2>1
    <3> QED BY <1>4, <2>1, <3>1
  <2>2. CASE i > b - a
    <3>1. (q \o r)[i] = r[i - (b - a)] /\ i - (b - a) \in 1..(c - b)
      BY <1>4, <2>2
    <3>2. b + (i - (b - a)) = a + i
      OBVIOUS
    <3>3. r[i - (b - a)] = Part(p, b + (i - (b - a)))
      BY <1>4, <3>1
    <3> QED BY <3>1, <3>2, <3>3
  <2>3. i <= b - a \/ i > b - a
    OBVIOUS
  <2> QED BY <2>1, <2>2, <2>3, Zenon
<1>7. q \o r = Parts(p, a, c)
  BY <1>3, <1>5, <1>6, SameSequence
<1> QED BY <1>7 DEF q, r

LEMMA AudibleTypes ==
  ASSUME NEW s \in Seq(Pieces)
  PROVE  Audible(s) \in Seq(Pieces)
BY WithoutTypes DEF Audible

LEMMA AudibleConcat ==
  ASSUME NEW s \in Seq(Pieces), NEW t \in Seq(Pieces)
  PROVE  Audible(s \o t) = Audible(s) \o Audible(t)
BY WithoutConcat DEF Audible

\* The parts of a phrase are heard, silence is not.
LEMMA AudibleParts ==
  ASSUME NEW p \in Nat \ {0}, NEW a \in Nat, NEW b \in Nat, a <= b
  PROVE  Audible(Parts(p, a, b)) = Parts(p, a, b)
<1>1. /\ Parts(p, a, b) \in Seq(Pieces) /\ Len(Parts(p, a, b)) = b - a
      /\ \A i \in 1..(b - a) : Parts(p, a, b)[i] = Part(p, a + i)
  BY PartsTypes
<1>2. \A i \in 1..(b - a) : Part(p, a + i) \notin {Part(0, 0)}
  BY DEF Part
<1>3. \A i \in 1..Len(Parts(p, a, b)) : Parts(p, a, b)[i] \notin {Part(0, 0)}
  BY <1>1, <1>2
<1> QED BY <1>1, <1>3, WithoutNone DEF Audible

LEMMA AudibleSilence ==
  ASSUME NEW n \in Nat
  PROVE  Audible(Silence(n)) = <<>>
<1>1. Silence(n) \in Seq(Pieces) /\ \A i \in 1..Len(Silence(n)) : Silence(n)[i] \in {Part(0, 0)}
  BY SilenceTypes
<1> QED BY <1>1, WithoutAll DEF Audible

LEMMA AudibleEmpty == Audible(<<>>) = <<>>
BY WithoutEmpty DEF Audible

-----------------------------------------------------------------------------
(* From the phrases to the caller. *)

VoiceTyped ==
  /\ received \in Seq(Nat) /\ Len(received) = Len(phrases)
  /\ taken \in 0..Len(phrases) /\ complete \subseteq 1..Len(phrases)
  /\ heard \in Seq(Pieces) /\ track \in Seq(Pieces) /\ pieces \in Seq(Pieces)
  /\ tts_queue \in Seq(Nat)
  /\ voice \in {"idle", "stream", "rest", "ended"}

\* No audio of a phrase before it is taken, and none is taken twice or left out.
InTurn ==
  /\ \A p \in 1..Len(phrases) : p > taken => received[p] = 0 /\ p \notin complete
  /\ voice = "stream" => taken # 0 /\ taken \notin complete
  /\ voice \in {"idle", "ended"} => pieces = <<>>
  /\ ~cutOff => /\ voice # "ended" /\ Len(tts_queue) = Len(phrases) - taken
                /\ \A i \in 1..Len(tts_queue) : tts_queue[i] = taken + i

\* After an interruption nothing is spoken any more.
Silent ==
  cutOff => /\ stage # "asked" /\ voice \in {"idle", "ended"}
            /\ voice = "idle" => tts_queue = <<>> /\ track = <<>>

Exact ==
  /\ ~cutOff => heard \o Audible(track \o pieces) = Due
  /\ cutOff => \E rest \in Seq(Pieces) : (heard \o Audible(track)) \o rest = Due

\* The inductive invariant of SpeechOutput.
SpeechInv == VoiceTyped /\ InTurn /\ Silent /\ Exact

DueOf(p) == Parts(p, 0, IF p \in complete THEN received[p] ELSE Whole(received[p]))
Dues     == [p \in DOMAIN phrases |-> DueOf(p)]

LEMMA DuesTypes ==
  ASSUME Typed, VoiceTyped
  PROVE  /\ Dues \in Seq(Seq(Pieces)) /\ Len(Dues) = Len(phrases)
         /\ \A p \in 1..Len(phrases) : Dues[p] = DueOf(p) /\ DueOf(p) \in Seq(Pieces)
         /\ Due = FlattenSeq(Dues) /\ Due \in Seq(Pieces)
<1>1. PICK n \in Nat : n = Len(phrases) /\ DOMAIN phrases = 1..n /\ n = Len(received)
  BY DEF Typed, VoiceTyped
<1>2. ASSUME NEW p \in 1..n PROVE DueOf(p) \in Seq(Pieces)
  <2>1. received[p] \in Nat
    BY <1>1 DEF VoiceTyped
  <2>2. Whole(received[p]) \in 0..received[p]
    BY <2>1, WholeBounds
  <2>3. PICK m \in Nat : m = IF p \in complete THEN received[p] ELSE Whole(received[p])
    BY <2>1, <2>2
  <2>4. Parts(p, 0, m) \in Seq(Pieces)
    BY PartsTypes
  <2> QED BY <2>3, <2>4 DEF DueOf
<1> DEFINE U == Seq(Pieces)
<1>3. Dues = [p \in 1..n |-> DueOf(p)]
  BY <1>1 DEF Dues
<1>4. Dues \in Seq(U) /\ Len(Dues) = n /\ \A p \in 1..n : Dues[p] = DueOf(p)
  <2>1. \A p \in 1..n : DueOf(p) \in U
    BY <1>2
  <2> HIDE DEF U
  <2> QED BY <1>3, <2>1
<1>5. Due = FlattenSeq(Dues)
  BY DEF Due, Dues, DueOf
<1> QED BY <1>1, <1>2, <1>4, <1>5, FlattenTypes

\* Nothing is due of a phrase that was not taken.
LEMMA NothingDueYet ==
  ASSUME Typed, VoiceTyped, InTurn, NEW p \in 1..Len(phrases), p > taken
  PROVE  DueOf(p) = <<>>
<1>1. received[p] = 0 /\ p \notin complete
  BY DEF InTurn
<1>2. DueOf(p) = Parts(p, 0, 0)
  BY <1>1, WholeOfNothing DEF DueOf
<1>3. p \in Nat
  BY DEF Typed
<1> QED BY <1>2, <1>3, NoParts

LEMMA DueSame ==
  ASSUME phrases' = phrases, received' = received, complete' = complete
  PROVE  Due' = Due
BY DEF Due, Parts, Part, Whole

LEMMA SayDue ==
  ASSUME Typed, VoiceTyped, NEW words \in Seq(Nat), Say(words), complete' = complete
  PROVE  /\ Due' = Due /\ received' \in Seq(Nat) /\ tts_queue' \in Seq(Nat)
         /\ Len(phrases') = Len(phrases) + 1 /\ Len(received') = Len(phrases) + 1
         /\ received'[Len(phrases) + 1] = 0
         /\ \A p \in 1..Len(phrases) : received'[p] = received[p]
         /\ tts_queue' = Append(tts_queue, Len(phrases) + 1)
<1>1. PICK n \in Nat : n = Len(phrases) /\ n = Len(received) /\ DOMAIN phrases = 1..n
  BY DEF Typed, VoiceTyped
<1>2. /\ phrases \in Seq(Seq(Nat)) /\ received \in Seq(Nat) /\ tts_queue \in Seq(Nat)
      /\ phrases' = Append(phrases, words) /\ received' = Append(received, 0)
      /\ tts_queue' = Append(tts_queue, n + 1)
  BY <1>1 DEF Typed, VoiceTyped, Say
<1>3. /\ received' \in Seq(Nat) /\ tts_queue' \in Seq(Nat)
      /\ Len(phrases') = n + 1 /\ DOMAIN phrases' = 1..(n + 1) /\ Len(received') = n + 1
      /\ received'[n + 1] = 0 /\ \A p \in 1..n : received'[p] = received[p]
  <2>1. received' \in Seq(Nat) /\ Len(received') = n + 1
    BY <1>1, <1>2, AppendTypes
  <2>2. received'[n + 1] = 0 /\ \A p \in 1..n : received'[p] = received[p]
    BY <1>1, <1>2, AppendedElements
  <2>3. Len(phrases') = n + 1 /\ DOMAIN phrases' = 1..(n + 1)
    BY <1>1, <1>2, AppendTypes, AppendedElements
  <2>4. tts_queue' \in Seq(Nat)
    BY <1>1, <1>2, AppendTypes
  <2> QED BY <2>1, <2>2, <2>3, <2>4
<1> DEFINE one(p) == Parts(p, 0, IF p \in complete' THEN received'[p] ELSE Whole(received'[p]))
<1>4. one(n + 1) = <<>>
  <2>1. one(n + 1) = Parts(n + 1, 0, 0)
    <3>1. n + 1 \notin complete'
      BY <1>1 DEF VoiceTyped
    <3> QED BY <1>3, <3>1, WholeOfNothing
  <2> HIDE DEF one
  <2> QED BY <2>1, NoParts
<1>5. \A p \in 1..n : one(p) = DueOf(p)
  BY <1>3 DEF DueOf
<1>6. Dues \in Seq(Seq(Pieces)) /\ Len(Dues) = n /\ (\A p \in 1..n : Dues[p] = DueOf(p))
      /\ Due = FlattenSeq(Dues) /\ Due \in Seq(Pieces)
  BY <1>1, DuesTypes
<1>7. Due' = FlattenSeq([p \in 1..(n + 1) |-> one(p)])
  BY <1>3 DEF Due, Parts, Part, Whole
<1>8. [p \in 1..(n + 1) |-> one(p)] = Append(Dues, <<>>)
  <2> DEFINE U == Seq(Pieces)
  <2>1. Dues \in Seq(U) /\ <<>> \in U
    BY <1>6
  <2> HIDE DEF one, U
  <2>2. \A p \in 1..(n + 1) : p = n + 1 \/ p \in 1..n
    OBVIOUS
  <2>3. \A p \in 1..(n + 1) : one(p) = Append(Dues, <<>>)[p]
    BY <1>4, <1>5, <1>6, <2>1, <2>2
  <2>4. Append(Dues, <<>>) \in Seq(U) /\ Len(Append(Dues, <<>>)) = n + 1
    BY <1>6, <2>1, AppendTypes
  <2>5. \A p \in 1..(n + 1) : one(p) \in U
    BY <2>3, <2>4
  <2>6. [p \in 1..(n + 1) |-> one(p)] \in Seq(U) /\ Len([p \in 1..(n + 1) |-> one(p)]) = n + 1
    BY <2>5
  <2> QED BY <2>3, <2>4, <2>6, SameSequence
<1>9. FlattenSeq(Append(Dues, <<>>)) = FlattenSeq(Dues) \o <<>>
  <2>1. <<>> \in Seq(Pieces)
    OBVIOUS
  <2> QED BY <1>6, <2>1, FlattenAppend
<1>10. Due \o <<>> = Due
  BY <1>6, EmptyIsUnit
<1>11. Due' = Due
  BY <1>6, <1>7, <1>8, <1>9, <1>10
<1> QED BY <1>1, <1>2, <1>3, <1>11

LEMMA TakeKeeps ==
  ASSUME Typed, SpeechInv, TakePhrase, stage' = stage
  PROVE  SpeechInv'
<1>1. /\ voice = "idle" /\ tts_queue # <<>> /\ taken' = Head(tts_queue) /\ tts_queue' = Tail(tts_queue)
      /\ voice' = "stream" /\ UNCHANGED <<received, complete, pieces, track, phrases, heard, cutOff>>
  BY DEF TakePhrase, Worker
<1>2. ~cutOff
  BY <1>1 DEF SpeechInv, Silent
<1>3. /\ tts_queue \in Seq(Nat) /\ Len(tts_queue) = Len(phrases) - taken
      /\ \A i \in 1..Len(tts_queue) : tts_queue[i] = taken + i
      /\ Len(phrases) \in Nat /\ taken \in 0..Len(phrases)
  BY <1>2 DEF SpeechInv, InTurn, VoiceTyped, Typed
<1>4. /\ taken' = taken + 1 /\ taken' \in 1..Len(phrases)
      /\ tts_queue' \in Seq(Nat) /\ Len(tts_queue') = Len(phrases) - taken'
      /\ \A i \in 1..Len(tts_queue') : tts_queue'[i] = taken' + i
  <2>1. Head(tts_queue) = tts_queue[1] /\ 1 \in 1..Len(tts_queue)
    BY <1>1, <1>3
  <2>2. taken' = taken + 1 /\ taken' \in 1..Len(phrases)
    BY <1>1, <1>3, <2>1
  <2>3. /\ tts_queue' \in Seq(Nat) /\ Len(tts_queue') = Len(tts_queue) - 1
        /\ \A i \in 1..Len(tts_queue') : tts_queue'[i] = tts_queue[i + 1]
    BY <1>1, <1>3
  <2> QED BY <1>3, <2>2, <2>3
<1>5. taken' \notin complete'
  <2>1. taken' > taken
    BY <1>3, <1>4
  <2>2. taken' \notin complete
    BY <1>4, <2>1 DEF SpeechInv, InTurn
  <2> QED BY <1>1, <2>2
<1>6. InTurn'
  <2>1. \A p \in 1..Len(phrases') : p > taken' => received'[p] = 0 /\ p \notin complete'
    BY <1>1, <1>3, <1>4 DEF SpeechInv, InTurn
  <2> QED BY <1>1, <1>2, <1>4, <1>5, <2>1 DEF InTurn
<1>7. VoiceTyped'
  BY <1>1, <1>4 DEF SpeechInv, VoiceTyped
<1>8. Exact'
  BY <1>1, <1>2, DueSame DEF SpeechInv, Exact, Audible, Without, Part
<1>9. Silent'
  BY <1>1, <1>2 DEF Silent
<1> QED BY <1>6, <1>7, <1>8, <1>9 DEF SpeechInv

\* Of the phrase being spoken more is due, and just that is about to be pushed.
LEMMA MoreIsDue ==
  ASSUME Typed, VoiceTyped, InTurn, voice = "stream", phrases' = phrases, taken' = taken,
         received' \in Seq(Nat), Len(received') = Len(received),
         \A p \in 1..Len(phrases) : p # taken => received'[p] = received[p] /\ (p \in complete' <=> p \in complete),
         NEW x \in Seq(Pieces), DueOf(taken)' = DueOf(taken) \o x
  PROVE  Due' = Due \o x
<1>1. PICK n \in Nat : n = Len(phrases) /\ DOMAIN phrases = 1..n /\ taken \in 1..n
  BY DEF Typed, VoiceTyped, InTurn
<1>2. /\ Dues \in Seq(Seq(Pieces)) /\ Len(Dues) = n
      /\ \A p \in 1..n : Dues[p] = DueOf(p) /\ DueOf(p) \in Seq(Pieces)
      /\ Due = FlattenSeq(Dues)
  BY <1>1, DuesTypes
<1>3. \A p \in 1..n : p > taken => DueOf(p) = <<>>
  BY <1>1, NothingDueYet
<1> DEFINE due(p) == Parts(p, 0, IF p \in complete' THEN received'[p] ELSE Whole(received'[p]))
<1>4. ASSUME NEW p \in 1..n, p # taken PROVE due(p) = DueOf(p)
  BY <1>1, <1>4 DEF DueOf
<1>5. due(taken) = DueOf(taken) \o x
  <2>1. DueOf(taken)' = due(taken)
    BY DEF DueOf, Parts, Part, Whole
  <2> QED BY <2>1
<1> DEFINE dues == [p \in 1..n |-> due(p)]
<1>6. Due' = FlattenSeq(dues)
  BY <1>1 DEF Due, Parts, Part, Whole
<1>7. \A p \in 1..n : dues[p] = due(p)
  OBVIOUS
<1> HIDE DEF due
<1>8. \A p \in 1..n : due(p) \in Seq(Pieces)
  <2>1. DueOf(taken) \o x \in Seq(Pieces)
    BY <1>1, <1>2, ConcatTypes
  <2> QED BY <1>2, <1>4, <1>5, <2>1
<1>9. dues \in Seq(Seq(Pieces)) /\ Len(dues) = n
  <2> DEFINE U == Seq(Pieces)
  <2>1. \A p \in 1..n : due(p) \in U
    BY <1>8
  <2> HIDE DEF U
  <2>2. dues \in Seq(U) /\ Len(dues) = n
    BY <2>1
  <2> QED BY <2>2 DEF U
<1> HIDE DEF dues
<1>10. FlattenSeq(dues) = FlattenSeq(Dues) \o x
  <2>1. /\ \A p \in 1..Len(Dues) : p # taken => dues[p] = Dues[p]
        /\ \A p \in 1..Len(Dues) : p > taken => Dues[p] = <<>>
        /\ dues[taken] = Dues[taken] \o x
        /\ taken \in 1..Len(Dues) /\ Len(dues) = Len(Dues)
    <3>1. \A p \in 1..n : p # taken => dues[p] = Dues[p]
      BY <1>2, <1>4, <1>7
    <3>2. \A p \in 1..n : p > taken => Dues[p] = <<>>
      BY <1>2, <1>3
    <3>3. dues[taken] = Dues[taken] \o x
      BY <1>1, <1>2, <1>5, <1>7
    <3> QED BY <1>1, <1>2, <1>9, <3>1, <3>2, <3>3
  <2> QED BY <1>2, <1>9, <2>1, FlattenGrowsAt
<1> QED BY <1>2, <1>6, <1>10

LEMMA PushedIsDue ==
  ASSUME VoiceTyped, pieces = <<>>, heard \o Audible(track \o pieces) = Due,
         NEW q \in Seq(Pieces)
  PROVE  heard \o Audible(track \o q) = Due \o Audible(q)
<1>1. /\ heard \in Seq(Pieces) /\ track \in Seq(Pieces) /\ track \o pieces = track
  BY EmptyIsUnit DEF VoiceTyped
<1>2. Audible(track \o q) = Audible(track) \o Audible(q)
  BY <1>1, AudibleConcat
<1>3. Audible(track) \in Seq(Pieces) /\ Audible(q) \in Seq(Pieces)
  BY <1>1, AudibleTypes
<1>4. Associate(heard, Audible(track), Audible(q))
  BY <1>1, <1>3, ConcatIsAssociative, Zenon
<1>5. heard \o Audible(track) = Due
  BY <1>1
<1> QED BY <1>2, <1>4, <1>5 DEF Associate

LEMMA ReceiveKeeps ==
  ASSUME Typed, SpeechInv, ReceiveChunk, stage' = stage
  PROVE  SpeechInv'
<1>1. PICK n \in 1..MaxAudio :
        /\ received' = [received EXCEPT ![taken] = received[taken] + n]
        /\ pieces' = Parts(taken, Whole(received[taken]), Whole(received[taken] + n))
  BY DEF ReceiveChunk
<1>2. /\ voice = "stream" /\ pieces = <<>>
      /\ UNCHANGED <<complete, tts_queue, taken, voice, track, phrases, heard, cutOff>>
  BY DEF ReceiveChunk, Waiting, Worker
<1>3. ~cutOff
  BY <1>2 DEF SpeechInv, Silent
<1>4. /\ taken \in 1..Len(phrases) /\ taken \in Nat \ {0} /\ taken \notin complete /\ Len(received) = Len(phrases)
      /\ received \in Seq(Nat) /\ received[taken] \in Nat /\ n \in Nat
  BY SMTT(30), <1>2, SpeechAssumption DEF SpeechInv, InTurn, VoiceTyped, Typed
<1>5. PICK a \in Nat, b \in Nat : a = received[taken] /\ b = received[taken] + n /\ a <= b
  BY <1>4
<1>6. Whole(a) \in Nat /\ Whole(b) \in Nat /\ 0 <= Whole(a) /\ Whole(a) <= Whole(b)
  <2>1. Whole(a) \in 0..a /\ Whole(b) \in 0..b
    BY WholeBounds
  <2>2. Whole(a) <= Whole(b)
    BY <1>5, WholeGrows
  <2> QED BY <2>1, <2>2
<1> DEFINE x == Parts(taken, Whole(a), Whole(b))
<1>7. x \in Seq(Pieces) /\ pieces' = x /\ Audible(x) = x
  BY <1>1, <1>4, <1>5, <1>6, PartsTypes, AudibleParts
<1>8. /\ received' \in Seq(Nat) /\ Len(received') = Len(received) /\ received'[taken] = b
      /\ \A p \in 1..Len(phrases) : p # taken => received'[p] = received[p]
  BY <1>1, <1>4, <1>5
<1>9. DueOf(taken)' = DueOf(taken) \o x
  <2>1. DueOf(taken) = Parts(taken, 0, Whole(a))
    BY <1>4, <1>5 DEF DueOf
  <2>2. DueOf(taken)' = Parts(taken, 0, Whole(b))
    BY <1>2, <1>4, <1>8 DEF DueOf, Parts, Part, Whole
  <2>3. Parts(taken, 0, Whole(a)) \o x = Parts(taken, 0, Whole(b))
    BY ZenonT(30), <1>4, <1>6, PartsJoin
  <2> QED BY <2>1, <2>2, <2>3
<1> HIDE DEF x
<1>10. Due' = Due \o x
  BY <1>2, <1>7, <1>8, <1>9, MoreIsDue DEF SpeechInv
<1>11. Exact'
  <2>1. heard \o Audible(track \o x) = Due \o Audible(x)
    BY <1>2, <1>3, <1>7, PushedIsDue DEF SpeechInv, Exact
  <2>2. heard' \o Audible(track' \o pieces') = Due'
    BY <1>2, <1>7, <1>10, <2>1
  <2> QED BY <1>2, <1>3, <2>2 DEF Exact, Audible, Without, Part
<1>12. InTurn'
  <2>1. \A p \in 1..Len(phrases') : p > taken' => received'[p] = 0 /\ p \notin complete'
    <3>1. ASSUME NEW p \in 1..Len(phrases), p > taken PROVE received'[p] = 0 /\ p \notin complete
      <4>1. p # taken
        BY <1>4, <3>1
      <4> QED BY <1>8, <3>1, <4>1 DEF SpeechInv, InTurn
    <3> QED BY <1>2, <3>1
  <2> QED BY <1>2, <2>1 DEF SpeechInv, InTurn
<1>13. VoiceTyped'
  BY <1>2, <1>7, <1>8 DEF SpeechInv, VoiceTyped
<1> QED BY <1>2, <1>3, <1>11, <1>12, <1>13 DEF SpeechInv, Silent

LEMMA EndKeeps ==
  ASSUME Typed, SpeechInv, ResponseEnds, stage' = stage
  PROVE  SpeechInv'
<1>1. /\ voice = "stream" /\ pieces = <<>>
      /\ pieces' = LastFrame \o (IF received[taken] > 0 THEN Silence(Pause) ELSE <<>>)
      /\ complete' = IF Buffered = 0 THEN complete ELSE complete \cup {taken}
      /\ voice' = IF pieces' = <<>> THEN "idle" ELSE "rest"
      /\ UNCHANGED <<received, tts_queue, taken, track, phrases, heard, cutOff>>
  BY DEF ResponseEnds, Waiting, Worker
<1>2. ~cutOff
  BY <1>1 DEF SpeechInv, Silent
<1>3. /\ taken \in 1..Len(phrases) /\ taken \in Nat \ {0} /\ taken \notin complete /\ Len(received) = Len(phrases)
      /\ received \in Seq(Nat) /\ received[taken] \in Nat
  BY SMTT(30), <1>1 DEF SpeechInv, InTurn, VoiceTyped, Typed
<1>4. PICK a \in Nat : a = received[taken]
  BY <1>3
<1>5. Whole(a) \in Nat /\ 0 <= Whole(a) /\ Whole(a) <= a /\ a % FrameParts \in 0..(FrameParts - 1)
      /\ FrameParts \in Nat
  <2>1. Whole(a) \in 0..a
    BY WholeBounds
  <2>2. a % FrameParts \in 0..(FrameParts - 1)
    BY Remainders
  <2>3. FrameParts \in Nat
    BY SpeechAssumption
  <2> QED BY <2>1, <2>2, <2>3
<1> DEFINE x == IF Buffered = 0 THEN <<>> ELSE Parts(taken, Whole(a), a)
           pause == IF received[taken] > 0 THEN Silence(Pause) ELSE <<>>
<1>6. pause \in Seq(Pieces) /\ Audible(pause) = <<>>
  <2>1. Silence(Pause) \in Seq(Pieces) /\ Audible(Silence(Pause)) = <<>>
    BY SpeechAssumption, SilenceTypes, AudibleSilence
  <2>2. <<>> \in Seq(Pieces) /\ Audible(<<>>) = <<>>
    BY AudibleEmpty
  <2> QED BY <2>1, <2>2
<1>7. x \in Seq(Pieces) /\ LastFrame \in Seq(Pieces) /\ Audible(LastFrame) = x
  <2>1. CASE Buffered = 0
    <3>1. <<>> \in Seq(Pieces)
      OBVIOUS
    <3> QED BY <2>1, <3>1, AudibleEmpty DEF LastFrame
  <2>2. CASE Buffered # 0
    <3> DEFINE part == Parts(taken, Whole(a), a)
               rest == Silence(FrameParts - Buffered)
    <3>1. part \in Seq(Pieces) /\ Audible(part) = part
      BY <1>3, <1>5, PartsTypes, AudibleParts
    <3>2. FrameParts - Buffered \in Nat
      BY <1>4, <1>5 DEF Buffered
    <3>3. rest \in Seq(Pieces) /\ Audible(rest) = <<>>
      BY <3>2, SilenceTypes, AudibleSilence
    <3>4. LastFrame = part \o rest
      BY <1>4, <2>2 DEF LastFrame
    <3>5. x = part
      BY <2>2
    <3> HIDE DEF part, rest, x
    <3>6. Audible(part \o rest) = part \o <<>>
      BY <3>1, <3>3, AudibleConcat
    <3>7. part \o <<>> = part /\ part \o rest \in Seq(Pieces)
      BY <3>1, <3>3, EmptyIsUnit, ConcatTypes
    <3> QED BY <3>1, <3>4, <3>5, <3>6, <3>7
  <2> QED BY <2>1, <2>2
<1> HIDE DEF pause
<1>8. pieces' \in Seq(Pieces) /\ Audible(pieces') = x
  <2> HIDE DEF x
  <2>1. pieces' = LastFrame \o pause
    BY <1>1 DEF pause
  <2>2. Audible(LastFrame \o pause) = x \o <<>>
    BY <1>6, <1>7, AudibleConcat
  <2>3. x \o <<>> = x
    BY <1>7, EmptyIsUnit
  <2>4. LastFrame \o pause \in Seq(Pieces)
    BY <1>6, <1>7, ConcatTypes
  <2> QED BY <2>1, <2>2, <2>3, <2>4
<1>9. DueOf(taken)' = DueOf(taken) \o x
  <2>1. DueOf(taken) = Parts(taken, 0, Whole(a))
    BY <1>3, <1>4 DEF DueOf
  <2>2. CASE Buffered = 0
    <3>1. DueOf(taken)' = Parts(taken, 0, Whole(a))
      BY <1>1, <1>3, <1>4, <2>2 DEF DueOf, Parts, Part, Whole
    <3>2. Parts(taken, 0, Whole(a)) \o <<>> = Parts(taken, 0, Whole(a))
      <4>1. Parts(taken, 0, Whole(a)) \in Seq(Pieces)
        BY <1>3, <1>5, PartsTypes
      <4> QED BY <4>1, EmptyIsUnit
    <3> QED BY <2>1, <2>2, <3>1, <3>2
  <2>3. CASE Buffered # 0
    <3>1. DueOf(taken)' = Parts(taken, 0, a)
      BY <1>1, <1>3, <1>4, <2>3 DEF DueOf, Parts, Part, Whole
    <3>2. Parts(taken, 0, Whole(a)) \o Parts(taken, Whole(a), a) = Parts(taken, 0, a)
      BY <1>3, <1>5, PartsJoin
    <3> QED BY <2>1, <2>3, <3>1, <3>2
  <2> QED BY <2>2, <2>3
<1> HIDE DEF x
<1>10. Due' = Due \o x
  <2>1. \A p \in 1..Len(phrases) : p # taken => received'[p] = received[p] /\ (p \in complete' <=> p \in complete)
    BY <1>1
  <2> QED BY <1>1, <1>3, <1>7, <1>9, <2>1, MoreIsDue DEF SpeechInv
<1>11. Exact'
  <2>1. heard \o Audible(track \o pieces') = Due \o Audible(pieces')
    BY <1>1, <1>2, <1>8, PushedIsDue DEF SpeechInv, Exact
  <2>2. heard' \o Audible(track' \o pieces') = Due'
    BY <1>1, <1>8, <1>10, <2>1
  <2> QED BY <1>1, <1>2, <2>2 DEF Exact, Audible, Without, Part
<1>12. InTurn'
  <2>1. \A p \in 1..Len(phrases') : p > taken' => received'[p] = 0 /\ p \notin complete'
    <3>1. ASSUME NEW p \in 1..Len(phrases), p > taken PROVE p # taken
      BY <1>3, <3>1
    <3> QED BY <1>1, <3>1 DEF SpeechInv, InTurn
  <2> QED BY <1>1, <1>2, <2>1 DEF SpeechInv, InTurn
<1>13. VoiceTyped'
  <2>1. complete' \subseteq 1..Len(phrases) /\ voice' \in {"idle", "rest"}
    BY <1>1, <1>3 DEF SpeechInv, VoiceTyped
  <2> QED BY <1>1, <1>8, <2>1 DEF SpeechInv, VoiceTyped
<1> QED BY <1>1, <1>2, <1>11, <1>12, <1>13 DEF SpeechInv, Silent

LEMMA FailKeeps ==
  ASSUME Typed, SpeechInv, SynthesisFails, stage' = stage
  PROVE  SpeechInv'
<1>1. /\ voice = "stream" /\ pieces = <<>> /\ voice' = "idle"
      /\ UNCHANGED <<received, complete, tts_queue, taken, pieces, track, phrases, heard, cutOff>>
  BY DEF SynthesisFails, Waiting, Worker
<1>2. ~cutOff
  BY <1>1 DEF SpeechInv, Silent
<1>3. Exact'
  BY <1>1, <1>2, DueSame DEF SpeechInv, Exact, Audible, Without, Part
<1>4. InTurn'
  BY <1>1, <1>2 DEF SpeechInv, InTurn
<1> QED BY <1>1, <1>2, <1>3, <1>4 DEF SpeechInv, Silent, VoiceTyped

LEMMA PushKeeps ==
  ASSUME Typed, SpeechInv, PushPiece, stage' = stage
  PROVE  SpeechInv'
<1>1. /\ pieces # <<>> /\ track' = Append(track, Head(pieces)) /\ pieces' = Tail(pieces)
      /\ voice' = IF voice = "rest" /\ Len(pieces) = 1 THEN "idle" ELSE voice
      /\ UNCHANGED <<received, complete, tts_queue, taken, phrases, heard, cutOff>>
  BY DEF PushPiece, Worker
<1>2. voice \in {"stream", "rest"} /\ ~cutOff
  BY <1>1 DEF SpeechInv, Silent, InTurn, VoiceTyped
<1>3. /\ track \in Seq(Pieces) /\ pieces \in Seq(Pieces) /\ Head(pieces) \in Pieces
      /\ Tail(pieces) \in Seq(Pieces) /\ pieces = <<Head(pieces)>> \o Tail(pieces)
      /\ <<Head(pieces)>> \in Seq(Pieces)
  <2>1. track \in Seq(Pieces) /\ pieces \in Seq(Pieces)
    BY DEF SpeechInv, VoiceTyped
  <2> QED BY <1>1, <2>1, HeadTypes
<1>4. track' \o pieces' = track \o pieces
  <2>1. Associate(track, <<Head(pieces)>>, Tail(pieces))
    BY <1>3, ConcatIsAssociative, Zenon
  <2>2. track' = track \o <<Head(pieces)>>
    BY <1>1, <1>3, AppendTypes
  <2> QED BY <1>1, <1>3, <2>1, <2>2 DEF Associate
<1>5. track' \in Seq(Pieces)
  BY <1>1, <1>3, AppendTypes
<1>6. voice' = "idle" => pieces' = <<>>
  <2>1. ASSUME Len(pieces) = 1 PROVE Tail(pieces) = <<>>
    <3>1. Len(Tail(pieces)) = 0
      BY <1>1, <1>3, <2>1
    <3> QED BY <1>3, <3>1, NoElements
  <2> QED BY <1>1, <1>2, <2>1
<1>7. Exact'
  <2>1. Due' = Due
    BY <1>1, DueSame
  <2>2. heard' \o Audible(track' \o pieces') = Due'
    BY <1>1, <1>2, <1>4, <2>1 DEF SpeechInv, Exact
  <2> QED BY <1>1, <1>2, <2>2 DEF Exact, Audible, Without, Part
<1>8. InTurn'
  BY <1>1, <1>2, <1>6 DEF SpeechInv, InTurn
<1>9. VoiceTyped'
  BY <1>1, <1>2, <1>3, <1>5 DEF SpeechInv, VoiceTyped
<1> QED BY <1>1, <1>2, <1>7, <1>8, <1>9 DEF SpeechInv, Silent

LEMMA RecvKeeps ==
  ASSUME Typed, SpeechInv, Recv, stage' = stage
  PROVE  SpeechInv'
<1>1. /\ track # <<>> /\ track' = Tail(track) /\ heard' = heard \o Audible(<<Head(track)>>)
      /\ UNCHANGED <<phrases, received, complete, cutOff, tts_queue, taken, voice, pieces>>
  BY DEF Recv
<1>2. /\ heard \in Seq(Pieces) /\ track \in Seq(Pieces) /\ pieces \in Seq(Pieces)
      /\ Tail(track) \in Seq(Pieces) /\ track = <<Head(track)>> \o Tail(track)
      /\ <<Head(track)>> \in Seq(Pieces)
  <2>1. heard \in Seq(Pieces) /\ track \in Seq(Pieces) /\ pieces \in Seq(Pieces)
    BY DEF SpeechInv, VoiceTyped
  <2>2. Head(track) \in Pieces
    BY <1>1, <2>1, HeadTypes
  <2> QED BY <1>1, <2>1, <2>2, HeadTypes
<1>3. ASSUME NEW q \in Seq(Pieces)
      PROVE  heard' \o Audible(Tail(track) \o q) = heard \o Audible(track \o q)
  <2> DEFINE one == Audible(<<Head(track)>>)
             more == Audible(Tail(track) \o q)
  <2>1. Tail(track) \o q \in Seq(Pieces)
    BY <1>2, ConcatTypes
  <2>2. one \in Seq(Pieces) /\ more \in Seq(Pieces)
    BY <1>2, <2>1, AudibleTypes
  <2>3. Associate(heard, one, more)
    <3> HIDE DEF one, more
    <3> QED BY <1>2, <2>2, ConcatIsAssociative, Zenon
  <2>4. track \o q = <<Head(track)>> \o (Tail(track) \o q)
    <3>1. Associate(<<Head(track)>>, Tail(track), q)
      BY <1>2, ConcatIsAssociative, Zenon
    <3> QED BY <1>2, <3>1 DEF Associate
  <2>5. Audible(<<Head(track)>> \o (Tail(track) \o q)) = one \o more
    BY <1>2, <2>1, AudibleConcat
  <2> QED BY <1>1, <2>3, <2>4, <2>5 DEF Associate
<1>4. heard' \in Seq(Pieces)
  BY <1>1, <1>2, AudibleTypes, ConcatTypes
<1>5. Exact'
  <2>1. Due' = Due
    BY <1>1, DueSame
  <2>2. heard' \o Audible(Tail(track) \o pieces) = heard \o Audible(track \o pieces)
    BY <1>2, <1>3
  <2>3. heard' \o Audible(Tail(track)) = heard \o Audible(track)
    <3>1. <<>> \in Seq(Pieces) /\ Tail(track) \o <<>> = Tail(track) /\ track \o <<>> = track
      BY <1>2, EmptyIsUnit
    <3>2. heard' \o Audible(Tail(track) \o <<>>) = heard \o Audible(track \o <<>>)
      BY <1>3, <3>1
    <3> QED BY <3>1, <3>2
  <2>4. ~cutOff => heard' \o Audible(track' \o pieces') = Due'
    BY <1>1, <2>1, <2>2 DEF SpeechInv, Exact
  <2>5. cutOff => \E rest \in Seq(Pieces) : (heard' \o Audible(track')) \o rest = Due'
    BY <1>1, <2>1, <2>3 DEF SpeechInv, Exact
  <2> QED BY <1>1, <2>4, <2>5 DEF Exact, Audible, Without, Part
<1>6. InTurn' /\ Silent'
  BY <1>1 DEF SpeechInv, InTurn, Silent
<1>7. VoiceTyped'
  BY <1>1, <1>2, <1>4 DEF SpeechInv, VoiceTyped
<1> QED BY <1>5, <1>6, <1>7 DEF SpeechInv

\* A phrase more behind those that wait.
LEMMA SayKeeps ==
  ASSUME Typed, SpeechInv, stage = "asked", NEW words \in Seq(Nat), Saying(words)
  PROVE  SpeechInv'
<1>1. /\ Say(words) /\ UNCHANGED <<complete, heard, cutOff, taken, voice, pieces, track>>
  BY DEF Saying
<1>2. ~cutOff
  BY DEF SpeechInv, Silent
<1>3. /\ Due' = Due /\ received' \in Seq(Nat) /\ tts_queue' \in Seq(Nat)
      /\ Len(phrases') = Len(phrases) + 1 /\ Len(received') = Len(phrases) + 1
      /\ received'[Len(phrases) + 1] = 0
      /\ \A p \in 1..Len(phrases) : received'[p] = received[p]
      /\ tts_queue' = Append(tts_queue, Len(phrases) + 1)
  BY <1>1, SayDue DEF SpeechInv
<1>4. /\ Len(phrases) \in Nat /\ taken \in 0..Len(phrases) /\ complete \subseteq 1..Len(phrases)
      /\ tts_queue \in Seq(Nat)
  BY DEF Typed, SpeechInv, VoiceTyped
<1>5. Exact'
  <2>1. heard' \o Audible(track' \o pieces') = Due'
    BY <1>1, <1>2, <1>3 DEF SpeechInv, Exact
  <2> QED BY <1>1, <1>2, <2>1 DEF Exact, Audible, Without, Part
<1>6. InTurn'
  <2>1. ASSUME NEW p \in 1..Len(phrases'), p > taken PROVE received'[p] = 0 /\ p \notin complete
    <3>1. CASE p = Len(phrases) + 1
      BY <1>3, <1>4, <3>1
    <3>2. CASE p # Len(phrases) + 1
      <4>1. p \in 1..Len(phrases)
        BY <1>3, <1>4, <3>2
      <4> QED BY <1>3, <2>1, <4>1 DEF SpeechInv, InTurn
    <3> QED BY <3>1, <3>2
  <2>2. /\ Len(tts_queue') = Len(phrases') - taken
        /\ \A i \in 1..Len(tts_queue') : tts_queue'[i] = taken + i
    <3>1. Len(tts_queue) = Len(phrases) - taken /\ \A i \in 1..Len(tts_queue) : tts_queue[i] = taken + i
      BY <1>2 DEF SpeechInv, InTurn
    <3>2. /\ Len(tts_queue') = Len(tts_queue) + 1 /\ tts_queue'[Len(tts_queue) + 1] = Len(phrases) + 1
          /\ \A i \in 1..Len(tts_queue) : tts_queue'[i] = tts_queue[i]
      <4>1. Len(phrases) + 1 \in Nat
        BY <1>4
      <4> QED BY <1>3, <1>4, <4>1, AppendTypes, AppendedElements
    <3>3. Len(tts_queue') = Len(phrases') - taken
      BY <1>3, <1>4, <3>1, <3>2
    <3>4. ASSUME NEW i \in 1..Len(tts_queue') PROVE tts_queue'[i] = taken + i
      <4>1. CASE i = Len(tts_queue) + 1
        BY <1>4, <3>1, <3>2, <4>1
      <4>2. CASE i # Len(tts_queue) + 1
        <5>1. i \in 1..Len(tts_queue)
          BY <1>4, <3>2, <4>2
        <5> QED BY <3>1, <3>2, <5>1
      <4> QED BY <4>1, <4>2
    <3> QED BY <3>3, <3>4
  <2> QED BY <1>1, <1>2, <2>1, <2>2 DEF SpeechInv, InTurn
<1>7. VoiceTyped'
  <2>1. taken' \in 0..Len(phrases') /\ complete' \subseteq 1..Len(phrases')
    BY <1>1, <1>3, <1>4
  <2> QED BY <1>1, <1>3, <2>1 DEF SpeechInv, VoiceTyped
<1> QED BY <1>1, <1>2, <1>5, <1>6, <1>7 DEF SpeechInv, Silent

LEMMA FarewellKeeps ==
  ASSUME Typed, SpeechInv, EndConversation
  PROVE  SpeechInv'
<1>1. /\ Say(Goodbye) /\ voice' = "ended" /\ pieces' = <<>> /\ cutOff' = TRUE
      /\ stage = "asked" /\ stage' = "ended" /\ UNCHANGED <<complete, heard, taken, track>>
  BY DEF EndConversation, Farewell, Get
<1>2. ~cutOff
  BY <1>1 DEF SpeechInv, Silent
<1>3. /\ Due' = Due /\ received' \in Seq(Nat) /\ tts_queue' \in Seq(Nat)
      /\ Len(phrases') = Len(phrases) + 1 /\ Len(received') = Len(phrases) + 1
      /\ received'[Len(phrases) + 1] = 0
      /\ \A p \in 1..Len(phrases) : received'[p] = received[p]
  BY <1>1, OwnTypes, SayDue DEF SpeechInv
<1>4. /\ Len(phrases) \in Nat /\ taken \in 0..Len(phrases) /\ complete \subseteq 1..Len(phrases)
      /\ heard \in Seq(Pieces) /\ track \in Seq(Pieces) /\ pieces \in Seq(Pieces)
  BY DEF Typed, SpeechInv, VoiceTyped
<1>5. Exact'
  <2>1. Audible(track) \in Seq(Pieces) /\ Audible(pieces) \in Seq(Pieces)
    BY <1>4, AudibleTypes
  <2>2. Audible(track \o pieces) = Audible(track) \o Audible(pieces)
    BY <1>4, AudibleConcat
  <2>3. Associate(heard, Audible(track), Audible(pieces))
    BY <1>4, <2>1, ConcatIsAssociative, Zenon
  <2>4. (heard \o Audible(track)) \o Audible(pieces) = Due
    BY <1>2, <2>2, <2>3 DEF SpeechInv, Exact, Associate
  <2>5. \E rest \in Seq(Pieces) : (heard' \o Audible(track')) \o rest = Due'
    BY <1>1, <1>3, <2>1, <2>4
  <2> QED BY <1>1, <2>5 DEF Exact, Audible, Without, Part
<1>6. InTurn'
  <2>1. ASSUME NEW p \in 1..Len(phrases'), p > taken PROVE received'[p] = 0 /\ p \notin complete
    <3>1. CASE p = Len(phrases) + 1
      BY <1>3, <1>4, <3>1
    <3>2. CASE p # Len(phrases) + 1
      <4>1. p \in 1..Len(phrases)
        BY <1>3, <1>4, <3>2
      <4> QED BY <1>3, <2>1, <4>1 DEF SpeechInv, InTurn
    <3> QED BY <3>1, <3>2
  <2> QED BY <1>1, <2>1 DEF InTurn
<1>7. VoiceTyped'
  <2>1. taken' \in 0..Len(phrases') /\ complete' \subseteq 1..Len(phrases')
    BY <1>1, <1>3, <1>4
  <2>2. <<>> \in Seq(Pieces)
    OBVIOUS
  <2> QED BY <1>1, <1>3, <2>1, <2>2 DEF SpeechInv, VoiceTyped
<1>8. Silent'
  BY <1>1 DEF Silent
<1> QED BY <1>5, <1>6, <1>7, <1>8 DEF SpeechInv

LEMMA InterruptKeeps ==
  ASSUME Typed, SpeechInv, Interrupt
  PROVE  SpeechInv'
<1>1. /\ tts_queue' = <<>> /\ voice' = "idle" /\ pieces' = <<>> /\ track' = <<>> /\ cutOff' = TRUE
      /\ ~cutOff /\ stage = "over" /\ stage' = stage
      /\ UNCHANGED <<phrases, received, complete, heard, taken>>
  BY DEF Interrupt, Hush, Purge, loopVars
<1>2. heard \in Seq(Pieces) /\ track \in Seq(Pieces) /\ pieces \in Seq(Pieces)
  BY DEF SpeechInv, VoiceTyped
<1>3. Exact'
  <2>1. Audible(track \o pieces) \in Seq(Pieces)
    BY <1>2, ConcatTypes, AudibleTypes
  <2>2. heard \o Audible(<<>>) = heard
    BY <1>2, AudibleEmpty, EmptyIsUnit
  <2>3. heard' \o Audible(track') = heard
    BY <1>1, <2>2
  <2>4. heard \o Audible(track \o pieces) = Due'
    BY <1>1, DueSame DEF SpeechInv, Exact
  <2>5. \E rest \in Seq(Pieces) : (heard' \o Audible(track')) \o rest = Due'
    BY <2>1, <2>3, <2>4
  <2> QED BY <1>1, <2>5 DEF Exact, Audible, Without, Part
<1>4. InTurn'
  BY <1>1 DEF SpeechInv, InTurn
<1>5. VoiceTyped'
  <2>1. <<>> \in Seq(Pieces) /\ <<>> \in Seq(Nat)
    OBVIOUS
  <2> QED BY <1>1, <2>1 DEF SpeechInv, VoiceTyped
<1>6. Silent'
  BY <1>1 DEF Silent
<1> QED BY <1>3, <1>4, <1>5, <1>6 DEF SpeechInv

LEMMA SpeechSame ==
  ASSUME SpeechInv, UNCHANGED speechVars, stage' = stage \/ stage' # "asked"
  PROVE  SpeechInv'
<1>1. UNCHANGED <<phrases, received, complete, heard, cutOff, tts_queue, taken, voice, pieces, track>>
  BY DEF speechVars
<1>2. Due' = Due
  BY <1>1, DueSame
<1>3. Exact'
  BY <1>1, <1>2 DEF SpeechInv, Exact, Audible, Without, Part
<1>4. VoiceTyped' /\ InTurn'
  BY <1>1 DEF SpeechInv, VoiceTyped, InTurn
<1>5. Silent'
  BY <1>1 DEF SpeechInv, Silent
<1> QED BY <1>3, <1>4, <1>5 DEF SpeechInv

LEMMA SpeechInit1 == Init => SpeechInv
<1> SUFFICES ASSUME Init PROVE SpeechInv
  OBVIOUS
<1>1. /\ phrases = <<>> /\ received = <<>> /\ complete = {} /\ heard = <<>> /\ cutOff = FALSE
      /\ tts_queue = <<>> /\ taken = 0 /\ voice = "idle" /\ pieces = <<>> /\ track = <<>>
  BY DEF Init, SpeechInit
<1>2. /\ <<>> \in Seq(Nat) /\ <<>> \in Seq(Pieces) /\ Len(<<>>) = 0 /\ <<>> \o <<>> = <<>>
  OBVIOUS
<1>3. VoiceTyped
  BY <1>1, <1>2 DEF VoiceTyped
<1>4. InTurn /\ Silent
  BY <1>1, <1>2 DEF InTurn, Silent
<1>5. Due = <<>>
  <2>1. Dues \in Seq(Seq(Pieces)) /\ Len(Dues) = 0 /\ Due = FlattenSeq(Dues)
    BY <1>1, <1>2, <1>3, TypedInit, DuesTypes
  <2>2. Dues = <<>>
    BY <2>1, NoElements, Zenon
  <2> QED BY <2>1, <2>2, FlattenEmpty
<1>6. Exact
  BY <1>1, <1>2, <1>5, AudibleEmpty DEF Exact
<1> QED BY <1>3, <1>4, <1>6 DEF SpeechInv

LEMMA SpeechNext ==
  ASSUME Typed, SpeechInv, [Next]_vars
  PROVE  SpeechInv'
<1>1. CASE WorkerStep
  BY <1>1, SpeechSame DEF WorkerStep, Token, ToolDelta, NamelessDelta, FinishReason, StreamEnds,
                          Streaming, loopVars
<1>2. CASE SpeechStep /\ UNCHANGED <<replyVars, loopVars, sentence_queue>>
  <2>1. stage' = stage
    BY <1>2 DEF loopVars
  <2> QED BY <1>2, <2>1, TakeKeeps, ReceiveKeeps, EndKeeps, FailKeeps, PushKeeps, RecvKeeps DEF SpeechStep
<1>3. CASE UNCHANGED vars
  BY <1>3, SpeechSame DEF vars, loopVars
<1>4. ASSUME NEW words \in Seq(Nat), stage = "asked", Saying(words) PROVE SpeechInv'
  BY <1>4, SayKeeps
<1>5. CASE NextSentence
  <2>1. Head(sentence_queue).words \in Seq(Nat)
    <3>1. Head(sentence_queue).words \in Seq(Positions)
      BY <1>5, GetTyped DEF NextSentence, ItemSet
    <3> QED BY <3>1 DEF Positions
  <2> QED BY <1>4, <1>5, <2>1 DEF NextSentence, Get
<1>6. CASE SaveAnswer
  BY <1>6, SpeechSame DEF SaveAnswer
<1>7. ASSUME stage = "asked", Apologise PROVE SpeechInv'
  BY <1>4, <1>7, OwnTypes DEF Apologise
<1>8. CASE NoAnswer \/ WorkerFailed \/ ToolsCalled \/ GiveUp
  BY <1>7, <1>8 DEF NoAnswer, WorkerFailed, ToolsCalled, GiveUp, Get, Waited
<1>9. CASE EndConversation
  BY <1>9, FarewellKeeps
<1>10. CASE KeepWaiting
  BY <1>4, <1>10, OwnTypes DEF KeepWaiting, Waited
<1>11. CASE Interrupt
  BY <1>11, InterruptKeeps
<1> QED BY <1>1, <1>2, <1>3, <1>5, <1>6, <1>8, <1>9, <1>10, <1>11 DEF Next, LoopStep

\* Through chunks of any size, frames of 20 ms and pieces of 10 ms, padding, a full queue
\* and failing calls, no audio is lost, repeated or put out of order between the service
\* and the caller, and after an interruption the track and the worker hold nothing that
\* could be heard (text_to_speech.py:121-141, audio_track.py:44-88, steps.py:709-733,
\* 755-770).
THEOREM SpeechIsExactAlways == Spec => []SpeechIsExact
<1>1. Init => Typed /\ SpeechInv
  BY TypedInit, SpeechInit1
<1>2. Typed /\ SpeechInv /\ [Next]_vars => (Typed /\ SpeechInv)'
  BY TypedNext, SpeechNext
<1>3. ASSUME Typed, SpeechInv PROVE SpeechIsExact
  <2>1. CASE cutOff
    <3>1. PICK rest \in Seq(Pieces) : (heard \o Audible(track)) \o rest = Due
      BY <1>3, <2>1 DEF SpeechInv, Exact
    <3>2. heard \o Audible(track) \in Seq(Pieces)
      BY <1>3, AudibleTypes, ConcatTypes DEF SpeechInv, VoiceTyped
    <3>3. PICK q \in Seq(Pieces) : q = heard \o Audible(track)
      BY <3>2
    <3>4. IsPrefix(q, q \o rest)
      BY DEF IsPrefix
    <3>5. ASSUME ~HungUp PROVE Audible(track \o pieces) = <<>>
      <4>1. track = <<>> /\ pieces = <<>>
        BY <1>3, <2>1, <3>5 DEF SpeechInv, Silent, InTurn, HungUp
      <4> QED BY <4>1, AudibleEmpty, EmptyIsUnit
    <3> QED BY <2>1, <3>1, <3>3, <3>4, <3>5 DEF SpeechIsExact
  <2>2. CASE ~cutOff
    BY <1>3, <2>2 DEF SpeechInv, Exact, SpeechIsExact
  <2> QED BY <2>1, <2>2
<1> QED BY <1>1, <1>2, <1>3, PTL DEF Spec

-----------------------------------------------------------------------------
(* The words. *)

\* The first n elements, one by one.
First(s, n) == [j \in 1..n |-> s[j]]

LEMMA FirstTypes ==
  ASSUME NEW T, NEW s \in Seq(T), NEW n \in 0..Len(s)
  PROVE  First(s, n) \in Seq(T) /\ Len(First(s, n)) = n /\ \A j \in 1..n : First(s, n)[j] = s[j]
<1>1. \A j \in 1..n : s[j] \in T
  OBVIOUS
<1> QED BY <1>1 DEF First

LEMMA FirstOnes ==
  ASSUME NEW T, NEW s \in Seq(T)
  PROVE  /\ First(s, 0) = <<>> /\ First(s, Len(s)) = s
         /\ \A n \in 1..Len(s) : First(s, n) = Append(First(s, n - 1), s[n])
<1>1. Len(s) \in Nat /\ 0 \in 0..Len(s) /\ Len(s) \in 0..Len(s)
  OBVIOUS
<1>2. First(s, 0) \in Seq(T) /\ Len(First(s, 0)) = 0
  BY <1>1, FirstTypes
<1>3. First(s, 0) = <<>>
  BY <1>2, NoElements, Zenon
<1>4. First(s, Len(s)) \in Seq(T) /\ Len(First(s, Len(s))) = Len(s)
      /\ \A j \in 1..Len(s) : First(s, Len(s))[j] = s[j]
  BY <1>1, FirstTypes
<1>5. First(s, Len(s)) = s
  BY <1>4, SameSequence
<1>6. ASSUME NEW n \in 1..Len(s) PROVE First(s, n) = Append(First(s, n - 1), s[n])
  <2>1. n \in 0..Len(s) /\ n - 1 \in 0..Len(s) /\ s[n] \in T
    BY <1>1
  <2>2. First(s, n) \in Seq(T) /\ Len(First(s, n)) = n /\ \A j \in 1..n : First(s, n)[j] = s[j]
    BY <2>1, FirstTypes
  <2>3. /\ First(s, n - 1) \in Seq(T) /\ Len(First(s, n - 1)) = n - 1
        /\ \A j \in 1..(n - 1) : First(s, n - 1)[j] = s[j]
    BY <2>1, FirstTypes
  <2>4. Append(First(s, n - 1), s[n]) \in Seq(T) /\ Len(Append(First(s, n - 1), s[n])) = n
    BY <2>1, <2>3, AppendTypes
  <2>5. ASSUME NEW j \in 1..n PROVE First(s, n)[j] = Append(First(s, n - 1), s[n])[j]
    <3>1. CASE j = n
      BY <2>1, <2>2, <2>3, <3>1
    <3>2. CASE j # n
      <4>1. j \in 1..(n - 1)
        BY <3>2
      <4> QED BY <2>1, <2>2, <2>3, <4>1
    <3> QED BY <3>1, <3>2
  <2> QED BY <2>2, <2>4, <2>5, SameSequence
<1> QED BY <1>3, <1>5, <1>6

\* What filters, one after the other, leave.
LEMMA WithoutTwice ==
  ASSUME NEW T, NEW s \in Seq(T), NEW A, NEW B, A \subseteq B
  PROVE  Without(Without(s, A), B) = Without(s, B)
<1> DEFINE Same(n) == Without(Without(First(s, n), A), B) = Without(First(s, n), B)
           H == {n \in 0..Len(s) : Same(n)}
<1>1. Len(s) \in Nat
  OBVIOUS
<1>2. 0 \in H
  <2>1. Same(0)
    BY FirstOnes, WithoutEmpty
  <2> QED BY <1>1, <2>1
<1>3. ASSUME NEW n \in 1..Len(s), n - 1 \in H PROVE n \in H
  <2>1. n \in 0..Len(s) /\ n - 1 \in 0..Len(s) /\ s[n] \in T
    BY <1>1
  <2> DEFINE q == First(s, n - 1)
             x == s[n]
  <2>2. q \in Seq(T) /\ First(s, n) = Append(q, x)
    BY <2>1, FirstTypes, FirstOnes
  <2>3. Without(Without(q, A), B) = Without(q, B)
    BY <1>3
  <2> HIDE DEF q, x
  <2>4. x \in T
    BY <2>1 DEF x
  <2>5. Without(q, A) \in Seq(T)
    BY <2>2, WithoutTypes
  <2>6. Without(Append(q, x), A) = IF x \in A THEN Without(q, A) ELSE Append(Without(q, A), x)
    BY <2>2, <2>4, WithoutAppend
  <2>7. Without(Append(q, x), B) = IF x \in B THEN Without(q, B) ELSE Append(Without(q, B), x)
    BY <2>2, <2>4, WithoutAppend
  <2>8. Without(Append(Without(q, A), x), B) =
          IF x \in B THEN Without(Without(q, A), B) ELSE Append(Without(Without(q, A), B), x)
    BY <2>4, <2>5, WithoutAppend
  <2>9. Without(Without(Append(q, x), A), B) = Without(Append(q, x), B)
    BY <2>3, <2>6, <2>7, <2>8
  <2>10. Same(n)
    BY <2>2, <2>9
  <2> QED BY <2>1, <2>10
<1>4. Len(s) \in H
  <2> HIDE DEF H
  <2> QED BY <1>1, <1>2, <1>3, UpTo
<1>5. Same(Len(s))
  BY <1>4
<1> QED BY <1>5, FirstOnes

\* Numbers between a and b, each greater than the one before.
Rising(s, a, b) == \A i \in 1..Len(s) : s[i] \in (a + 1)..b /\ (i > 1 => s[i - 1] < s[i])

LEMMA RisingConcat ==
  ASSUME NEW s \in Seq(Nat), NEW t \in Seq(Nat), NEW a \in Nat, NEW b \in Nat, NEW c \in Nat,
         a <= b, b <= c, Rising(s, a, b), Rising(t, b, c)
  PROVE  Rising(s \o t, a, c)
<1>1. ASSUME NEW i \in 1..Len(s \o t)
      PROVE  (s \o t)[i] \in (a + 1)..c /\ (i > 1 => (s \o t)[i - 1] < (s \o t)[i])
  <2>1. CASE i <= Len(s)
    <3>1. i \in 1..Len(s) /\ (s \o t)[i] = s[i] /\ (i > 1 => (s \o t)[i - 1] = s[i - 1])
      BY <2>1
    <3>2. s[i] \in (a + 1)..b /\ (i > 1 => s[i - 1] < s[i])
      BY <3>1 DEF Rising
    <3> QED BY <3>1, <3>2
  <2>2. CASE i > Len(s)
    <3> DEFINE k == i - Len(s)
    <3>1. k \in 1..Len(t) /\ (s \o t)[i] = t[k]
      BY <2>2
    <3>2. t[k] \in (b + 1)..c /\ (k > 1 => t[k - 1] < t[k])
      BY <3>1 DEF Rising
    <3>3. CASE k = 1
      <4>1. ASSUME i > 1 PROVE (s \o t)[i - 1] < (s \o t)[i]
        <5>1. i - 1 \in 1..Len(s) /\ (s \o t)[i - 1] = s[i - 1]
          BY <3>3, <4>1
        <5>2. s[i - 1] \in (a + 1)..b
          BY <5>1 DEF Rising
        <5> QED BY <3>1, <3>2, <5>1, <5>2
      <4> QED BY SMTT(30), <3>1, <3>2, <4>1
    <3>4. CASE k # 1
      <4>1. (s \o t)[i - 1] = t[k - 1] /\ k > 1
        BY <3>1, <3>4
      <4> QED BY <3>1, <3>2, <4>1
    <3> QED BY <3>3, <3>4
  <2>3. i <= Len(s) \/ i > Len(s)
    OBVIOUS
  <2> QED BY <2>1, <2>2, <2>3
<1> QED BY <1>1 DEF Rising

LEMMA RisingBeginning ==
  ASSUME NEW s \in Seq(Nat), NEW t \in Seq(Nat), NEW a \in Nat, NEW b \in Nat, Rising(s \o t, a, b)
  PROVE  Rising(s, a, b)
<1>1. ASSUME NEW i \in 1..Len(s) PROVE s[i] \in (a + 1)..b /\ (i > 1 => s[i - 1] < s[i])
  <2>1. i \in 1..Len(s \o t) /\ (s \o t)[i] = s[i] /\ (i > 1 => (s \o t)[i - 1] = s[i - 1])
    OBVIOUS
  <2>2. (s \o t)[i] \in (a + 1)..b /\ (i > 1 => (s \o t)[i - 1] < (s \o t)[i])
    BY <2>1 DEF Rising
  <2> QED BY <2>1, <2>2
<1> QED BY <1>1 DEF Rising

LEMMA RisingRaw ==
  ASSUME NEW r \in Seq(Tokens), NEW n \in 0..Len(r)
  PROVE  Raw(r, n + 1) \in Seq(Nat) /\ Rising(Raw(r, n + 1), n, Len(r))
<1>1. n + 1 \in 1..(Len(r) + 1) /\ Len(r) \in Nat
  OBVIOUS
<1>2. /\ Raw(r, n + 1) \in Seq(Positions) /\ Len(Raw(r, n + 1)) = Len(r) - (n + 1) + 1
      /\ \A i \in 1..(Len(r) - (n + 1) + 1) : Raw(r, n + 1)[i] = (n + 1) + i - 1
  BY <1>1, RawTypes
<1>3. PICK m \in Nat : m = Len(r) - n /\ m = Len(r) - (n + 1) + 1
  BY <1>1
<1>4. \A i \in 1..m : Raw(r, n + 1)[i] = n + i
  BY <1>2, <1>3
<1>5. ASSUME NEW i \in 1..m PROVE n + i \in (n + 1)..Len(r) /\ (i > 1 => i - 1 \in 1..m /\ n + (i - 1) < n + i)
  BY <1>1, <1>3
<1>6. Rising(Raw(r, n + 1), n, Len(r))
  <2> DEFINE q == Raw(r, n + 1)
  <2>1. Len(q) = m /\ \A i \in 1..m : q[i] = n + i
    BY <1>2, <1>3, <1>4
  <2> HIDE DEF q
  <2>2. ASSUME NEW i \in 1..m PROVE q[i] \in (n + 1)..Len(r) /\ (i > 1 => q[i - 1] < q[i])
    BY <1>5, <2>1
  <2>3. Rising(q, n, Len(r))
    BY <2>1, <2>2 DEF Rising
  <2> QED BY <2>3 DEF q
<1> QED BY <1>2, <1>6 DEF Positions

\* A filter leaves numbers in their order.
LEMMA RisingWithout ==
  ASSUME NEW s \in Seq(Nat), NEW a \in Nat, NEW b \in Nat, a <= b, Rising(s, a, b), NEW S
  PROVE  Without(s, S) \in Seq(Nat) /\ Rising(Without(s, S), a, b)
<1> DEFINE last(n) == IF n = 0 THEN a ELSE s[n]
           Rise(n) == Rising(Without(First(s, n), S), a, last(n))
           H == {n \in 0..Len(s) : Rise(n)}
<1>1. Len(s) \in Nat
  OBVIOUS
<1>2. 0 \in H
  <2>1. Without(First(s, 0), S) = <<>>
    BY FirstOnes, WithoutEmpty
  <2>2. Rise(0)
    BY <2>1 DEF Rising
  <2> QED BY <1>1, <2>2
<1>3. ASSUME NEW n \in 1..Len(s), n - 1 \in H PROVE n \in H
  <2>1. n \in 0..Len(s) /\ n - 1 \in 0..Len(s) /\ s[n] \in Nat /\ n # 0
    BY <1>1
  <2> DEFINE q == First(s, n - 1)
             x == s[n]
             l == last(n - 1)
  <2>2. q \in Seq(Nat) /\ First(s, n) = Append(q, x)
    BY <2>1, FirstTypes, FirstOnes
  <2>3. Rising(Without(q, S), a, l)
    BY <1>3
  <2>4. l \in Nat /\ a <= l /\ l < x /\ x \in Nat
    <3>1. s[n] \in (a + 1)..b /\ (n > 1 => s[n - 1] < s[n])
      BY <1>1 DEF Rising
    <3>2. CASE n = 1
      BY <2>1, <3>1, <3>2
    <3>3. CASE n # 1
      <4>1. n - 1 \in 1..Len(s) /\ n - 1 # 0 /\ n > 1
        BY <1>1, <3>3
      <4>2. s[n - 1] \in (a + 1)..b
        BY <4>1 DEF Rising
      <4> QED BY <2>1, <3>1, <4>1, <4>2
    <3> QED BY <3>2, <3>3
  <2> HIDE DEF q, x, l
  <2>5. Without(q, S) \in Seq(Nat)
    BY <2>2, WithoutTypes
  <2>6. Without(Append(q, x), S) = IF x \in S THEN Without(q, S) ELSE Append(Without(q, S), x)
    BY ZenonT(30), <2>2, <2>4, WithoutAppend
  <2>7. Rising(Without(q, S), a, x)
    BY <2>3, <2>4, <2>5 DEF Rising
  <2>8. Rising(Append(Without(q, S), x), a, x)
    <3>1. <<x>> \in Seq(Nat) /\ Append(Without(q, S), x) = Without(q, S) \o <<x>>
      BY <2>4, <2>5
    <3>2. Rising(<<x>>, l, x)
      BY <2>4 DEF Rising
    <3>3. l <= x
      BY <2>4
    <3> QED BY <2>3, <2>4, <2>5, <3>1, <3>2, <3>3, RisingConcat
  <2>9. Rising(Without(First(s, n), S), a, x)
    BY <2>2, <2>6, <2>7, <2>8
  <2>10. Rise(n)
    BY <2>1, <2>9 DEF x
  <2> QED BY <2>1, <2>10
<1>4. Len(s) \in H
  <2> HIDE DEF H
  <2> QED BY <1>1, <1>2, <1>3, UpTo
<1>5. Rising(Without(s, S), a, last(Len(s)))
  <2>1. Rise(Len(s))
    BY <1>4
  <2> QED BY <2>1, FirstOnes
<1>6. last(Len(s)) \in Nat /\ last(Len(s)) <= b
  <2>1. Len(s) # 0 => s[Len(s)] \in (a + 1)..b
    BY <1>1 DEF Rising
  <2> QED BY <1>1, <2>1
<1>7. Without(s, S) \in Seq(Nat)
  BY WithoutTypes
<1> HIDE DEF last
<1> QED BY <1>5, <1>6, <1>7 DEF Rising

-----------------------------------------------------------------------------
(* From the reply to the phrases. *)

\* The words of the items of a queue.
WordsOf == [x \in ItemSet |-> x.words]

LEMMA WordsOfTypes == WordsOf \in [ItemSet -> Seq(Nat)]
<1>1. ASSUME NEW x \in ItemSet PROVE x.words \in Seq(Nat)
  <2>1. x.words \in Seq(Positions)
    BY DEF ItemSet
  <2> QED BY <2>1 DEF Positions
<1> QED BY <1>1 DEF WordsOf

\* The words of the items, one after the other.
AllWords(q) == FlattenSeq(Mapped(q, WordsOf))

LEMMA AllWordsTypes ==
  ASSUME NEW q \in Seq(ItemSet)
  PROVE  /\ AllWords(q) \in Seq(Nat)
         /\ AllWords(q) = FlattenSeq([i \in DOMAIN q |-> q[i].words])
<1>1. Mapped(q, WordsOf) \in Seq(Seq(Nat))
  BY WordsOfTypes, MappedTypes
<1>2. \A i \in DOMAIN q : q[i] \in ItemSet
  OBVIOUS
<1>3. Mapped(q, WordsOf) = [i \in DOMAIN q |-> q[i].words]
  BY <1>2 DEF Mapped, WordsOf
<1> QED BY <1>1, <1>3, FlattenTypes DEF AllWords

LEMMA AllWordsConcat ==
  ASSUME NEW q \in Seq(ItemSet), NEW t \in Seq(ItemSet)
  PROVE  AllWords(q \o t) = AllWords(q) \o AllWords(t)
<1>1. WordsOf \in [ItemSet -> Seq(Nat)]
  BY WordsOfTypes
<1>2. \A g \in [ItemSet -> Seq(Nat)] :
        FlattenSeq(Mapped(q \o t, g)) = FlattenSeq(Mapped(q, g)) \o FlattenSeq(Mapped(t, g))
  BY MappedConcat
<1> QED BY <1>1, <1>2, Zenon DEF AllWords

LEMMA AllWordsOne ==
  ASSUME NEW x \in ItemSet
  PROVE  AllWords(<<x>>) = x.words
<1>1. \A g \in [ItemSet -> Seq(Nat)] : FlattenSeq(Mapped(<<x>>, g)) = g[x]
  BY MappedOne
<1>2. FlattenSeq(Mapped(<<x>>, WordsOf)) = WordsOf[x]
  BY <1>1, WordsOfTypes, Zenon
<1> QED BY <1>2 DEF AllWords, WordsOf

LEMMA QueuedIsAllWords ==
  ASSUME Typed
  PROVE  Queued = AllWords(sentence_queue) /\ Queued \in Seq(Nat)
BY AllWordsTypes DEF Typed, Queued

LEMMA QueuedIsAllWordsNext ==
  ASSUME Typed'
  PROVE  Queued' = AllWords(sentence_queue') /\ Queued' \in Seq(Nat)
<1>1. sentence_queue' \in Seq(ItemSet)
  BY DEF Typed, ItemSet, Positions, CallSet, Texts
<1> QED BY <1>1, AllWordsTypes DEF Queued

\* Items are added to the queue ...
LEMMA QueuedGrows ==
  ASSUME Typed, Typed', NEW more \in Seq(ItemSet), sentence_queue' = sentence_queue \o more
  PROVE  Queued' = Queued \o AllWords(more)
<1>1. sentence_queue \in Seq(ItemSet)
  BY DEF Typed
<1>2. AllWords(sentence_queue \o more) = AllWords(sentence_queue) \o AllWords(more)
  BY <1>1, AllWordsConcat
<1> QED BY <1>2, QueuedIsAllWords, QueuedIsAllWordsNext

\* ... and taken from it.
LEMMA QueuedShrinks ==
  ASSUME Typed, Typed', sentence_queue # <<>>, sentence_queue' = Tail(sentence_queue)
  PROVE  Queued = Head(sentence_queue).words \o Queued'
<1>1. PICK h \in ItemSet, t \in Seq(ItemSet) :
        h = Head(sentence_queue) /\ t = sentence_queue' /\ sentence_queue = <<h>> \o t
  BY HeadTypes DEF Typed
<1>2. <<h>> \in Seq(ItemSet)
  OBVIOUS
<1>3. AllWords(<<h>> \o t) = AllWords(<<h>>) \o AllWords(t)
  BY <1>2, AllWordsConcat
<1> QED BY <1>1, <1>3, AllWordsOne, QueuedIsAllWords, QueuedIsAllWordsNext

LEMMA WordsOfSentences ==
  ASSUME NEW words \in Seq(Positions)
  PROVE  AllWords(Sentences(words)) = words
<1>1. CASE words = <<>>
  <2>1. \A g \in [ItemSet -> Seq(Nat)] : FlattenSeq(Mapped(<<>>, g)) = <<>>
    BY MappedEmpty
  <2>2. FlattenSeq(Mapped(<<>>, WordsOf)) = <<>>
    BY <2>1, WordsOfTypes, Zenon
  <2> QED BY <1>1, <2>2 DEF Sentences, AllWords
<1>2. CASE words # <<>>
  <2>1. Sentence(words) \in ItemSet /\ Sentence(words).words = words
    BY DEF Sentence, ItemSet
  <2> QED BY <1>2, <2>1, AllWordsOne DEF Sentences
<1> QED BY <1>1, <1>2

\* An item without words.
LEMMA NoWords ==
  ASSUME NEW x \in ItemSet, x.words = <<>>, NEW q \in Seq(ItemSet)
  PROVE  AllWords(q \o <<x>>) = AllWords(q)
<1>1. <<x>> \in Seq(ItemSet)
  OBVIOUS
<1>2. AllWords(q \o <<x>>) = AllWords(q) \o <<>>
  BY <1>1, AllWordsConcat, AllWordsOne
<1>3. AllWords(q) \in Seq(Nat)
  BY AllWordsTypes
<1> QED BY <1>2, <1>3, EmptyIsUnit

\* What a pattern matches it also matches in a longer reply, read from the beginning.
LEMMA MatchedGrows ==
  ASSUME NEW r \in Seq(Tokens), NEW k \in Tokens
  PROVE  Matched(r, 1) \subseteq Matched(Append(r, k), 1)
<1> SUFFICES ASSUME NEW p \in Matched(r, 1) PROVE p \in Matched(Append(r, k), 1)
  OBVIOUS
<1>1. PICK o \in 1..p, c \in p..Len(r) :
        r[o] = "open" /\ r[c] = "close" /\ \A j \in o..(c - 1) : r[j] # "close"
  BY DEF Matched
<1>2. p \in 1..Len(r) /\ Len(r) \in Nat
  BY DEF Matched
<1>3. Len(Append(r, k)) = Len(r) + 1 /\ \A i \in 1..Len(r) : Append(r, k)[i] = r[i]
  OBVIOUS
<1> DEFINE s == Append(r, k)
<1>4. /\ p \in 1..Len(s) /\ o \in 1..p /\ c \in p..Len(s)
      /\ s[o] = "open" /\ s[c] = "close"
  BY <1>1, <1>2, <1>3
<1>5. ASSUME NEW j \in o..(c - 1) PROVE s[j] # "close"
  <2>1. j \in 1..Len(r)
    BY <1>1, <1>2
  <2> QED BY <1>1, <1>3, <2>1
<1> HIDE DEF s
<1>6. p \in Matched(s, 1)
  BY <1>4, <1>5 DEF Matched
<1> QED BY <1>6 DEF s

LEMMA MatchedFrom ==
  ASSUME NEW r \in Seq(Tokens), NEW a \in Positions
  PROVE  Matched(r, a) \subseteq Matched(r, 1)
<1> SUFFICES ASSUME NEW p \in Matched(r, a) PROVE p \in Matched(r, 1)
  OBVIOUS
<1>1. PICK o \in a..p, c \in p..Len(r) :
        r[o] = "open" /\ r[c] = "close" /\ \A j \in o..(c - 1) : r[j] # "close"
  BY DEF Matched
<1>2. p \in a..Len(r) /\ Len(r) \in Nat /\ a >= 1 /\ a \in Nat
  BY DEF Matched, Positions
<1>3. p \in 1..Len(r) /\ o \in 1..p
  BY <1>2
<1> QED BY <1>1, <1>3 DEF Matched

\* The positions up to n.
Count(n) == [i \in 1..n |-> i]

LEMMA CountGrows ==
  ASSUME NEW r \in Seq(Tokens), NEW n \in 0..Len(r)
  PROVE  /\ Count(n) \in Seq(Nat) /\ Raw(r, n + 1) \in Seq(Nat)
         /\ Count(Len(r)) = Count(n) \o Raw(r, n + 1)
<1>1. PICK l \in Nat : l = Len(r) /\ n \in 0..l /\ n \in Nat /\ n <= l /\ n + 1 \in 1..(l + 1)
  OBVIOUS
<1>2. \A k \in Nat : Count(k) \in Seq(Nat) /\ Len(Count(k)) = k /\ \A i \in 1..k : Count(k)[i] = i
  BY DEF Count
<1>3. /\ Raw(r, n + 1) \in Seq(Nat) /\ Len(Raw(r, n + 1)) = l - (n + 1) + 1
      /\ \A i \in 1..(l - (n + 1) + 1) : Raw(r, n + 1)[i] = (n + 1) + i - 1
  <2>1. n + 1 \in 1..(Len(r) + 1)
    BY <1>1
  <2>2. /\ Raw(r, n + 1) \in Seq(Positions) /\ Len(Raw(r, n + 1)) = Len(r) - (n + 1) + 1
        /\ \A i \in 1..(Len(r) - (n + 1) + 1) : Raw(r, n + 1)[i] = (n + 1) + i - 1
    BY <2>1, RawTypes
  <2>3. Raw(r, n + 1) \in Seq(Nat)
    BY <2>2 DEF Positions
  <2> QED BY <1>1, <2>2, <2>3, Zenon
<1>4. PICK m \in Nat : m = l - n /\ m = l - (n + 1) + 1
  <2>1. l - n \in Nat /\ l - n = l - (n + 1) + 1
    BY <1>1
  <2> QED BY <2>1
<1>5. \A i \in 1..m : (n + 1) + i - 1 = n + i
  BY <1>1
<1> DEFINE c == Count(n)
           q == Raw(r, n + 1)
<1>6. c \in Seq(Nat) /\ Len(c) = n /\ \A i \in 1..n : c[i] = i
  BY <1>1, <1>2
<1>7. q \in Seq(Nat) /\ Len(q) = m /\ \A i \in 1..m : q[i] = n + i
  BY <1>3, <1>4, <1>5
<1> HIDE DEF c, q
<1>8. c \o q \in Seq(Nat) /\ Len(c \o q) = l
  BY <1>1, <1>4, <1>6, <1>7
<1>9. ASSUME NEW i \in 1..l PROVE (c \o q)[i] = i
  <2>1. CASE i <= n
    <3>1. i \in 1..n /\ (c \o q)[i] = c[i]
      BY <1>6, <1>7, <2>1
    <3> QED BY <1>6, <3>1
  <2>2. CASE i > n
    <3>1. i - n \in 1..m /\ n + (i - n) = i /\ i \in 1..(n + m)
      BY <1>1, <1>4, <2>2
    <3>2. (c \o q)[i] = q[i - n]
      BY <1>1, <1>6, <1>7, <2>2, <3>1
    <3>3. q[i - n] = n + (i - n)
      BY <1>7, <3>1
    <3> QED BY <3>1, <3>2, <3>3
  <2>3. i <= n \/ i > n
    BY <1>1
  <2> QED BY <2>1, <2>2, <2>3, Zenon
<1>10. Count(l) = c \o q
  BY <1>2, <1>8, <1>9, SameSequence
<1> QED BY <1>1, <1>3, <1>6, <1>10 DEF c, q

\* What the buffer still has, sanitised or not, joins what was spoken.
LEMMA BufferIsSpoken ==
  ASSUME NEW r \in Seq(Tokens), NEW n \in 0..Len(r), NEW w \in Seq(Nat), NEW S,
         Rising(w, 0, n)
  PROVE  /\ Without(Raw(r, n + 1), S) \in Seq(Nat)
         /\ w \o Without(Raw(r, n + 1), S) \in Seq(Nat)
         /\ Rising(w \o Without(Raw(r, n + 1), S), 0, Len(r))
<1>1. n \in Nat /\ Len(r) \in Nat /\ 0 <= n /\ n <= Len(r) /\ 0 \in Nat
  OBVIOUS
<1>2. Raw(r, n + 1) \in Seq(Nat) /\ Rising(Raw(r, n + 1), n, Len(r))
  BY RisingRaw
<1> DEFINE q == Without(Raw(r, n + 1), S)
<1>3. q \in Seq(Nat) /\ Rising(q, n, Len(r))
  BY <1>1, <1>2, RisingWithout
<1> HIDE DEF q
<1>4. Rising(w \o q, 0, Len(r))
  BY <1>1, <1>3, RisingConcat
<1>5. w \o q \in Seq(Nat)
  BY <1>3
<1> QED BY <1>3, <1>4, <1>5 DEF q

LEMMA NothingIsLeftOut ==
  ASSUME NEW r \in Seq(Tokens), NEW n \in 0..Len(r), NEW w \in Seq(Nat), NEW M, NEW S, S \subseteq M,
         Without(w, M) = Without(Count(n), M)
  PROVE  Without(w \o Without(Raw(r, n + 1), S), M) = Without(Count(Len(r)), M)
<1>1. /\ Count(n) \in Seq(Nat) /\ Raw(r, n + 1) \in Seq(Nat)
      /\ Count(Len(r)) = Count(n) \o Raw(r, n + 1)
  BY CountGrows
<1> DEFINE c == Count(n)
           q == Raw(r, n + 1)
<1>2. c \in Seq(Nat) /\ q \in Seq(Nat) /\ Count(Len(r)) = c \o q /\ Without(w, M) = Without(c, M)
  BY <1>1
<1> HIDE DEF c, q
<1>3. Without(Without(q, S), M) = Without(q, M) /\ Without(q, S) \in Seq(Nat)
  BY <1>2, WithoutTwice, WithoutTypes
<1>4. Without(w \o Without(q, S), M) = Without(w, M) \o Without(Without(q, S), M)
  <2>1. \A v \in Seq(Nat) : Without(w \o v, M) = Without(w, M) \o Without(v, M)
    BY WithoutConcat
  <2> QED BY <1>3, <2>1, Zenon
<1>5. Without(c \o q, M) = Without(c, M) \o Without(q, M)
  BY <1>2, WithoutConcat
<1>6. Without(w \o Without(q, S), M) = Without(c \o q, M)
  BY <1>2, <1>3, <1>4, <1>5
<1> QED BY <1>2, <1>6 DEF q

\* A longer reply may match more.
LEMMA ReplyGrows ==
  ASSUME NEW r \in Seq(Tokens), NEW k \in Tokens, NEW n \in Nat, NEW w \in Seq(Nat),
         Without(w, Matched(r, 1)) = Without(Count(n), Matched(r, 1))
  PROVE  Without(w, Matched(Append(r, k), 1)) = Without(Count(n), Matched(Append(r, k), 1))
<1> DEFINE M == Matched(r, 1)
           N == Matched(Append(r, k), 1)
<1>1. M \subseteq N
  BY MatchedGrows
<1>2. Count(n) \in Seq(Nat)
  BY DEF Count
<1>3. Without(w, M) = Without(Count(n), M)
  OBVIOUS
<1> HIDE DEF M, N
<1>4. Without(Without(w, M), N) = Without(w, N)
  BY <1>1, WithoutTwice
<1>5. Without(Without(Count(n), M), N) = Without(Count(n), N)
  BY <1>1, <1>2, WithoutTwice
<1>6. Without(w, N) = Without(Count(n), N)
  BY <1>3, <1>4, <1>5
<1> QED BY <1>6 DEF N

-----------------------------------------------------------------------------
(* What is spoken of the reply. *)

\* The end is queued last, only sentences have words, and once the answer is saved nothing
\* is on its way any more.
QueueInv ==
  /\ \A i \in 1..Len(sentence_queue) :
       /\ sentence_queue[i].kind = "end" => i = Len(sentence_queue) /\ worker = "done"
       /\ sentence_queue[i].kind # "sentence" => sentence_queue[i].words = <<>>
  /\ Answered => sentence_queue = <<>> /\ worker = "done"

Words == Said \o Queued

\* The inductive invariant: what was said and what is queued, together, rise through the
\* part of the reply behind the buffer, without a gap outside markup.
OnceInv ==
  /\ Rising(Words, 0, flushed)
  /\ stage = "asked" \/ Answered =>
       Without(Words, Matched(reply, 1)) = Without(Count(flushed), Matched(reply, 1))

LEMMA WordsTypes ==
  ASSUME Typed
  PROVE  Said \in Seq(Nat) /\ Queued \in Seq(Nat) /\ Words \in Seq(Nat)
BY SaidTypes, QueuedIsAllWords, ConcatTypes DEF Words

LEMMA OnceInit == Init => QueueInv /\ OnceInv
<1> SUFFICES ASSUME Init PROVE QueueInv /\ OnceInv
  OBVIOUS
<1>1. /\ reply = <<>> /\ sentence_queue = <<>> /\ phrases = <<>> /\ flushed = 0
      /\ history = <<Question>>
  BY DEF Init, SpeechInit
<1>2. QueueInv
  <2>1. ~Answered
    BY <1>1 DEF Answered
  <2> QED BY <1>1, <2>1 DEF QueueInv
<1>3. Said = <<>>
  BY <1>1, WithoutEmpty, FlattenEmpty DEF Said
<1>4. Queued = <<>>
  <2>1. [i \in DOMAIN sentence_queue |-> sentence_queue[i].words] = <<>>
    BY <1>1
  <2> QED BY <2>1, FlattenEmpty DEF Queued
<1>5. Words = <<>>
  BY <1>3, <1>4 DEF Words
<1>6. Count(flushed) = <<>>
  BY <1>1 DEF Count
<1> QED BY <1>2, <1>5, <1>6 DEF OnceInv, Rising

LEMMA QueueSame ==
  ASSUME QueueInv, sentence_queue' = sentence_queue, worker' \in {worker, "done"},
         Answered' => Answered
  PROVE  QueueInv'
BY DEF QueueInv

LEMMA QueueAdds ==
  ASSUME Typed, QueueInv, worker = "running", ~Answered', NEW more \in Seq(ItemSet),
         sentence_queue' = sentence_queue \o more,
         \A i \in 1..Len(more) :
           /\ more[i].kind = "end" => i = Len(more) /\ worker' = "done"
           /\ more[i].kind # "sentence" => more[i].words = <<>>
  PROVE  QueueInv'
<1>1. PICK n \in Nat, m \in Nat : n = Len(sentence_queue) /\ m = Len(more)
  BY DEF Typed
<1>2. sentence_queue \in Seq(ItemSet) /\ Len(sentence_queue') = n + m
  BY <1>1 DEF Typed
<1>3. ASSUME NEW i \in 1..(n + m)
      PROVE  /\ sentence_queue'[i].kind = "end" => i = n + m /\ worker' = "done"
             /\ sentence_queue'[i].kind # "sentence" => sentence_queue'[i].words = <<>>
  <2>1. CASE i <= n
    <3>1. i \in 1..n /\ sentence_queue'[i] = sentence_queue[i]
      BY <1>1, <1>2, <2>1
    <3> QED BY <1>1, <3>1 DEF QueueInv
  <2>2. CASE i > n
    <3>1. i - n \in 1..m /\ sentence_queue'[i] = more[i - n] /\ n + (i - n) = i
      BY <1>1, <1>2, <2>2
    <3> QED BY <1>1, <3>1
  <2>3. i <= n \/ i > n
    BY <1>1
  <2> QED BY <2>1, <2>2, <2>3, Zenon
<1> QED BY <1>2, <1>3 DEF QueueInv

LEMMA QueueTakes ==
  ASSUME Typed, QueueInv, ~Answered', worker' \in {worker, "done"}, sentence_queue # <<>>,
         sentence_queue' = Tail(sentence_queue)
  PROVE  QueueInv'
<1>1. PICK n \in Nat : n = Len(sentence_queue) /\ n > 0
  BY DEF Typed
<1>2. Len(sentence_queue') = n - 1 /\ \A i \in 1..(n - 1) : sentence_queue'[i] = sentence_queue[i + 1]
  BY <1>1 DEF Typed
<1>3. ASSUME NEW i \in 1..(n - 1)
      PROVE  /\ sentence_queue'[i].kind = "end" => i = n - 1 /\ worker' = "done"
             /\ sentence_queue'[i].kind # "sentence" => sentence_queue'[i].words = <<>>
  <2>1. i + 1 \in 1..n /\ (i + 1 = n => i = n - 1)
    BY <1>1
  <2> QED BY <1>1, <1>2, <2>1 DEF QueueInv
<1> QED BY <1>2, <1>3 DEF QueueInv

LEMMA OnceSame ==
  ASSUME OnceInv, Words' = Words, reply' = reply, flushed' = flushed,
         stage' = "asked" \/ Answered' => stage = "asked" \/ Answered
  PROVE  OnceInv'
BY DEF OnceInv

\* While the loop waits nothing is answered, and only an answer that is saved is one.
LEMMA NotAnswered ==
  ASSUME AnswerInv, stage = "asked"
  PROVE  ~Answered /\ (history' = history => ~Answered')
BY DEF AnswerInv, Answered, Question, OwnPhrases, OwnPhrase, Goodbye

LEMMA AnsweredSame ==
  ASSUME history' = history
  PROVE  Answered' = Answered
BY DEF Answered, OwnPhrases, OwnPhrase, Goodbye

LEMMA WordsAdded ==
  ASSUME Typed, Typed', phrases' = phrases, NEW more \in Seq(ItemSet),
         sentence_queue' = sentence_queue \o more
  PROVE  Words' = Words \o AllWords(more)
<1>1. Said' = Said /\ Queued' = Queued \o AllWords(more)
  BY SaidSame, QueuedGrows
<1>2. Said \in Seq(Nat) /\ Queued \in Seq(Nat) /\ AllWords(more) \in Seq(Nat)
  BY WordsTypes, AllWordsTypes
<1>3. Associate(Said, Queued, AllWords(more))
  BY <1>2, ConcatIsAssociative, Zenon
<1> QED BY <1>1, <1>3 DEF Words, Associate

\* A word that is taken from the queue is said.
LEMMA WordsMoved ==
  ASSUME Typed, Typed', sentence_queue # <<>>, sentence_queue' = Tail(sentence_queue),
         Said' = Said \o Head(sentence_queue).words
  PROVE  Words' = Words
<1>1. Queued = Head(sentence_queue).words \o Queued'
  BY QueuedShrinks
<1>2. PICK h \in ItemSet : h = Head(sentence_queue)
  BY HeadTypes DEF Typed
<1>3. Said \in Seq(Nat) /\ h.words \in Seq(Nat) /\ Queued' \in Seq(Nat)
  <2>1. h.words \in Seq(Positions)
    BY DEF ItemSet
  <2> QED BY <2>1, WordsTypes, QueuedIsAllWordsNext DEF Positions
<1>4. Associate(Said, h.words, Queued')
  BY <1>3, ConcatIsAssociative, Zenon
<1> QED BY <1>1, <1>2, <1>4 DEF Words, Associate

LEMMA WordsKept ==
  ASSUME Typed, Typed', sentence_queue # <<>>, sentence_queue' = Tail(sentence_queue),
         QueueInv, Head(sentence_queue).kind # "sentence", Said' = Said
  PROVE  Words' = Words
<1>1. Head(sentence_queue).words = <<>>
  <2>1. 1 \in 1..Len(sentence_queue) /\ Head(sentence_queue) = sentence_queue[1]
    BY DEF Typed
  <2> QED BY <2>1 DEF QueueInv
<1>2. Said' = Said \o Head(sentence_queue).words
  BY <1>1, WordsTypes, EmptyIsUnit
<1> QED BY <1>2, WordsMoved

LEMMA WordsSame ==
  ASSUME Said' = Said, sentence_queue' = sentence_queue
  PROVE  Words' = Words
BY DEF Words, Queued

LEMMA TokenOnce ==
  ASSUME Typed, Typed', AnswerInv, QueueInv, OnceInv, Token
  PROVE  QueueInv' /\ OnceInv'
<1>1. /\ worker = "running" /\ worker' = worker /\ history' = history /\ stage' = stage
      /\ phrases' = phrases
  BY DEF Token, Streaming, loopVars, speechVars
<1>2. ~Answered /\ ~Answered'
  BY <1>1, AnsweredSame DEF QueueInv
<1>3. PICK k \in Tokens : reply' = Append(reply, k)
  BY DEF Token
<1> DEFINE r == Append(reply, k)
           M == Matched(r, 1)
<1>4. reply \in Seq(Tokens) /\ flushed \in 0..Len(reply) /\ r \in Seq(Tokens) /\ Len(r) = Len(reply) + 1
  BY DEF Typed
<1>5. flushed \in Nat /\ flushed \in 0..Len(r) /\ flushed + 1 \in Positions
  BY <1>4 DEF Positions
<1>6. Words \in Seq(Nat) /\ Rising(Words, 0, flushed)
  BY WordsTypes DEF OnceInv
<1>7. stage = "asked" => Without(Words, M) = Without(Count(flushed), M)
  BY <1>4, <1>5, <1>6, ReplyGrows DEF OnceInv
<1>8. CASE Last(reply') = "stop"
  <2> DEFINE S == Matched(r, flushed + 1)
             new == Sanitized(r, flushed + 1)
             more == Sentences(new)
  <2>1. sentence_queue' = sentence_queue \o more /\ flushed' = Len(r)
    BY <1>3, <1>8 DEF Token
  <2>2. new = Without(Raw(r, flushed + 1), S)
    BY DEF Sanitized
  <2>3. new \in Seq(Positions)
    <3>1. flushed + 1 \in 1..(Len(r) + 1)
      BY <1>4, <1>5
    <3> QED BY <1>4, <3>1, SanitizedTypes
  <2>4. more \in Seq(ItemSet) /\ AllWords(more) = new
    BY <2>3, SentencesTypes, WordsOfSentences
  <2>5. Words' = Words \o new
    BY <1>1, <2>1, <2>4, WordsAdded
  <2>6. S \subseteq M
    BY <1>4, <1>5, MatchedFrom
  <2>7. Rising(Words \o new, 0, Len(r))
    BY <1>4, <1>5, <1>6, <2>2, BufferIsSpoken
  <2>8. stage = "asked" => Without(Words \o new, M) = Without(Count(Len(r)), M)
    <3> SUFFICES ASSUME stage = "asked"
                 PROVE  Without(Words \o new, M) = Without(Count(Len(r)), M)
      OBVIOUS
    <3>1. Without(Words, M) = Without(Count(flushed), M)
      BY <1>7
    <3> HIDE DEF S, M, new, r
    <3>2. Without(Words \o Without(Raw(r, flushed + 1), S), M) = Without(Count(Len(r)), M)
      BY <1>4, <1>5, <1>6, <2>6, <3>1, NothingIsLeftOut
    <3> QED BY <2>2, <3>2
  <2>9. OnceInv'
    BY <1>1, <1>2, <1>3, <2>1, <2>5, <2>7, <2>8 DEF OnceInv
  <2>10. \A i \in 1..Len(more) : more[i].kind = "sentence"
    BY DEF Sentences, Sentence
  <2>11. QueueInv'
    BY <1>1, <1>2, <2>1, <2>4, <2>10, QueueAdds
  <2> QED BY <2>9, <2>11
<1>9. CASE Last(reply') # "stop"
  <2>1. sentence_queue' = sentence_queue /\ flushed' = flushed
    BY <1>9 DEF Token
  <2>2. Words' = Words
    BY <1>1, <2>1, SaidSame, WordsSame
  <2>3. OnceInv'
    BY <1>1, <1>2, <1>3, <1>6, <1>7, <2>1, <2>2 DEF OnceInv
  <2> QED BY <1>1, <1>2, <2>1, <2>3, QueueSame
<1> QED BY <1>8, <1>9

LEMMA StreamEndsOnce ==
  ASSUME Typed, Typed', AnswerInv, QueueInv, OnceInv, StreamEnds
  PROVE  QueueInv' /\ OnceInv'
<1>1. /\ worker = "running" /\ worker' = "done" /\ history' = history /\ stage' = stage
      /\ phrases' = phrases /\ reply' = reply /\ flushed' = Len(reply)
      /\ sentence_queue' = sentence_queue \o Remainder \o <<Signal("end")>>
  BY DEF StreamEnds, loopVars, speechVars
<1>2. ~Answered /\ ~Answered'
  BY <1>1, AnsweredSame DEF QueueInv
<1> DEFINE S == {}
           M == Matched(reply, 1)
           new == Raw(reply, flushed + 1)
           end == Signal("end")
           more == Sentences(new) \o <<end>>
<1>3. reply \in Seq(Tokens) /\ flushed \in 0..Len(reply) /\ flushed + 1 \in 1..(Len(reply) + 1)
  BY DEF Typed
<1>4. Words \in Seq(Nat) /\ Rising(Words, 0, flushed)
  BY WordsTypes DEF OnceInv
<1>5. new \in Seq(Positions)
  BY <1>3, RawTypes
<1>6. new = Without(Raw(reply, flushed + 1), S)
  <2>1. \A i \in 1..Len(new) : new[i] \notin S
    OBVIOUS
  <2> HIDE DEF S
  <2> QED BY <1>5, <2>1, WithoutNone
<1>7. end \in ItemSet /\ end.words = <<>> /\ Sentences(new) \in Seq(ItemSet)
  BY <1>5, SignalTypes, SentencesTypes DEF Signal
<1>8. more \in Seq(ItemSet) /\ AllWords(more) = new
  BY <1>5, <1>7, NoWords, WordsOfSentences
<1>9. sentence_queue' = sentence_queue \o more
  <2>1. <<end>> \in Seq(ItemSet) /\ sentence_queue \in Seq(ItemSet)
    BY <1>7 DEF Typed
  <2>2. Associate(sentence_queue, Sentences(new), <<end>>)
    BY <1>7, <2>1, ConcatIsAssociative, Zenon
  <2> QED BY <1>1, <2>2 DEF Associate, Remainder
<1>10. Words' = Words \o new
  BY <1>1, <1>8, <1>9, WordsAdded
<1>11. Rising(Words \o new, 0, Len(reply))
  BY <1>3, <1>4, <1>6, BufferIsSpoken
<1>12. stage = "asked" => Without(Words \o new, M) = Without(Count(Len(reply)), M)
  BY <1>3, <1>4, <1>6, NothingIsLeftOut DEF OnceInv
<1>13. OnceInv'
  BY <1>1, <1>2, <1>10, <1>11, <1>12 DEF OnceInv
<1>14. \A i \in 1..Len(more) : /\ more[i].kind = "end" => i = Len(more)
                               /\ more[i].kind # "sentence" => more[i].words = <<>>
  <2>1. CASE new = <<>>
    BY <2>1 DEF Sentences, Signal
  <2>2. CASE new # <<>>
    BY <2>2 DEF Sentences, Sentence, Signal
  <2> QED BY <2>1, <2>2
<1>15. QueueInv'
  BY <1>1, <1>2, <1>8, <1>9, <1>14, QueueAdds
<1> QED BY <1>13, <1>15

\* The other steps of the worker queue nothing that has words.
LEMMA NoWordsAdded ==
  ASSUME Typed, Typed', QueueInv, OnceInv, worker = "running",
         UNCHANGED <<phrases, history, stage, reply, flushed>>,
         NEW q \in Seq(ItemSet), NEW x \in ItemSet, x.words = <<>>,
         \A i \in 1..Len(q) : q[i].kind # "end" /\ q[i].words = <<>>, AllWords(q) = <<>>,
         x.kind = "end" => worker' = "done",
         sentence_queue' = sentence_queue \o (q \o <<x>>)
  PROVE  QueueInv' /\ OnceInv'
<1>1. ~Answered /\ ~Answered'
  <2>1. history' = history
    OBVIOUS
  <2> QED BY <2>1, AnsweredSame DEF QueueInv
<1> DEFINE more == q \o <<x>>
<1>2. more \in Seq(ItemSet) /\ AllWords(more) = <<>>
  BY NoWords
<1>3. Words' = Words \o <<>>
  BY <1>2, WordsAdded
<1>4. Words' = Words
  BY <1>3, WordsTypes, EmptyIsUnit
<1>5. OnceInv'
  BY <1>1, <1>4, OnceSame
<1>6. \A i \in 1..Len(more) : /\ more[i].kind = "end" => i = Len(more) /\ worker' = "done"
                              /\ more[i].kind # "sentence" => more[i].words = <<>>
  OBVIOUS
<1>7. QueueInv'
  BY <1>1, <1>2, <1>6, QueueAdds
<1> QED BY <1>5, <1>7

LEMMA WorkerOnce ==
  ASSUME Typed, Typed', AnswerInv, QueueInv, OnceInv, WorkerStep
  PROVE  QueueInv' /\ OnceInv'
<1>1. CASE Token
  BY <1>1, TokenOnce
<1>2. CASE StreamEnds
  BY <1>2, StreamEndsOnce
<1>3. AllWords(<<>>) = <<>> /\ <<>> \in Seq(ItemSet)
  <2>1. <<>> \in Seq(ItemSet)
    OBVIOUS
  <2>2. <<>> \in Seq(Positions) /\ Sentences(<<>>) = <<>>
    BY DEF Sentences
  <2> QED BY <2>1, <2>2, WordsOfSentences
<1>4. ASSUME UNCHANGED <<phrases, history, stage, reply, flushed, sentence_queue, worker>>
      PROVE  QueueInv' /\ OnceInv'
  BY <1>4, SaidSame, WordsSame, AnsweredSame, QueueSame, OnceSame
<1>5. CASE ToolDelta
  BY <1>4, <1>5 DEF ToolDelta, Streaming, loopVars, speechVars
<1>6. CASE NamelessDelta
  <2> DEFINE error == Signal("error")
             end == Signal("end")
             q == <<error>>
  <2>1. /\ worker = "running" /\ worker' = "done"
        /\ UNCHANGED <<phrases, history, stage, reply, flushed>>
        /\ sentence_queue' = sentence_queue \o <<error, end>>
    BY <1>6 DEF NamelessDelta, Streaming, loopVars, speechVars
  <2>2. /\ error \in ItemSet /\ error.kind = "error" /\ error.words = <<>>
        /\ end \in ItemSet /\ end.kind = "end" /\ end.words = <<>>
    BY SignalTypes DEF Signal
  <2> HIDE DEF error, end
  <2>3. q \in Seq(ItemSet) /\ AllWords(q) = <<>> /\ Len(q) = 1 /\ q[1] = error
    BY <2>2, AllWordsOne
  <2>4. \A i \in 1..Len(q) : q[i].kind # "end" /\ q[i].words = <<>>
    BY <2>2, <2>3
  <2>5. <<error, end>> = q \o <<end>>
    <3>1. /\ <<error, end>> \in Seq(ItemSet) /\ Len(<<error, end>>) = 2
          /\ <<error, end>>[1] = error /\ <<error, end>>[2] = end
      BY <2>2
    <3>2. /\ q \o <<end>> \in Seq(ItemSet) /\ Len(q \o <<end>>) = 2
          /\ (q \o <<end>>)[1] = error /\ (q \o <<end>>)[2] = end
      BY <2>2
    <3> HIDE DEF q
    <3>3. \A i \in 1..2 : <<error, end>>[i] = (q \o <<end>>)[i]
      BY <3>1, <3>2
    <3> QED BY <3>1, <3>2, <3>3, SameSequence
  <2> HIDE DEF q
  <2> QED BY <2>1, <2>2, <2>3, <2>4, <2>5, NoWordsAdded
<1>7. CASE FinishReason
  <2>1. /\ worker = "running" /\ worker' = worker
        /\ UNCHANGED <<phrases, history, stage, reply, flushed>>
    BY <1>7 DEF FinishReason, Streaming, loopVars, speechVars
  <2>2. CASE sentence_queue' = sentence_queue
    BY <1>4, <2>1, <2>2
  <2>3. CASE sentence_queue' = Append(sentence_queue, Calls(tool_calls_acc))
    <3> DEFINE x == Calls(tool_calls_acc)
    <3>1. x \in ItemSet /\ x.words = <<>> /\ x.kind # "end"
      BY DEF Typed, Calls, ItemSet
    <3> HIDE DEF x
    <3>2. <<x>> = <<>> \o <<x>> /\ sentence_queue' = sentence_queue \o <<x>>
      BY <2>3, <3>1, AppendTypes DEF Typed, x
    <3>3. \A i \in 1..Len(<<>>) : <<>>[i].kind # "end" /\ <<>>[i].words = <<>>
      OBVIOUS
    <3> QED BY <1>3, <2>1, <3>1, <3>2, <3>3, NoWordsAdded
  <2> QED BY <1>7, <2>2, <2>3 DEF FinishReason
<1> QED BY <1>1, <1>2, <1>5, <1>6, <1>7 DEF WorkerStep

\* An item without words is taken, and nothing is answered after it.
LEMMA OtherTaken ==
  ASSUME Typed, Typed', AnswerInv, QueueInv, OnceInv, NEW kind, Get(kind), kind # "sentence",
         Said' = Said, worker' \in {worker, "done"}, ~Answered', stage' # "asked"
  PROVE  QueueInv' /\ OnceInv'
<1>1. /\ sentence_queue # <<>> /\ sentence_queue' = Tail(sentence_queue)
      /\ Head(sentence_queue).kind # "sentence" /\ reply' = reply /\ flushed' = flushed
  BY DEF Get
<1>2. Words' = Words
  BY <1>1, WordsKept
<1>3. OnceInv'
  BY <1>1, <1>2, OnceSame
<1>4. QueueInv'
  BY <1>1, QueueTakes
<1> QED BY <1>3, <1>4

LEMMA ApologyOnce ==
  ASSUME Typed, Typed', AnswerInv, QueueInv, OnceInv, stage = "asked", Apologise
  PROVE  Said' = Said /\ ~Answered' /\ stage' # "asked" /\ worker' = worker
<1>1. Said' = Said
  BY ApologyKeepsAnswer
<1>2. history' = history /\ stage' = "over" /\ worker' = worker
  BY DEF Apologise
<1> QED BY <1>1, <1>2, NotAnswered

LEMMA LoopOnce ==
  ASSUME Typed, Typed', AnswerInv, QueueInv, OnceInv, LoopStep
  PROVE  QueueInv' /\ OnceInv'
<1>1. CASE NextSentence
  <2>1. /\ stage = "asked" /\ sentence_queue # <<>> /\ sentence_queue' = Tail(sentence_queue)
        /\ UNCHANGED <<stage, history, worker, reply, flushed>>
    BY <1>1 DEF NextSentence, Get
  <2>2. Say(Head(sentence_queue).words) /\ Head(sentence_queue).words \in Seq(Positions)
    BY <1>1, GetTyped DEF NextSentence, Saying, ItemSet
  <2>3. Words' = Words
    BY <2>1, <2>2, SaidGrows, WordsMoved
  <2>4. OnceInv'
    BY <2>1, <2>3, OnceSame
  <2>5. QueueInv'
    BY <2>1, NotAnswered, QueueTakes
  <2> QED BY <2>4, <2>5
<1>2. CASE SaveAnswer
  <2>1. /\ stage = "asked" /\ sentence_queue # <<>> /\ sentence_queue' = Tail(sentence_queue)
        /\ Head(sentence_queue).kind = "end" /\ UNCHANGED <<phrases, worker, reply, flushed>>
    BY <1>2 DEF SaveAnswer, Get, speechVars
  <2>2. Words' = Words
    BY <2>1, SaidSame, WordsKept
  <2>3. OnceInv'
    BY <2>1, <2>2, OnceSame
  <2>4. 1 = Len(sentence_queue) /\ worker = "done"
    <3>1. 1 \in 1..Len(sentence_queue) /\ Head(sentence_queue) = sentence_queue[1]
      BY <2>1 DEF Typed
    <3> QED BY <2>1, <3>1 DEF QueueInv
  <2>5. sentence_queue' = <<>>
    <3>1. sentence_queue' \in Seq(ItemSet) /\ Len(sentence_queue') = 0
      BY <2>1, <2>4 DEF Typed
    <3> QED BY <3>1, NoElements
  <2>6. QueueInv'
    BY <2>1, <2>4, <2>5 DEF QueueInv
  <2> QED BY <2>3, <2>6
<1>3. CASE NoAnswer
  <2>1. Get("end") /\ stage = "asked" /\ Apologise
    BY <1>3 DEF NoAnswer, Get
  <2> QED BY <2>1, ApologyOnce, OtherTaken
<1>4. CASE WorkerFailed
  <2>1. Get("error") /\ stage = "asked" /\ Apologise
    BY <1>4 DEF WorkerFailed, Get
  <2> QED BY <2>1, ApologyOnce, OtherTaken
<1>5. CASE ToolsCalled
  <2>1. Get("calls") /\ stage = "asked" /\ Apologise
    BY <1>5 DEF ToolsCalled, Get
  <2> QED BY <2>1, ApologyOnce, OtherTaken
<1>6. CASE EndConversation
  <2>1. /\ Get("calls") /\ stage = "asked" /\ stage' = "ended" /\ worker' = "done" /\ Say(Goodbye)
        /\ history' = Append(history, Goodbye)
    BY <1>6 DEF EndConversation, Get, Farewell
  <2>2. Said' = Said
    <3>1. Goodbye \in OwnPhrases
      BY DEF OwnPhrases
    <3> QED BY <2>1, <3>1, SaidKept
  <2>3. ~Answered'
    <3>1. history'[2] = Goodbye
      <4>1. history = <<Question>>
        BY <2>1 DEF AnswerInv
      <4> QED BY <2>1, <4>1
    <3> QED BY <3>1 DEF Answered, OwnPhrases, OwnPhrase, Goodbye
  <2> QED BY <2>1, <2>2, <2>3, OtherTaken
<1>7. CASE KeepWaiting \/ GiveUp
  <2>1. /\ stage = "asked" /\ UNCHANGED <<sentence_queue, reply, flushed, worker, history>>
        /\ Say(OwnPhrase)
    BY <1>7 DEF KeepWaiting, GiveUp, Waited, replyVars, Apologise, Saying
  <2>2. Said' = Said
    <3>1. OwnPhrase \in OwnPhrases
      BY DEF OwnPhrases
    <3> QED BY <2>1, <3>1, SaidKept
  <2>3. Words' = Words
    BY <2>1, <2>2, WordsSame
  <2> QED BY <2>1, <2>3, AnsweredSame, QueueSame, OnceSame
<1>8. CASE Interrupt
  <2>1. /\ stage = "over" /\ stage' = stage /\ worker' = "done" /\ sentence_queue' = <<>>
        /\ UNCHANGED <<phrases, reply, flushed, history>>
    BY <1>8 DEF Interrupt, loopVars
  <2>2. QueueInv'
    BY <2>1 DEF QueueInv
  <2>3. Said' = Said /\ Answered' = Answered
    BY <2>1, SaidSame, AnsweredSame
  <2>4. CASE Answered
    <3>1. sentence_queue' = sentence_queue
      BY <2>1, <2>4 DEF QueueInv
    <3>2. Words' = Words
      BY <2>3, <3>1, WordsSame
    <3> QED BY <2>1, <2>2, <2>4, <3>2, OnceSame
  <2>5. CASE ~Answered
    <3>1. Queued' = <<>>
      <4>1. [i \in DOMAIN sentence_queue' |-> sentence_queue'[i].words] = <<>>
        BY <2>1
      <4> QED BY <4>1, FlattenEmpty DEF Queued
    <3>2. Words' = Said
      BY <2>3, <3>1, WordsTypes, EmptyIsUnit DEF Words
    <3>3. Rising(Said, 0, flushed)
      <4>1. Said \in Seq(Nat) /\ Queued \in Seq(Nat) /\ flushed \in Nat /\ 0 \in Nat
        BY WordsTypes DEF Typed
      <4>2. Rising(Said \o Queued, 0, flushed)
        BY DEF OnceInv, Words
      <4> QED BY <4>1, <4>2, RisingBeginning
    <3> QED BY <2>1, <2>2, <2>3, <2>5, <3>2, <3>3 DEF OnceInv
  <2> QED BY <2>4, <2>5
<1> QED BY <1>1, <1>2, <1>3, <1>4, <1>5, <1>6, <1>7, <1>8 DEF LoopStep

LEMMA OnceNext ==
  ASSUME Typed, Typed', AnswerInv, QueueInv, OnceInv, [Next]_vars
  PROVE  QueueInv' /\ OnceInv'
<1>1. ASSUME UNCHANGED <<phrases, history, stage, reply, flushed, sentence_queue, worker>>
      PROVE  QueueInv' /\ OnceInv'
  BY <1>1, SaidSame, WordsSame, AnsweredSame, QueueSame, OnceSame
<1>2. CASE SpeechStep /\ UNCHANGED <<replyVars, loopVars, sentence_queue>>
  <2>1. phrases' = phrases
    BY <1>2 DEF SpeechStep, TakePhrase, ReceiveChunk, ResponseEnds, SynthesisFails, PushPiece,
                Recv, Worker
  <2> QED BY <1>1, <1>2, <2>1 DEF loopVars, replyVars
<1>3. CASE UNCHANGED vars
  BY <1>1, <1>3 DEF vars, speechVars, loopVars, replyVars
<1> QED BY <1>2, <1>3, WorkerOnce, LoopOnce DEF Next

\* However the reply is split into tokens, sentences and markup, what is spoken of it is in
\* order and without repetition, and no word outside markup is left out while the answer is
\* being given or after it was saved (steps.py:461-485, 543-545, 647-648).
THEOREM ReplyIsSpokenOnceAlways == Spec => []ReplyIsSpokenOnce
<1> DEFINE Inv == Typed /\ AnswerInv /\ QueueInv /\ OnceInv
<1>1. Init => Inv
  BY TypedInit, AnswerInit, OnceInit
<1>2. Inv /\ [Next]_vars => Inv'
  BY TypedNext, AnswerNext, OnceNext
<1>3. Inv => ReplyIsSpokenOnce
  <2> SUFFICES ASSUME Inv PROVE ReplyIsSpokenOnce
    OBVIOUS
  <2>1. DOMAIN Words = 1..Len(Words)
    BY WordsTypes
  <2>2. \A i \in DOMAIN Words : i > 1 => Words[i - 1] < Words[i]
    BY <2>1 DEF OnceInv, Rising
  <2>3. stage = "asked" \/ Answered => Without(Words, Matched(reply, 1)) = Plain(flushed)
    BY DEF OnceInv, Plain, Count
  <2> QED BY <2>2, <2>3 DEF ReplyIsSpokenOnce, Words
<1> QED BY <1>1, <1>2, <1>3, PTL DEF Spec

-----------------------------------------------------------------------------
(* The answer that is saved. *)

Before(q, i, kind) == \E j \in 1..(i - 1) : q[j].kind = kind
EndIsWhole(i) ==
  sentence_queue[i].kind = "end" =>
    \/ Before(sentence_queue, i, "error")
    \/ flushed = Len(reply) /\ (finish = "tool_calls" => Before(sentence_queue, i, "calls"))

\* The inductive invariant: the loop comes to an end that is queued only after the error or
\* the calls that were queued before it, and otherwise behind all the reply.
WholeInv ==
  /\ Answered => flushed = Len(reply) /\ finish # "tool_calls"
  /\ stage = "asked" =>
       /\ \A i \in 1..Len(sentence_queue) : EndIsWhole(i)
       /\ worker = "running" /\ finish = "tool_calls" =>
            \E i \in 1..Len(sentence_queue) : sentence_queue[i].kind = "calls"

LEMMA WholeInit == Init => WholeInv
BY ReplyAssumption DEF Init, WholeInv, Answered, ReplyAssumption

LEMMA WholeSame ==
  ASSUME WholeInv, UNCHANGED <<sentence_queue, reply, flushed, finish, worker, history, stage>>
  PROVE  WholeInv'
BY AnsweredSame DEF WholeInv, EndIsWhole, Before

\* Where the elements of two queues end up in one.
LEMMA JoinedItems ==
  ASSUME NEW q \in Seq(ItemSet), NEW more \in Seq(ItemSet)
  PROVE  /\ Len(q \o more) = Len(q) + Len(more)
         /\ \A i \in 1..Len(q) : (q \o more)[i] = q[i]
         /\ \A i \in 1..Len(more) : (q \o more)[Len(q) + i] = more[i]
OBVIOUS

LEMMA WorkerWhole ==
  ASSUME Typed, AnswerInv, QueueInv, WholeInv, WorkerStep
  PROVE  WholeInv'
<1>1. PICK q \in Seq(ItemSet), n \in Nat : q = sentence_queue /\ n = Len(q)
  BY DEF Typed
<1>2. worker = "running" /\ UNCHANGED <<stage, history>>
  BY DEF WorkerStep, Token, ToolDelta, NamelessDelta, FinishReason, StreamEnds, Streaming, loopVars
<1>3. ~Answered' /\ \A i \in 1..n : q[i].kind # "end"
  BY <1>1, <1>2, AnsweredSame DEF QueueInv
<1>4. None # "tool_calls"
  BY ReplyAssumption DEF ReplyAssumption
\* Nothing but sentences or calls is added.
<1>5. ASSUME NEW more \in Seq(ItemSet), sentence_queue' = q \o more,
             \A i \in 1..Len(more) : more[i].kind # "end",
             finish' = "tool_calls" => more # <<>> /\ more[1].kind = "calls"
      PROVE  WholeInv'
  <2>1. PICK m \in Nat : m = Len(more)
    OBVIOUS
  <2>2. /\ Len(q \o more) = n + m /\ \A i \in 1..n : (q \o more)[i] = q[i]
        /\ \A i \in 1..m : (q \o more)[n + i] = more[i]
    BY <1>1, <2>1, JoinedItems
  <2>3. ASSUME NEW i \in 1..(n + m) PROVE (q \o more)[i].kind # "end"
    <3>1. CASE i <= n
      BY <1>1, <1>3, <2>2, <3>1
    <3>2. CASE i > n
      <4>1. i - n \in 1..m /\ n + (i - n) = i
        BY <1>1, <2>1, <3>2
      <4>2. (q \o more)[i] = more[i - n]
        BY <2>2, <4>1
      <4> QED BY <1>5, <2>1, <4>1, <4>2
    <3> QED BY <1>1, <2>1, <3>1, <3>2
  <2>4. ASSUME finish' = "tool_calls" PROVE \E i \in 1..(n + m) : (q \o more)[i].kind = "calls"
    <3>1. 1 \in 1..m /\ n + 1 \in 1..(n + m)
      BY <1>1, <1>5, <2>1, <2>4
    <3> QED BY <1>5, <2>2, <2>4, <3>1
  <2> QED BY <1>3, <1>5, <2>2, <2>3, <2>4 DEF WholeInv, EndIsWhole
<1>6. ASSUME sentence_queue' = q, finish' # "tool_calls" PROVE WholeInv'
  BY <1>1, <1>3, <1>6 DEF WholeInv, EndIsWhole
<1>7. CASE Token
  <2>1. reply' \in Seq(Tokens) /\ flushed + 1 \in 1..(Len(reply') + 1)
    BY <1>7 DEF Token, Typed
  <2>2. finish' # "tool_calls"
    BY <1>4, <1>7 DEF Token, Streaming
  <2>3. CASE Last(reply') = "stop"
    <3> DEFINE words == Sanitized(reply', flushed + 1)
    <3>1. words \in Seq(Positions)
      BY <2>1, SanitizedTypes
    <3>2. sentence_queue' = q \o Sentences(words)
      BY <1>1, <1>7, <2>3 DEF Token
    <3> HIDE DEF words
    <3>3. Sentences(words) \in Seq(ItemSet) /\ \A i \in 1..Len(Sentences(words)) : Sentences(words)[i].kind # "end"
      BY <3>1, SentencesTypes DEF Sentences, Sentence
    <3> QED BY <1>5, <2>2, <3>2, <3>3
  <2>4. CASE Last(reply') # "stop"
    BY <1>1, <1>6, <1>7, <2>2, <2>4 DEF Token
  <2> QED BY <2>3, <2>4
<1>8. CASE ToolDelta
  BY <1>1, <1>4, <1>6, <1>8 DEF ToolDelta, Streaming
<1>9. CASE FinishReason
  <2>1. CASE finish' = "stop" /\ UNCHANGED sentence_queue
    BY <1>1, <1>6, <2>1
  <2>2. CASE sentence_queue' = Append(sentence_queue, Calls(tool_calls_acc))
    <3>1. Calls(tool_calls_acc) \in ItemSet /\ Calls(tool_calls_acc).kind = "calls"
      BY DEF Calls, ItemSet, Typed
    <3>2. PICK item \in ItemSet : item = Calls(tool_calls_acc)
      BY <3>1
    <3>3. sentence_queue' = q \o <<item>> /\ <<item>> \in Seq(ItemSet)
      BY <1>1, <2>2, <3>2
    <3>4. PICK more \in Seq(ItemSet) : more = <<item>>
      BY <3>3
    <3>5. Len(more) = 1 /\ more[1].kind = "calls"
      BY <3>1, <3>2, <3>4
    <3>6. more # <<>> /\ \A i \in 1..Len(more) : more[i].kind # "end"
      BY <3>5
    <3>7. sentence_queue' = q \o more
      BY <3>3, <3>4
    <3> QED BY <1>5, <3>5, <3>6, <3>7
  <2> QED BY <1>9, <2>1, <2>2 DEF FinishReason
<1>10. CASE NamelessDelta
  <2>1. /\ sentence_queue' = q \o <<Signal("error"), Signal("end")>> /\ worker' = "done"
    BY <1>1, <1>10 DEF NamelessDelta
  <2>2. PICK more \in Seq(ItemSet) : more = <<Signal("error"), Signal("end")>>
    <3>1. PICK a \in ItemSet, b \in ItemSet : a = Signal("error") /\ b = Signal("end")
      BY SignalTypes
    <3>2. <<a, b>> \in Seq(ItemSet)
      OBVIOUS
    <3> QED BY <3>1, <3>2
  <2>3. Len(more) = 2 /\ more[1].kind = "error"
    BY <2>2 DEF Signal
  <2>4. /\ Len(sentence_queue') = n + 2 /\ \A i \in 1..n : sentence_queue'[i] = q[i]
        /\ sentence_queue'[n + 1].kind = "error"
    BY <1>1, <2>1, <2>2, <2>3, JoinedItems
  <2>5. ASSUME NEW i \in 1..(n + 2), sentence_queue'[i].kind = "end"
        PROVE  Before(sentence_queue', i, "error")
    <3>1. i # n + 1 /\ ~(i \in 1..n)
      BY <1>3, <2>4, <2>5
    <3>2. n + 1 \in 1..(i - 1)
      BY <3>1
    <3> QED BY <2>4, <3>2 DEF Before
  <2> QED BY <1>3, <2>1, <2>4, <2>5 DEF WholeInv, EndIsWhole
<1>11. CASE StreamEnds
  <2>1. /\ sentence_queue' = (q \o Remainder) \o <<Signal("end")>> /\ worker' = "done"
        /\ flushed' = Len(reply') /\ finish' = finish
    <3>1. UNCHANGED reply /\ sentence_queue' = sentence_queue \o Remainder \o <<Signal("end")>>
      BY <1>11 DEF StreamEnds
    <3> QED BY <1>1, <1>11, <3>1 DEF StreamEnds
  <2>2. PICK rest \in Seq(ItemSet), m \in Nat :
          /\ rest = Remainder /\ m = Len(rest) /\ \A i \in 1..m : rest[i].kind = "sentence"
    <3>1. flushed + 1 \in 1..(Len(reply) + 1) /\ reply \in Seq(Tokens)
      BY DEF Typed
    <3> DEFINE words == Raw(reply, flushed + 1)
    <3>2. words \in Seq(Positions)
      BY <3>1, RawTypes
    <3> HIDE DEF words
    <3>3. Sentences(words) \in Seq(ItemSet) /\ \A i \in 1..Len(Sentences(words)) : Sentences(words)[i].kind = "sentence"
      BY <3>2, SentencesTypes DEF Sentences, Sentence
    <3>4. Remainder = Sentences(words)
      BY DEF Remainder, words
    <3> QED BY <3>3, <3>4
  <2>3. PICK both \in Seq(ItemSet) : both = q \o rest
    BY ConcatTypes
  <2>4. /\ Len(both) = n + m /\ \A i \in 1..n : both[i] = q[i]
        /\ \A i \in 1..m : both[n + i] = rest[i]
    BY <1>1, <2>2, <2>3, JoinedItems
  <2>5. <<Signal("end")>> \in Seq(ItemSet) /\ Len(<<Signal("end")>>) = 1
    BY SignalTypes
  <2>6. /\ Len(sentence_queue') = n + m + 1
        /\ \A i \in 1..(n + m) : sentence_queue'[i] = both[i]
    BY <2>1, <2>2, <2>3, <2>4, <2>5, JoinedItems
  <2>7. ASSUME NEW i \in 1..(n + m + 1), sentence_queue'[i].kind = "end", finish' = "tool_calls", stage = "asked"
        PROVE  Before(sentence_queue', i, "calls")
    <3>1. PICK k \in 1..n : q[k].kind = "calls"
      BY <1>1, <1>2, <2>1, <2>7 DEF WholeInv
    <3>2. \A j \in 1..n : sentence_queue'[j] = q[j]
      BY <2>4, <2>6
    <3>3. ~(i \in 1..n)
      BY <1>3, <2>7, <3>2
    <3>4. k \in 1..(i - 1)
      BY <3>3
    <3> QED BY <3>1, <3>2, <3>4 DEF Before
  <2> QED BY <1>2, <1>3, <2>1, <2>6, <2>7 DEF WholeInv, EndIsWhole
<1> QED BY <1>7, <1>8, <1>9, <1>10, <1>11 DEF WorkerStep

LEMMA LoopWhole ==
  ASSUME Typed, AnswerInv, QueueInv, WholeInv, LoopStep
  PROVE  WholeInv'
<1>1. ASSUME stage = "asked", stage' # "asked", history' = history PROVE WholeInv'
  BY <1>1, NotAnswered DEF WholeInv
<1>2. ASSUME stage = "asked", Apologise PROVE WholeInv'
  BY <1>1, <1>2 DEF Apologise
<1>3. PICK q \in Seq(ItemSet), n \in Nat : q = sentence_queue /\ n = Len(q)
  BY DEF Typed
<1>4. CASE NextSentence
  <2>1. /\ stage = "asked" /\ q # <<>> /\ Head(q).kind = "sentence" /\ sentence_queue' = Tail(q)
        /\ UNCHANGED <<stage, history, worker, reply, flushed, finish>>
    BY <1>3, <1>4 DEF NextSentence, Get
  <2>2. /\ n > 0 /\ q[1].kind = "sentence" /\ Len(sentence_queue') = n - 1
        /\ \A i \in 1..(n - 1) : sentence_queue'[i] = q[i + 1]
    BY <1>3, <2>1
  <2>3. ASSUME NEW i \in 1..n, NEW kind, kind # "sentence", Before(q, i, kind)
        PROVE  Before(sentence_queue', i - 1, kind)
    <3>1. PICK j \in 1..(i - 1) : q[j].kind = kind
      BY <2>3 DEF Before
    <3>2. j # 1
      BY <2>2, <2>3, <3>1
    <3>3. j - 1 \in 1..((i - 1) - 1) /\ j - 1 \in 1..(n - 1) /\ (j - 1) + 1 = j
      BY <3>1, <3>2
    <3>4. sentence_queue'[j - 1] = q[j]
      BY <2>2, <3>3
    <3> QED BY <3>1, <3>3, <3>4 DEF Before
  <2>4. ASSUME NEW i \in 1..(n - 1) PROVE EndIsWhole(i)'
    <3>1. i + 1 \in 1..n /\ (i + 1) - 1 = i /\ sentence_queue'[i] = q[i + 1]
      BY <2>2
    <3>2. EndIsWhole(i + 1)
      BY <1>3, <2>1, <3>1 DEF WholeInv
    <3>3. /\ Before(q, i + 1, "error") => Before(sentence_queue', i, "error")
          /\ Before(q, i + 1, "calls") => Before(sentence_queue', i, "calls")
      BY <2>3, <3>1
    <3> QED BY <1>3, <2>1, <3>1, <3>2, <3>3 DEF EndIsWhole
  <2>5. ASSUME worker' = "running", finish' = "tool_calls"
        PROVE  \E i \in 1..(n - 1) : sentence_queue'[i].kind = "calls"
    <3>1. PICK k \in 1..n : q[k].kind = "calls"
      BY <1>3, <2>1, <2>5 DEF WholeInv
    <3>2. k # 1
      BY <2>2, <3>1
    <3>3. k - 1 \in 1..(n - 1) /\ (k - 1) + 1 = k
      BY <3>2
    <3> QED BY <2>2, <3>1, <3>3
  <2>6. ~Answered'
    BY <2>1, NotAnswered
  <2> QED BY <2>2, <2>4, <2>5, <2>6 DEF WholeInv
<1>5. CASE SaveAnswer
  <2>1. /\ stage = "asked" /\ stage' = "over" /\ q # <<>> /\ Head(q).kind = "end"
        /\ UNCHANGED <<reply, flushed, finish>>
    BY <1>3, <1>5 DEF SaveAnswer, Get
  <2>2. 1 \in 1..n /\ q[1].kind = "end" /\ ~Before(q, 1, "error") /\ ~Before(q, 1, "calls")
    BY <1>3, <2>1 DEF Before
  <2>3. EndIsWhole(1)
    BY <1>3, <2>1, <2>2 DEF WholeInv
  <2>4. flushed = Len(reply) /\ finish # "tool_calls"
    BY <1>3, <2>2, <2>3 DEF EndIsWhole
  <2> QED BY <2>1, <2>4 DEF WholeInv
<1>6. CASE NoAnswer \/ WorkerFailed \/ ToolsCalled \/ GiveUp
  BY <1>2, <1>6 DEF NoAnswer, WorkerFailed, ToolsCalled, GiveUp, Get, Waited
<1>7. CASE EndConversation
  <2>1. /\ stage' = "ended" /\ history' = Append(history, Goodbye) /\ history = <<Question>>
    BY <1>7 DEF EndConversation, Get, AnswerInv
  <2>2. history'[2] = Goodbye
    BY <2>1
  <2>3. ~Answered'
    BY <2>2 DEF Answered, OwnPhrases, OwnPhrase, Goodbye
  <2> QED BY <2>1, <2>3 DEF WholeInv
<1>8. CASE KeepWaiting
  BY <1>8, WholeSame DEF KeepWaiting, Waited, replyVars
<1>9. CASE Interrupt
  <2>1. stage = "over" /\ stage' = "over" /\ UNCHANGED <<reply, flushed, finish, history>>
    BY <1>9 DEF Interrupt, loopVars
  <2> QED BY <2>1, AnsweredSame DEF WholeInv
<1> QED BY <1>4, <1>5, <1>6, <1>7, <1>8, <1>9 DEF LoopStep

\* What the model will be told it answered is what was handed to the tts stage, with every
\* word outside markup that arrived before the stream ended, and nothing is saved of a reply
\* that went on to tools; an answer that is not saved ended with an apology
\* (steps.py:591-669).
THEOREM AnswerIsSavedWholeAlways == Spec => []AnswerIsSavedWhole
<1> DEFINE Inv == Typed /\ AnswerInv /\ QueueInv /\ OnceInv /\ WholeInv
<1>1. Init => Inv
  BY TypedInit, AnswerInit, OnceInit, WholeInit
<1>2. Inv /\ [Next]_vars => Inv'
  <2> SUFFICES ASSUME Inv, [Next]_vars PROVE Inv'
    OBVIOUS
  <2>1. Typed' /\ AnswerInv' /\ QueueInv' /\ OnceInv'
    BY TypedNext, AnswerNext, OnceNext
  <2>2. WholeInv'
    <3>1. CASE SpeechStep /\ UNCHANGED <<replyVars, loopVars, sentence_queue>>
      BY <3>1, WholeSame DEF replyVars, loopVars
    <3>2. CASE UNCHANGED vars
      BY <3>2, WholeSame DEF vars, replyVars, loopVars
    <3> QED BY <3>1, <3>2, WorkerWhole, LoopWhole DEF Next
  <2> QED BY <2>1, <2>2
<1>3. Inv => AnswerIsSavedWhole
  <2> SUFFICES ASSUME Inv PROVE AnswerIsSavedWhole
    OBVIOUS
  <2>1. ASSUME stage = "over", ~Answered PROVE Last(phrases) = OwnPhrase
    BY <2>1 DEF AnswerInv, Answered
  <2>2. ASSUME Answered PROVE history[2] = Said
    BY <2>2 DEF AnswerInv, Answered, OwnPhrases, Question
  <2>3. ASSUME Answered PROVE Without(Said, Matched(reply, 1)) = Plain(Len(reply))
    <3>1. sentence_queue = <<>> /\ flushed = Len(reply)
      BY <2>3 DEF QueueInv, WholeInv
    <3>2. Queued = <<>>
      <4>1. [i \in DOMAIN sentence_queue |-> sentence_queue[i].words] = <<>>
        BY <3>1
      <4> QED BY <4>1, FlattenEmpty DEF Queued
    <3>3. Words = Said
      BY <3>2, WordsTypes, EmptyIsUnit DEF Words
    <3> QED BY <2>3, <3>1, <3>3 DEF OnceInv, Plain, Count
  <2>4. Answered => finish # "tool_calls"
    BY DEF WholeInv
  <2> QED BY <2>1, <2>2, <2>3, <2>4 DEF AnswerIsSavedWhole
<1> QED BY <1>1, <1>2, <1>3, PTL DEF Spec
=============================================================================
