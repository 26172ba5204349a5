--------------------------- MODULE FiniteInduction ---------------------------
(***************************************************************************)
(* Induction and recursion over the places of a list, stated with sets and *)
(* functions where the library's theorems take operators: what the other   *)
(* proofs need to reason about a command list of any length.               *)
(***************************************************************************)
EXTENDS Integers, SequencesExt, SequenceTheorems, TLAPS, WellFoundedInduction,
        NaturalsInduction

\* A set of natural numbers has a least one.
LEMMA Least ==
    ASSUME NEW S \in SUBSET Nat, S # {} PROVE \E x \in S : \A y \in S : x =< y
<1> DEFINE R == {ss \in Nat \X Nat : ss[1] < ss[2]}
<1>1. IsWellFoundedOn(R, Nat)
  BY NatLessThanWellFounded DEF OpToRel
<1>2. PICK x \in S : \A y \in S : <<y, x>> \notin R
  <2> HIDE DEF R
  <2> QED BY <1>1, WFMin
<1>3. ASSUME NEW y \in S PROVE x =< y
  <2>1. x \in Nat /\ y \in Nat /\ <<y, x>> \notin R
    BY <1>2
  <2>2. <<y, x>> \in R <=> y < x
    BY <2>1
  <2> QED BY <2>1, <2>2
<1> QED BY <1>3

\* What holds at 0, and at m + 1 whenever it holds at m, holds up to n.
LEMMA Upto ==
    ASSUME NEW n \in Nat, NEW S, 0 \in S, \A m \in 0..(n - 1) : m \in S => m + 1 \in S
    PROVE  0..n \subseteq S
<1> DEFINE Out == (0..n) \ S
<1> SUFFICES ASSUME Out # {} PROVE FALSE
  OBVIOUS
<1>1. Out \in SUBSET Nat
  OBVIOUS
<1>2. PICK x \in Out : \A y \in Out : x =< y
  BY <1>1, Least
<1>3. x \in 1..n /\ x \notin S
  OBVIOUS
<1>4. x - 1 \in 0..(n - 1) /\ x - 1 \notin Out
  BY <1>2, <1>3
<1>5. x - 1 \in S
  BY <1>4
<1>6. (x - 1) + 1 \in S
  BY <1>4, <1>5
<1> QED BY <1>3, <1>6

\* A function defined place by place exists.
Recurs(g, n, V, v, step) ==
    g \in [0..n -> V] /\ g[0] = v /\ \A m \in 1..n : g[m] = step[<<g[m - 1], m>>]

\* It exists, for every step.
LEMMA Recursion ==
    ASSUME NEW n \in Nat, NEW V, NEW v \in V, NEW step \in [V \X (1..n) -> V]
    PROVE  \E g : Recurs(g, n, V, v, step)
<1> DEFINE Upto_(k, g) == Recurs(g, k, V, v, step)
           S == {k \in 0..n : \E g : Upto_(k, g)}
<1>1. 0 \in S
  <2> DEFINE h == [m \in 0..0 |-> v]
  <2>1. h \in [0..0 -> V] /\ h[0] = v /\ 1..0 = {}
    OBVIOUS
  <2>2. Upto_(0, h)
    BY <2>1 DEF Recurs
  <2> HIDE DEF h, Upto_
  <2> QED BY <2>2
<1>2. ASSUME NEW m \in 0..(n - 1), m \in S PROVE m + 1 \in S
  <2> USE DEF Recurs
  <2>1. PICK g : Upto_(m, g)
    BY <1>2
  <2> DEFINE h == [k \in 0..(m + 1) |-> IF k = m + 1 THEN step[<<g[m], m + 1>>] ELSE g[k]]
  <2>2. m \in 0..m /\ g[m] \in V /\ m + 1 \in 1..n
    BY <2>1
  <2>3. step[<<g[m], m + 1>>] \in V
    BY <2>2
  <2>4. h \in [0..(m + 1) -> V] /\ h[0] = v
    BY <2>1, <2>3
  <2>5. ASSUME NEW k \in 1..(m + 1) PROVE h[k] = step[<<h[k - 1], k>>]
    <3>1. CASE k = m + 1
      <4>1. h[k - 1] = g[m] /\ h[k] = step[<<g[m], m + 1>>]
        BY <2>2, <3>1
      <4> QED BY <3>1, <4>1
    <3>2. CASE k # m + 1
      <4>1. k \in 1..m /\ h[k] = g[k] /\ h[k - 1] = g[k - 1]
        BY <3>2
      <4> QED BY <2>1, <4>1
    <3> QED BY <3>1, <3>2
  <2>6. Upto_(m + 1, h)
    BY <2>4, <2>5
  <2> HIDE DEF Upto_
  <2> QED BY <2>6
<1>3. n \in S
  <2> HIDE DEF S
  <2>1. 0..n \subseteq S
    BY <1>1, <1>2, Upto
  <2> QED BY <2>1
<1> QED BY <1>3

\* The parts of a sequence, joined one after the other.
Flattens(f, ss, S) ==
    /\ f \in [1..Len(ss) -> Seq(S)]
    /\ f = [i \in 1..Len(ss) |-> IF i = 1 THEN ss[i] ELSE f[i - 1] \o ss[i]]
    /\ FlattenSeq(ss) = f[Len(ss)]

\* That is what FlattenSeq does.
LEMMA FlattenSteps ==
    ASSUME NEW S, NEW ss \in Seq(Seq(S)), ss # <<>> PROVE \E f : Flattens(f, ss, S)
<1> DEFINE n == Len(ss)
           Body(f) == [i \in 1..n |-> IF i = 1 THEN ss[i] ELSE f[i - 1] \o ss[i]]
           step == [x \in Seq(S) \X (1..n) |-> IF x[2] = 1 THEN ss[1] ELSE x[1] \o ss[x[2]]]
<1>1. n \in Nat \ {0} /\ \A i \in 1..n : ss[i] \in Seq(S)
  OBVIOUS
<1>2. step \in [Seq(S) \X (1..n) -> Seq(S)]
  BY <1>1
<1>3. \A x \in Seq(S), i \in 1..n : step[<<x, i>>] = IF i = 1 THEN ss[1] ELSE x \o ss[i]
  OBVIOUS
<1>4. PICK g : Recurs(g, n, Seq(S), <<>>, step)
  <2> HIDE DEF step, n
  <2> QED BY <1>1, <1>2, Recursion, <<>> \in Seq(S)
<1> HIDE DEF step
<1> DEFINE h == [i \in 1..n |-> g[i]]
<1>5. h = Body(h)
  <2>1. ASSUME NEW i \in 1..n PROVE h[i] = IF i = 1 THEN ss[i] ELSE h[i - 1] \o ss[i]
    <3>1. g[i - 1] \in Seq(S) /\ g[i] = step[<<g[i - 1], i>>]
      BY <1>1, <1>4 DEF Recurs
    <3>2. i # 1 => i - 1 \in 1..n
      BY <1>1
    <3> QED BY <1>3, <3>1, <3>2
  <2> QED BY <2>1
<1> DEFINE f == CHOOSE f : f = Body(f)
<1>6. f = Body(f)
  <2> HIDE DEF h, Body
  <2> QED BY <1>5
<1>7. FlattenSeq(ss) = f[n]
  BY <1>1 DEF FlattenSeq
<1> HIDE DEF f
<1>8. \A i \in 1..n : f[i] = IF i = 1 THEN ss[i] ELSE f[i - 1] \o ss[i]
  BY <1>6
<1>9. ASSUME NEW m \in 0..n PROVE m \in {k \in 0..n : \A i \in 1..k : f[i] \in Seq(S)}
  <2> DEFINE T == {k \in 0..n : \A i \in 1..k : f[i] \in Seq(S)}
  <2>1. 0 \in T
    BY <1>1
  <2>2. ASSUME NEW k \in 0..(n - 1), k \in T PROVE k + 1 \in T
    <3>1. f[k + 1] \in Seq(S)
      <4>1. k + 1 \in 1..n /\ (k + 1) - 1 = k /\ (k + 1 = 1 <=> k = 0) /\ k \in 0..n
        BY <1>1
      <4>2. f[k + 1] = IF k = 0 THEN ss[k + 1] ELSE f[k] \o ss[k + 1]
        BY <1>8, <4>1
      <4>3. ss[k + 1] \in Seq(S)
        BY <1>1, <4>1
      <4>4. k # 0 => f[k] \in Seq(S)
        BY <2>2, <4>1
      <4> QED BY <4>2, <4>3, <4>4
    <3>2. k + 1 \in 0..n /\ \A i \in 1..(k + 1) : i \in 1..k \/ i = k + 1
      BY <1>1
    <3> QED BY <2>2, <3>1, <3>2
  <2> HIDE DEF T
  <2>3. 0..n \subseteq T
    BY <1>1, <2>1, <2>2, Upto
  <2> QED BY <2>3 DEF T
<1>10. f \in [1..n -> Seq(S)]
  <2>1. n \in 0..n
    BY <1>1
  <2>2. \A i \in 1..n : f[i] \in Seq(S)
    BY <1>9, <2>1
  <2>3. DOMAIN f = 1..n /\ f = [i \in 1..n |-> f[i]]
    BY <1>6
  <2> QED BY <2>2, <2>3
<1>11. Flattens(f, ss, S)
  BY <1>6, <1>7, <1>10 DEF Flattens
<1> QED BY <1>11

\* FlattenSeq returns a sequence of what its parts are sequences of.
LEMMA FlattenType ==
    ASSUME NEW S, NEW ss \in Seq(Seq(S)) PROVE FlattenSeq(ss) \in Seq(S)
<1>1. CASE ss = <<>>
  BY <1>1 DEF FlattenSeq
<1>2. CASE ss # <<>>
  <2>1. Len(ss) \in 1..Len(ss)
    BY <1>2
  <2>2. PICK f : Flattens(f, ss, S)
    BY <1>2, FlattenSteps
  <2> QED BY <2>1, <2>2 DEF Flattens
<1> QED BY <1>1, <1>2

\* Its items are those of the parts.
LEMMA FlattenRange ==
    ASSUME NEW S, NEW ss \in Seq(Seq(S))
    PROVE  Range(FlattenSeq(ss)) = UNION {Range(ss[i]) : i \in DOMAIN ss}
<1>1. CASE ss = <<>>
  <2>1. DOMAIN <<>> = {} /\ FlattenSeq(ss) = <<>>
    BY <1>1 DEF FlattenSeq
  <2> QED BY <1>1, <2>1 DEF Range
<1>2. CASE ss # <<>>
  <2> DEFINE n == Len(ss)
             Parts(k) == UNION {Range(ss[i]) : i \in 1..k}
  <2>0. PICK f : Flattens(f, ss, S)
    BY <1>2, FlattenSteps
  <2>1. /\ f \in [1..n -> Seq(S)]
        /\ f = [i \in 1..n |-> IF i = 1 THEN ss[i] ELSE f[i - 1] \o ss[i]]
        /\ FlattenSeq(ss) = f[n]
    BY <2>0 DEF Flattens
  <2>2. n \in Nat \ {0} /\ DOMAIN ss = 1..n /\ \A i \in 1..n : ss[i] \in Seq(S)
    BY <1>2
  <2> DEFINE T == {k \in 0..n : k # 0 => Range(f[k]) = Parts(k)}
  <2> HIDE DEF Parts
  <2>3. ASSUME NEW k \in 0..(n - 1), k \in T PROVE k + 1 \in T
    <3>1. CASE k = 0
      <4>1. f[1] = ss[1]
        <5>1. 1 \in 1..n
          BY <2>2
        <5> QED BY <2>1, <5>1
      <4>2. Parts(1) = Range(ss[1])
        <5>1. 1..1 = {1}
          OBVIOUS
        <5> QED BY <5>1 DEF Parts
      <4> QED BY <2>2, <3>1, <4>1, <4>2
    <3>2. CASE k # 0
      <4>1. f[k + 1] = f[k] \o ss[k + 1] /\ f[k] \in Seq(S) /\ ss[k + 1] \in Seq(S)
        <5>1. k + 1 \in 1..n /\ k \in 1..n /\ (k + 1) - 1 = k /\ k + 1 # 1
          BY <2>2, <3>2
        <5> QED BY <2>1, <2>2, <5>1
      <4>2. Range(f[k + 1]) = Range(f[k]) \cup Range(ss[k + 1])
        BY <4>1, RangeConcatenation
      <4>3. Parts(k + 1) = Parts(k) \cup Range(ss[k + 1])
        <5>1. 1..(k + 1) = (1..k) \cup {k + 1}
          OBVIOUS
        <5> QED BY <5>1 DEF Parts
      <4>4. Range(f[k]) = Parts(k)
        BY <2>3, <3>2
      <4>5. Range(f[k + 1]) = Parts(k + 1) /\ k + 1 \in 0..n
        BY <2>2, <4>2, <4>3, <4>4
      <4> QED BY <4>5
    <3> QED BY <3>1, <3>2
  <2>4. 0..n \subseteq T
    <3>1. 0 \in T
      BY <2>2
    <3> HIDE DEF T
    <3> QED BY <2>2, <2>3, <3>1, Upto
  <2>5. Range(f[n]) = Parts(n)
    BY <2>2, <2>4
  <2> QED BY <2>1, <2>2, <2>5 DEF Parts
<1> QED BY <1>1, <1>2

\* What is where in a list with one item less.
LEMMA Removed ==
    ASSUME NEW S, NEW list \in Seq(S), NEW i \in 1..Len(list)
    PROVE  /\ RemoveAt(list, i) \in Seq(S) /\ Len(RemoveAt(list, i)) = Len(list) - 1
           /\ \A k \in 1..(Len(list) - 1) :
                  RemoveAt(list, i)[k] = IF k < i THEN list[k] ELSE list[k + 1]
<1>. DEFINE len == Len(list)
            front == SubSeq(list, 1, i - 1)
            rear == SubSeq(list, i + 1, len)
<1>1. len \in Nat /\ \A k \in 1..len : list[k] \in S
  BY LenProperties, ElementOfSeq
<1>2. /\ front \in Seq(S) /\ Len(front) = i - 1
      /\ \A k \in 1..(i - 1) : front[k] = list[k]
  <2>1. /\ front \in Seq(S) /\ Len(front) = IF 1 <= i - 1 THEN (i - 1) - 1 + 1 ELSE 0
        /\ \A k \in 1..((i - 1) - 1 + 1) : front[k] = list[1 + k - 1]
    BY <1>1, SubSeqProperties
  <2>. HIDE DEF front, len
  <2>2. \A k \in 1..(i - 1) : 1 + k - 1 = k
    BY <1>1
  <2>. QED BY <1>1, <2>1, <2>2 DEF len
<1>3. /\ rear \in Seq(S) /\ Len(rear) = len - i
      /\ \A k \in 1..(len - i) : rear[k] = list[i + k]
  <2>1. /\ rear \in Seq(S) /\ Len(rear) = IF i + 1 <= len THEN len - (i + 1) + 1 ELSE 0
        /\ \A k \in 1..(len - (i + 1) + 1) : rear[k] = list[(i + 1) + k - 1]
    BY <1>1, SubSeqProperties
  <2>. HIDE DEF rear, len
  <2>2. \A k \in 1..(len - i) : (i + 1) + k - 1 = i + k
    BY <1>1
  <2>. QED BY <1>1, <2>1, <2>2 DEF len
<1>. HIDE DEF front, rear
<1>4. /\ front \o rear \in Seq(S) /\ Len(front \o rear) = Len(front) + Len(rear)
      /\ \A k \in 1..(Len(front) + Len(rear)) :
             (front \o rear)[k] = IF k <= Len(front) THEN front[k] ELSE rear[k - Len(front)]
  BY <1>2, <1>3, ConcatProperties
<1>5. RemoveAt(list, i) = front \o rear
  BY DEF RemoveAt, front, rear
<1>6. Len(front) + Len(rear) = len - 1
  BY <1>1, <1>2, <1>3
<1>. HIDE DEF len
<1>7. ASSUME NEW k \in 1..(len - 1)
      PROVE  (front \o rear)[k] = IF k < i THEN list[k] ELSE list[k + 1]
  <2>1. CASE k < i
    BY <1>1, <1>2, <1>4, <1>6, <2>1
  <2>2. CASE ~ (k < i)
    <3>1. k - (i - 1) \in 1..(len - i) /\ i + (k - (i - 1)) = k + 1
      BY <1>1, <2>2
    <3>2. (front \o rear)[k] = rear[k - (i - 1)]
      BY <1>1, <1>2, <1>4, <1>6, <2>2
    <3>. QED BY <1>3, <2>2, <3>1, <3>2
  <2>. QED BY <2>1, <2>2
<1>. QED BY <1>4, <1>5, <1>6, <1>7 DEF len
=============================================================================
