--------------------------- MODULE IntervalsProofs ---------------------------
(***************************************************************************)
(* What Intervals promises of every set, whatever its size and that of the *)
(* keys, for commands of any number of elements.                           *)
(***************************************************************************)
EXTENDS Intervals, FiniteInduction, FiniteSetTheorems

\* The elements of a list, whether or not they are intervals.
Element == [lo : Int, hi : Int, kernel : BOOLEAN]

Ordered(list) == \A i, j \in DOMAIN list : i < j => list[i].lo <= list[j].lo

-----------------------------------------------------------------------------
(***************************************************************************)
(* Sorting and merging of lists: what comes out has the elements that went *)
(* in, each as often as before.                                            *)
(***************************************************************************)
Orders(before, D) ==
    /\ before \in SUBSET (D \X D)
    /\ \A i \in D : <<i, i>> \notin before
    /\ \A i, j, k \in D : <<i, j>> \in before /\ <<j, k>> \in before => <<i, k>> \in before
    /\ \A i, j \in D : i # j => <<i, j>> \in before \/ <<j, i>> \in before

\* The place p[k] of one list is k in the other.
Shuffled(new, list, p) ==
    /\ p \in [DOMAIN list -> DOMAIN list]
    /\ \A i, j \in DOMAIN list : p[i] = p[j] => i = j
    /\ \A i \in DOMAIN list : \E k \in DOMAIN list : p[k] = i
    /\ DOMAIN new = DOMAIN list
    /\ \A k \in DOMAIN list : new[k] = list[p[k]]

Rank(before, D, i) == Cardinality({j \in D : <<j, i>> \in before})

\* As many places come before one as there are places it comes before.
LEMMA Ranks ==
    ASSUME NEW D, IsFiniteSet(D), NEW N \in Nat, Cardinality(D) = N, NEW before, Orders(before, D)
    PROVE  /\ \A i \in D : Rank(before, D, i) \in 0..(N - 1)
           /\ \A i, j \in D : <<i, j>> \in before => Rank(before, D, i) < Rank(before, D, j)
           /\ \A k \in 1..N : \E i \in D : Rank(before, D, i) = k - 1
<1> DEFINE E(i) == {j \in D : <<j, i>> \in before}
<1>1. IsFiniteSet(D) /\ Cardinality(D) = N /\ N \in Nat
  OBVIOUS
<1>2. ASSUME NEW i \in D PROVE IsFiniteSet(E(i)) /\ Cardinality(E(i)) \in 0..(N - 1)
  <2>1. E(i) \in SUBSET D /\ i \notin E(i)
    BY DEF Orders
  <2> HIDE DEF E
  <2>2. IsFiniteSet(E(i)) /\ Cardinality(E(i)) <= N /\ Cardinality(E(i)) # N
    BY <1>1, <2>1, FS_Subset
  <2>3. Cardinality(E(i)) \in Nat
    BY <2>2, FS_CardinalityType
  <2> QED BY <2>2, <2>3
<1>3. ASSUME NEW i \in D, NEW j \in D, <<i, j>> \in before
      PROVE  Cardinality(E(i)) < Cardinality(E(j))
  <2>1. E(i) \in SUBSET E(j) /\ i \in E(j) /\ i \notin E(i)
    BY <1>3 DEF Orders
  <2> HIDE DEF E
  <2>2. Cardinality(E(i)) <= Cardinality(E(j)) /\ Cardinality(E(i)) # Cardinality(E(j))
    BY <1>2, <2>1, FS_Subset
  <2> QED BY <1>2, <2>2
<1>4. ASSUME NEW i \in D, NEW j \in D, Cardinality(E(i)) = Cardinality(E(j)) PROVE i = j
  <2> SUFFICES ASSUME i # j PROVE FALSE
    OBVIOUS
  <2>1. <<i, j>> \in before \/ <<j, i>> \in before
    BY DEF Orders
  <2> HIDE DEF E
  <2>2. Cardinality(E(i)) \in Int
    BY <1>2
  <2>3. ~(Cardinality(E(i)) < Cardinality(E(i)))
    BY <2>2
  <2> QED BY <1>3, <1>4, <2>1, <2>3
<1> DEFINE f == [i \in D |-> Cardinality(E(i))]
<1>5. \A i \in D : f[i] = Cardinality(E(i)) /\ f[i] \in 0..(N - 1)
  BY <1>2
<1>6. f \in Injection(D, 0..(N - 1))
  <2>1. f \in [D -> 0..(N - 1)]
    BY <1>5
  <2> HIDE DEF f, E
  <2>2. \A i, j \in D : f[i] = f[j] => i = j
    BY <1>4, <1>5
  <2> QED BY <2>1, <2>2 DEF Injection, IsInjective
<1>7. f \in Surjection(D, 0..(N - 1))
  <2>1. IsFiniteSet(0..(N - 1)) /\ Cardinality(0..(N - 1)) = N
    BY FS_Interval
  <2> HIDE DEF f
  <2> QED BY <1>1, <1>6, <2>1, FS_Injection
<1>8. ASSUME NEW k \in 1..N PROVE \E i \in D : Cardinality(E(i)) = k - 1
  <2>1. k - 1 \in 0..(N - 1)
    OBVIOUS
  <2>2. PICK i \in D : f[i] = k - 1
    <3> HIDE DEF f
    <3> QED BY <1>7, <2>1 DEF Surjection
  <2> QED BY <1>5, <2>2
<1>9. \A i : Rank(before, D, i) = Cardinality(E(i))
  BY DEF Rank
<1> HIDE DEF E, f
<1>10. \A i \in D : Rank(before, D, i) \in 0..(N - 1)
  BY <1>2, <1>9
<1>11. \A i, j \in D : <<i, j>> \in before => Rank(before, D, i) < Rank(before, D, j)
  BY <1>3, <1>9
<1>12. \A k \in 1..N : \E i \in D : Rank(before, D, i) = k - 1
  BY <1>8, <1>9
<1> QED BY <1>10, <1>11, <1>12

\* Arranged puts every element of a list in its place.
LEMMA ArrangedShuffles ==
    ASSUME NEW T, NEW list \in Seq(T), NEW before, Orders(before, 1..Len(list))
    PROVE  /\ Arranged(list, before) \in Seq(T) /\ Len(Arranged(list, before)) = Len(list)
           /\ \E p : /\ Shuffled(Arranged(list, before), list, p)
                     /\ \A i, j \in DOMAIN list : i < j => <<p[i], p[j]>> \in before
<1> DEFINE N == Len(list)
           p == [k \in 1..N |-> CHOOSE i \in 1..N : Rank(before, 1..N, i) = k - 1]
           new == Arranged(list, before)
<1>1. N \in Nat /\ DOMAIN list = 1..N /\ \A i \in 1..N : list[i] \in T
  OBVIOUS
<1>0. IsFiniteSet(1..N) /\ Cardinality(1..N) = N
  <2> HIDE DEF N
  <2>1. IsFiniteSet(1..N) /\ Cardinality(1..N) = IF 1 > N THEN 0 ELSE N - 1 + 1
    BY <1>1, FS_Interval
  <2>2. (IF 1 > N THEN 0 ELSE N - 1 + 1) = N
    BY <1>1
  <2> QED BY <2>1, <2>2
<1>2. new = [k \in 1..N |-> list[p[k]]]
  BY <1>1 DEF Arranged, Rank
<1>3. ASSUME NEW k \in 1..N PROVE p[k] \in 1..N /\ Rank(before, 1..N, p[k]) = k - 1
  BY <1>0, <1>1, Ranks
<1>4. ASSUME NEW i \in 1..N PROVE Rank(before, 1..N, i) \in 0..(N - 1)
  BY <1>0, <1>1, Ranks
<1>5. ASSUME NEW i \in 1..N, NEW j \in 1..N, Rank(before, 1..N, i) = Rank(before, 1..N, j) PROVE i = j
  <2>1. Rank(before, 1..N, i) \in Nat /\ Rank(before, 1..N, j) \in Nat
    BY <1>4
  <2>2. i # j => Rank(before, 1..N, i) < Rank(before, 1..N, j) \/ Rank(before, 1..N, j) < Rank(before, 1..N, i)
    BY <1>0, <1>1, Ranks DEF Orders
  <2> QED BY <1>5, <2>1, <2>2
<1> HIDE DEF p
<1>6. p \in [1..N -> 1..N]
  <2>1. p = [k \in 1..N |-> p[k]]
    BY DEF p
  <2> QED BY <1>3, <2>1
<1>7. ASSUME NEW i \in 1..N, NEW j \in 1..N, p[i] = p[j] PROVE i = j
  BY <1>3, <1>7
<1>8. ASSUME NEW i \in 1..N PROVE \E k \in 1..N : p[k] = i
  <2>1. Rank(before, 1..N, i) + 1 \in 1..N /\ (Rank(before, 1..N, i) + 1) - 1 = Rank(before, 1..N, i)
    BY <1>4
  <2>2. p[Rank(before, 1..N, i) + 1] = i
    BY <1>3, <1>5, <2>1
  <2> QED BY <2>1, <2>2
<1>9. Shuffled(new, list, p)
  BY <1>1, <1>2, <1>6, <1>7, <1>8 DEF Shuffled
<1>10. ASSUME NEW i \in 1..N, NEW j \in 1..N, i < j PROVE <<p[i], p[j]>> \in before
  <2>1. p[i] \in 1..N /\ p[j] \in 1..N /\ p[i] # p[j]
    BY <1>3, <1>7, <1>10
  <2>2. Rank(before, 1..N, p[i]) = i - 1 /\ Rank(before, 1..N, p[j]) = j - 1
    BY <1>3
  <2>3. ~(<<p[j], p[i]>> \in before)
    <3> SUFFICES ASSUME <<p[j], p[i]>> \in before PROVE FALSE
      OBVIOUS
    <3>1. Rank(before, 1..N, p[j]) < Rank(before, 1..N, p[i])
      BY <1>1, <1>0, <2>1, Ranks
    <3>2. j - 1 < i - 1
      BY <2>2, <3>1
    <3> QED BY <1>10, <3>2
  <2> QED BY <1>1, <2>1, <2>3 DEF Orders
<1>11. new \in Seq(T) /\ Len(new) = N
  <2>1. \A k \in 1..N : list[p[k]] \in T
    BY <1>1, <1>3
  <2> HIDE DEF new, N
  <2> QED BY <1>1, <1>2, <2>1
<1> QED BY <1>1, <1>9, <1>10, <1>11

\* list_expr_sort returns the list in order.
LEMMA Sorted ==
    ASSUME NEW list \in Seq(Element)
    PROVE  /\ ExprSort(list) \in Seq(Element) /\ Len(ExprSort(list)) = Len(list)
           /\ \E p : Shuffled(ExprSort(list), list, p)
           /\ Ordered(ExprSort(list))
<1> DEFINE N == Len(list)
           Before(i, j) == list[i].lo < list[j].lo \/ (list[i].lo = list[j].lo /\ i > j)
           before == {p \in (1..N) \X (1..N) : Before(p[1], p[2])}
<1>1. N \in Nat /\ DOMAIN list = 1..N /\ \A i \in 1..N : list[i].lo \in Int
  <2>1. \A i \in 1..N : list[i] \in Element
    OBVIOUS
  <2>2. \A i \in 1..N : list[i].lo \in Int
    BY <2>1 DEF Element
  <2> QED BY <2>2
<1>2. \A i, j \in 1..N : <<i, j>> \in before <=> Before(i, j)
  OBVIOUS
<1>3. Orders(before, 1..N)
  <2>1. before \in SUBSET ((1..N) \X (1..N))
    OBVIOUS
  <2> HIDE DEF before, N
  <2>2. \A i \in 1..N : <<i, i>> \notin before
    BY <1>1, <1>2
  <2>3. ASSUME NEW i \in 1..N, NEW j \in 1..N, NEW k \in 1..N,
               <<i, j>> \in before, <<j, k>> \in before
        PROVE  <<i, k>> \in before
    <3>1. Before(i, j) /\ Before(j, k)
      BY <1>2, <2>3
    <3>2. list[i].lo \in Int /\ list[j].lo \in Int /\ list[k].lo \in Int
      BY <1>1
    <3>3. Before(i, k)
      BY <1>1, <3>1, <3>2
    <3> QED BY <1>2, <3>3
  <2>4. ASSUME NEW i \in 1..N, NEW j \in 1..N, i # j
        PROVE  <<i, j>> \in before \/ <<j, i>> \in before
    BY <1>1, <1>2, <2>4
  <2> QED BY <2>1, <2>2, <2>3, <2>4 DEF Orders
<1>4. ExprSort(list) = Arranged(list, before)
  BY <1>1 DEF ExprSort
<1>5. PICK p : /\ Shuffled(ExprSort(list), list, p)
               /\ \A i, j \in 1..N : i < j => <<p[i], p[j]>> \in before
  <2> HIDE DEF before
  <2> QED BY <1>1, <1>3, <1>4, ArrangedShuffles
<1>6. ExprSort(list) \in Seq(Element) /\ Len(ExprSort(list)) = N
  <2> HIDE DEF before
  <2> QED BY <1>3, <1>4, ArrangedShuffles
<1>7. Ordered(ExprSort(list))
  <2> SUFFICES ASSUME NEW i \in 1..N, NEW j \in 1..N, i < j
               PROVE  ExprSort(list)[i].lo <= ExprSort(list)[j].lo
    BY <1>6 DEF Ordered
  <2>1. p[i] \in 1..N /\ p[j] \in 1..N /\ <<p[i], p[j]>> \in before
    BY <1>1, <1>5 DEF Shuffled
  <2>2. ExprSort(list)[i] = list[p[i]] /\ ExprSort(list)[j] = list[p[j]]
    BY <1>1, <1>5 DEF Shuffled
  <2>3. Before(p[i], p[j])
    BY <1>2, <2>1
  <2> QED BY <1>1, <2>1, <2>2, <2>3
<1> QED BY <1>5, <1>6, <1>7

\* list_splice_sorted returns the elements of both lists, and if both were in
\* order, all of them in order.
LEMMA Spliced ==
    ASSUME NEW list \in Seq(Element), NEW head \in Seq(Element), Ordered(head)
    PROVE  /\ SpliceSorted(list, head) \in Seq(Element)
           /\ Len(SpliceSorted(list, head)) = Len(list) + Len(head)
           /\ \E p : Shuffled(SpliceSorted(list, head), list \o head, p)
           /\ Ordered(list) => Ordered(SpliceSorted(list, head))
<1> DEFINE len == Len(list)
           all == list \o head
           N == Len(all)
           Behind(h, l) == \E m \in 1..l : all[h].lo <= all[m].lo
           Before(i, j) == IF i <= len /\ len < j THEN ~Behind(j, i)
                           ELSE IF j <= len /\ len < i THEN Behind(i, j)
                           ELSE i < j
           before == {p \in (1..N) \X (1..N) : Before(p[1], p[2])}
           new == SpliceSorted(list, head)
<1>1. len \in Nat /\ Len(head) \in Nat /\ all \in Seq(Element) /\ N = len + Len(head)
  OBVIOUS
<1>2. N \in Nat /\ DOMAIN all = 1..N /\ \A i \in 1..N : all[i].lo \in Int
  <2> HIDE DEF N, all
  <2>1. N \in Nat /\ DOMAIN all = 1..N /\ \A i \in 1..N : all[i] \in Element
    BY <1>1 DEF N
  <2> QED BY <2>1 DEF Element
<1>3. \A i \in 1..N : all[i] = IF i <= len THEN list[i] ELSE head[i - len]
  OBVIOUS
<1>4. \A i, j \in 1..N : <<i, j>> \in before <=> Before(i, j)
  OBVIOUS
<1>5. ASSUME NEW i \in 1..N, NEW j \in 1..N, len < i, i < j PROVE all[i].lo <= all[j].lo
  <2>1. i - len \in 1..Len(head) /\ j - len \in 1..Len(head) /\ i - len < j - len
    BY <1>1, <1>2, <1>5
  <2>2. head[i - len].lo <= head[j - len].lo
    BY <2>1 DEF Ordered
  <2>3. all[i] = head[i - len] /\ all[j] = head[j - len]
    BY <1>1, <1>3, <1>5
  <2> QED BY <2>2, <2>3
<1>6. Orders(before, 1..N)
  <2>1. before \in SUBSET ((1..N) \X (1..N))
    OBVIOUS
  <2> HIDE DEF before, N, all, len
  <2>2. \A i, j \in 1..N : i # j => Before(i, j) \/ Before(j, i)
    BY <1>1, <1>2
  <2>3. \A i \in 1..N : ~Before(i, i)
    BY <1>1, <1>2
  <2>4. ASSUME NEW i \in 1..N, NEW j \in 1..N, NEW k \in 1..N, Before(i, j), Before(j, k)
        PROVE  Before(i, k)
    <3>1. CASE i <= len /\ j <= len
      BY <1>1, <1>2, <2>4, <3>1
    <3>2. CASE i <= len /\ len < j /\ k <= len
      <4>1. ~Behind(j, i) /\ Behind(j, k)
        BY <1>1, <1>2, <2>4, <3>2
      <4>2. PICK m \in 1..k : all[j].lo <= all[m].lo
        BY <4>1
      <4>3. ~(m \in 1..i)
        BY <4>1, <4>2
      <4> QED BY <1>1, <1>2, <3>2, <4>2, <4>3
    <3>3. CASE i <= len /\ len < j /\ len < k
      <4>1. ~Behind(j, i) /\ j < k
        BY <1>1, <1>2, <2>4, <3>3
      <4>2. all[j].lo <= all[k].lo
        BY <1>5, <3>3, <4>1
      <4>3. ~Behind(k, i)
        <5> SUFFICES ASSUME NEW m \in 1..i, all[k].lo <= all[m].lo PROVE FALSE
          OBVIOUS
        <5>1. m \in 1..N
          BY <1>1, <1>2
        <5>2. all[j].lo <= all[m].lo
          BY <1>2, <4>2, <5>1
        <5> QED BY <4>1, <5>2
      <4> QED BY <1>1, <1>2, <3>3, <4>3
    <3>4. CASE len < i /\ j <= len /\ k <= len
      <4>1. PICK m \in 1..j : all[i].lo <= all[m].lo
        BY <1>1, <1>2, <2>4, <3>4
      <4>2. j < k
        BY <1>1, <1>2, <2>4, <3>4
      <4>3. m \in 1..k
        BY <4>2
      <4> QED BY <1>1, <1>2, <3>4, <4>1, <4>3
    <3>5. CASE len < i /\ j <= len /\ len < k
      <4>1. PICK m \in 1..j : all[i].lo <= all[m].lo
        BY <1>1, <1>2, <2>4, <3>5
      <4>2. ~Behind(k, j)
        BY <1>1, <1>2, <2>4, <3>5
      <4>3. m \in 1..N /\ all[m].lo < all[k].lo
        BY <1>1, <1>2, <4>2, <3>5
      <4>4. ~(all[k].lo <= all[i].lo) /\ i # k
        BY <1>2, <4>1, <4>3
      <4>5. ~(k < i)
        BY <1>5, <3>5, <4>4
      <4> QED BY <1>1, <1>2, <3>5, <4>4, <4>5
    <3>6. CASE len < i /\ len < j /\ k <= len
      <4>1. PICK m \in 1..k : all[j].lo <= all[m].lo
        BY <1>1, <1>2, <2>4, <3>6
      <4>2. i < j
        BY <1>1, <1>2, <2>4, <3>6
      <4>3. all[i].lo <= all[j].lo /\ m \in 1..N
        BY <1>1, <1>2, <1>5, <3>6, <4>2
      <4>4. all[i].lo <= all[m].lo
        BY <1>2, <4>1, <4>3
      <4> QED BY <1>1, <1>2, <3>6, <4>1, <4>4
    <3>7. CASE len < i /\ len < j /\ len < k
      BY <1>1, <1>2, <2>4, <3>7
    <3> QED BY <1>1, <1>2, <3>1, <3>2, <3>3, <3>4, <3>5, <3>6, <3>7
  <2> QED BY <1>2, <1>4, <2>1, <2>2, <2>3, <2>4 DEF Orders
<1>7. new = Arranged(all, before)
  BY <1>2 DEF SpliceSorted
<1>8. PICK p : /\ Shuffled(new, all, p)
               /\ \A i, j \in 1..N : i < j => <<p[i], p[j]>> \in before
  <2> HIDE DEF before, all, new
  <2> QED BY <1>1, <1>2, <1>6, <1>7, ArrangedShuffles
<1>9. new \in Seq(Element) /\ Len(new) = N
  <2> HIDE DEF before, all, new
  <2> QED BY <1>1, <1>6, <1>7, ArrangedShuffles
<1>10. ASSUME Ordered(list) PROVE Ordered(new)
  <2> SUFFICES ASSUME NEW i \in 1..N, NEW j \in 1..N, i < j PROVE new[i].lo <= new[j].lo
    BY <1>9 DEF Ordered
  <2>1. p[i] \in 1..N /\ p[j] \in 1..N /\ <<p[i], p[j]>> \in before
    BY <1>2, <1>8 DEF Shuffled
  <2>2. new[i] = all[p[i]] /\ new[j] = all[p[j]]
    BY <1>2, <1>8 DEF Shuffled
  <2>3. \A k, l \in 1..len : k < l => k \in 1..N /\ l \in 1..N /\ all[k].lo <= all[l].lo
    <3> SUFFICES ASSUME NEW k \in 1..len, NEW l \in 1..len, k < l
                 PROVE  k \in 1..N /\ l \in 1..N /\ list[k].lo <= list[l].lo
      BY <1>1, <1>3
    <3> QED BY <1>1, <1>10 DEF Ordered
  <2> DEFINE a == p[i]
             b == p[j]
  <2>4. a \in 1..N /\ b \in 1..N /\ Before(a, b)
    BY <1>4, <2>1
  <2> HIDE DEF a, b, all, N, len, before, new
  <2>5. CASE a <= len /\ len < b
    <3>1. ~(all[b].lo <= all[a].lo)
      BY <1>1, <1>2, <2>4, <2>5
    <3> QED BY <1>2, <2>2, <2>4, <3>1 DEF a, b
  <2>6. CASE b <= len /\ len < a
    <3>1. PICK m \in 1..b : all[a].lo <= all[m].lo
      BY <1>1, <1>2, <2>4, <2>6
    <3>2. m \in 1..N /\ b \in 1..N /\ all[m].lo <= all[b].lo
      BY <1>1, <1>2, <2>3, <2>4, <2>6
    <3> QED BY <1>2, <2>2, <2>4, <3>1, <3>2 DEF a, b
  <2>7. CASE a <= len /\ b <= len
    BY <1>1, <1>2, <2>2, <2>3, <2>4, <2>7 DEF a, b
  <2>8. CASE len < a /\ len < b
    BY <1>1, <1>2, <1>5, <2>2, <2>4, <2>8 DEF a, b
  <2> QED BY <1>1, <1>2, <2>4, <2>5, <2>6, <2>7, <2>8
<1> QED BY <1>1, <1>8, <1>9, <1>10

-----------------------------------------------------------------------------
(***************************************************************************)
(* setelem_automerge, element by element.                                  *)
(***************************************************************************)
Interval == [lo : Int, hi : Int]
Merging == [kept : Seq(Element), purge : SUBSET Interval, low : Int, high : Int]

\* What an element comes to: it is kept, ...
IsKept(st, e, new) ==
    /\ new.kept = Append(st.kept, e) /\ new.purge = st.purge
    /\ new.low = e.lo /\ new.high = e.hi

\* ... dropped, ...
Gone(e) == IF e.kernel THEN {Span(e)} ELSE {}
IsDropped(st, e, new) ==
    /\ new.kept = st.kept /\ new.purge = st.purge \cup Gone(e)
    /\ new.low = st.low /\ new.high = st.high

\* ... or merged with the last one.
One(prev, e) == [lo |-> prev.lo, hi |-> e.hi, kernel |-> prev.kernel /\ e.kernel]
IsMerged(st, e, new) ==
    LET k == Len(st.kept)
        prev == st.kept[k]
    IN  /\ Len(new.kept) = k /\ new.kept[k] = One(prev, e)
        /\ \A i \in 1..(k - 1) : new.kept[i] = st.kept[i]
        /\ new.purge = st.purge \cup Gone(IF prev.kernel THEN prev ELSE e)
        /\ new.low = st.low /\ new.high = e.hi

Within(st, e) == st.low <= e.lo /\ e.hi <= st.high

LEMMA GoneType ==
    ASSUME NEW st \in Merging, NEW e \in Element
    PROVE  /\ Purged(st, e) = [st EXCEPT !.purge = @ \cup Gone(e)]
           /\ Span(e) \in Interval /\ Gone(e) \subseteq Interval
<1>1. e.kernel \in BOOLEAN /\ e.lo \in Int /\ e.hi \in Int
  BY DEF Element
<1>2. {x \in {Span(e)} : e.kernel} = Gone(e)
  BY <1>1 DEF Gone
<1>3. Span(e) \in Interval
  BY <1>1 DEF Span, Interval
<1> QED BY <1>2, <1>3 DEF Purged, Gone

LEMMA MergeStepIs ==
    ASSUME NEW st \in Merging, NEW e \in Element
    PROVE  /\ MergeStep(st, e) \in Merging
           /\ \/ st.kept = <<>> /\ IsKept(st, e, MergeStep(st, e))
              \/ st.kept # <<>> /\ Within(st, e) /\ IsDropped(st, e, MergeStep(st, e))
              \/ /\ st.kept # <<>> /\ ~Within(st, e) /\ Touches(st, e)
                 /\ IsMerged(st, e, MergeStep(st, e))
              \/ /\ st.kept # <<>> /\ ~Within(st, e) /\ ~Touches(st, e)
                 /\ IsKept(st, e, MergeStep(st, e))
<1> DEFINE new == MergeStep(st, e)
<1>1. /\ st.kept \in Seq(Element) /\ st.purge \in SUBSET Interval /\ st.low \in Int /\ st.high \in Int
      /\ st = [kept |-> st.kept, purge |-> st.purge, low |-> st.low, high |-> st.high]
  BY DEF Merging
<1>2. e.lo \in Int /\ e.hi \in Int /\ e.kernel \in BOOLEAN
      /\ e = [lo |-> e.lo, hi |-> e.hi, kernel |-> e.kernel]
  BY DEF Element
<1>3. Kept(st, e) \in Merging /\ IsKept(st, e, Kept(st, e))
  <2>1. Kept(st, e) = [kept |-> Append(st.kept, e), purge |-> st.purge, low |-> e.lo, high |-> e.hi]
    BY DEF Kept
  <2>2. Append(st.kept, e) \in Seq(Element)
    BY <1>1, AppendProperties
  <2> QED BY <1>1, <1>2, <2>1, <2>2 DEF IsKept, Merging
<1>4. Purged(st, e) \in Merging /\ IsDropped(st, e, Purged(st, e))
  <2>1. Purged(st, e) = [kept |-> st.kept, purge |-> st.purge \cup Gone(e), low |-> st.low, high |-> st.high]
    BY <1>1, GoneType
  <2> QED BY <1>1, <2>1, GoneType DEF IsDropped, Merging
<1>5. ASSUME st.kept # <<>> PROVE Merged(st, e) \in Merging /\ IsMerged(st, e, Merged(st, e))
  <2> DEFINE k == Len(st.kept)
             prev == st.kept[k]
             gone == IF prev.kernel THEN prev ELSE e
             one == IF prev.kernel THEN [e EXCEPT !.lo = prev.lo] ELSE [prev EXCEPT !.hi = e.hi]
             kept == Append(Front(st.kept), one)
  <2>1. k \in Nat /\ k >= 1 /\ k \in 1..k /\ prev \in Element /\ Last(st.kept) = prev
    BY <1>1, <1>5, EmptySeq, LenProperties, ElementOfSeq DEF Last
  <2>2. prev = [lo |-> prev.lo, hi |-> prev.hi, kernel |-> prev.kernel]
        /\ prev.lo \in Int /\ prev.hi \in Int /\ prev.kernel \in BOOLEAN
    BY <2>1 DEF Element
  <2>3. one = One(prev, e)
    <3>1. CASE prev.kernel
      BY <1>2, <2>2, <3>1 DEF One
    <3>2. CASE ~prev.kernel
      BY <1>2, <2>2, <3>2 DEF One
    <3> QED BY <2>2, <3>1, <3>2
  <2>4. one \in Element
    BY <1>2, <2>2, <2>3 DEF One, Element
  <2>5. Front(st.kept) \in Seq(Element) /\ Len(Front(st.kept)) = k - 1
        /\ \A i \in 1..(k - 1) : Front(st.kept)[i] = st.kept[i]
    <3>1. \A i \in 1..(k - 1) : st.kept[i] \in Element
      BY <1>1, <2>1, ElementOfSeq
    <3> HIDE DEF k
    <3> QED BY <2>1, <3>1, SubSeqProperties DEF Front, k
  <2>6. /\ kept \in Seq(Element) /\ Len(kept) = k /\ kept[k] = one
        /\ \A i \in 1..(k - 1) : kept[i] = st.kept[i]
    <3> HIDE DEF one, k
    <3> QED BY <2>1, <2>4, <2>5, AppendProperties
  <2>7. gone \in Element
    BY <2>1
  <2>8. Merged(st, e) = [kept |-> kept, purge |-> Purged(st, gone).purge, low |-> st.low, high |-> e.hi]
    BY <2>1 DEF Merged
  <2>9. Purged(st, gone) = [kept |-> st.kept, purge |-> st.purge \cup Gone(gone), low |-> st.low, high |-> st.high]
    <3> HIDE DEF gone
    <3> QED BY <1>1, <2>7, GoneType
  <2>10. Merged(st, e) = [kept |-> kept, purge |-> st.purge \cup Gone(gone), low |-> st.low, high |-> e.hi]
    <3> HIDE DEF gone, kept
    <3> QED BY <2>8, <2>9
  <2>11. Gone(gone) \subseteq Interval
    <3> HIDE DEF gone
    <3> QED BY <2>7, GoneType
  <2>12. Merged(st, e) \in Merging
    <3> HIDE DEF kept, gone
    <3> QED BY <1>1, <1>2, <2>6, <2>10, <2>11 DEF Merging
  <2>13. IsMerged(st, e, Merged(st, e))
    <3>1. /\ Merged(st, e).kept = kept /\ Merged(st, e).purge = st.purge \cup Gone(gone)
          /\ Merged(st, e).low = st.low /\ Merged(st, e).high = e.hi
      BY <2>10
    <3> HIDE DEF kept, one
    <3> QED BY <2>3, <2>6, <3>1 DEF IsMerged
  <2> QED BY <2>12, <2>13
<1> QED BY <1>1, <1>2, <1>3, <1>4, <1>5 DEF MergeStep, Within

Merges(f, list) ==
    /\ f[0] = NoneMerged
    /\ \A m \in 0..Len(list) : f[m] \in Merging
    /\ \A m \in 0..(Len(list) - 1) : f[m + 1] = MergeStep(f[m], list[m + 1])
    /\ Automerge(list) = f[Len(list)]

LEMMA AutomergeSteps ==
    ASSUME NEW list \in Seq(Element) PROVE \E f : Merges(f, list)
<1> DEFINE N == Len(list)
           Body(f) == [k \in 0..N |-> IF k = 0 THEN NoneMerged ELSE MergeStep(f[k - 1], list[k])]
           step == [x \in Merging \X (1..N) |-> MergeStep(x[1], list[x[2]])]
           merged == CHOOSE f : f = Body(f)
<1>1. N \in Nat /\ \A m \in 1..N : list[m] \in Element
  OBVIOUS
<1>2. NoneMerged \in Merging
  <2>1. <<>> \in Seq(Element)
    OBVIOUS
  <2> QED BY <2>1 DEF NoneMerged, Merging
<1>3. \A x \in Merging, m \in 1..N : step[<<x, m>>] = MergeStep(x, list[m]) /\ MergeStep(x, list[m]) \in Merging
  BY <1>1, MergeStepIs
<1>4. step \in [Merging \X (1..N) -> Merging]
  <2> HIDE DEF N
  <2> QED BY <1>1, MergeStepIs
<1> HIDE DEF step
<1>5. PICK g : Recurs(g, N, Merging, NoneMerged, step)
  <2> HIDE DEF N
  <2> QED BY <1>1, <1>2, <1>4, Recursion
<1>6. g = Body(g)
  <2>1. ASSUME NEW m \in 0..N PROVE g[m] = IF m = 0 THEN NoneMerged ELSE MergeStep(g[m - 1], list[m])
    <3>1. CASE m = 0
      BY <1>5, <3>1 DEF Recurs
    <3>2. CASE m # 0
      <4>1. m \in 1..N /\ m - 1 \in 0..N
        BY <1>1, <3>2
      <4> QED BY <1>3, <1>5, <3>2, <4>1 DEF Recurs
    <3> QED BY <3>1, <3>2
  <2>2. DOMAIN g = 0..N /\ g = [m \in 0..N |-> g[m]]
    BY <1>5 DEF Recurs
  <2> QED BY <2>1, <2>2
<1>7. merged = Body(merged)
  <2> HIDE DEF Body
  <2> QED BY <1>6
<1>8. Automerge(list) = merged[N]
  BY DEF Automerge
<1> HIDE DEF merged
<1>9. \A m \in 0..N : merged[m] = IF m = 0 THEN NoneMerged ELSE MergeStep(merged[m - 1], list[m])
  BY <1>7
<1>10. ASSUME NEW m \in 0..(N - 1) PROVE merged[m + 1] = MergeStep(merged[m], list[m + 1])
  <2>1. m + 1 \in 0..N /\ (m + 1) - 1 = m /\ m + 1 # 0
    BY <1>1
  <2> QED BY <1>9, <2>1
<1> DEFINE T == {m \in 0..N : merged[m] \in Merging}
<1>11. 0 \in T /\ merged[0] = NoneMerged
  BY <1>1, <1>2, <1>9
<1>12. ASSUME NEW m \in 0..(N - 1), m \in T PROVE m + 1 \in T
  <2>1. m + 1 \in 1..N /\ m + 1 \in 0..N
    BY <1>1
  <2> QED BY <1>1, <1>10, <1>12, <2>1, MergeStepIs
<1>13. 0..N \subseteq T
  <2> HIDE DEF T
  <2> QED BY <1>1, <1>11, <1>12, Upto
<1> QED BY <1>8, <1>10, <1>11, <1>13 DEF Merges

-----------------------------------------------------------------------------
(***************************************************************************)
(* What setelem_automerge has made of the first m elements of a list in    *)
(* order, of which no two in the kernel overlap or touch: intervals that   *)
(* do not overlap or touch and cover the same keys.  Those in the kernel   *)
(* are kept as they are or are deleted.                                    *)
(***************************************************************************)
Fits(e) == 0 <= e.lo /\ e.lo <= e.hi /\ e.hi <= MaxKey
In(e, x) == e.lo <= x /\ x <= e.hi
Before(d, e) == d.hi + 1 < e.lo

Mergeable(list) ==
    /\ list \in Seq(Element) /\ Ordered(list)
    /\ \A i \in DOMAIN list : Fits(list[i])
    /\ \A i, j \in DOMAIN list :
           i < j /\ list[i].kernel /\ list[j].kernel => Before(list[i], list[j])

KeptApart(kept) ==
    /\ \A i \in 1..Len(kept) : Fits(kept[i])
    /\ \A i, j \in 1..Len(kept) : i < j => Before(kept[i], kept[j])

LastKept(list, st, m) ==
    /\ m = 0 <=> Len(st.kept) = 0
    /\ m # 0 => LET prev == st.kept[Len(st.kept)]
                IN  prev.lo = st.low /\ prev.hi = st.high /\ prev.lo <= list[m].lo

SameKeys(list, kept, m) ==
    \A x \in Int : (\E i \in 1..Len(kept) : In(kept[i], x)) <=> (\E j \in 1..m : In(list[j], x))

KernelKept(list, kept, m) ==
    \A i \in 1..Len(kept) :
        kept[i].kernel => \E j \in 1..m : list[j].kernel /\ Span(list[j]) = Span(kept[i])

KernelPurged(list, purge, m) ==
    \A s \in purge : \E j \in 1..m : list[j].kernel /\ Span(list[j]) = s

KernelThere(list, st, m) ==
    \A j \in 1..m : list[j].kernel =>
        \/ Span(list[j]) \in st.purge
        \/ \E i \in 1..Len(st.kept) : st.kept[i].kernel /\ Span(st.kept[i]) = Span(list[j])

NotBoth(st) == \A i \in 1..Len(st.kept) : st.kept[i].kernel => Span(st.kept[i]) \notin st.purge

MergeInv(list, st, m) ==
    /\ KeptApart(st.kept) /\ LastKept(list, st, m) /\ SameKeys(list, st.kept, m)
    /\ KernelKept(list, st.kept, m) /\ KernelPurged(list, st.purge, m)
    /\ KernelThere(list, st, m) /\ NotBoth(st)

LEMMA Elements ==
    ASSUME NEW list \in Seq(Element), NEW i \in 1..Len(list)
    PROVE  list[i].lo \in Int /\ list[i].hi \in Int /\ list[i].kernel \in BOOLEAN
<1>1. list[i] \in Element
  OBVIOUS
<1> QED BY <1>1 DEF Element

LEMMA SameSpan ==
    ASSUME NEW d, NEW e PROVE Span(d) = Span(e) <=> d.lo = e.lo /\ d.hi = e.hi
  BY DEF Span

\* Another element, behind all that were kept, is kept as well.
LEMMA KeepInv ==
    ASSUME NEW list, Mergeable(list), NEW m \in 0..(Len(list) - 1),
           NEW st \in Merging, MergeInv(list, st, m), NEW new \in Merging,
           IsKept(st, list[m + 1], new),
           \A i \in 1..Len(st.kept) : Before(st.kept[i], list[m + 1])
    PROVE  MergeInv(list, new, m + 1)
<1> DEFINE e == list[m + 1]
           k == Len(st.kept)
<1>1. /\ list \in Seq(Element) /\ m \in Nat /\ m + 1 \in 1..Len(list) /\ m + 1 \in Nat
      /\ \A j \in 1..m : j \in 1..Len(list) /\ j < m + 1 /\ j \in 1..(m + 1)
      /\ \A j \in 1..(m + 1) : j \in 1..m \/ j = m + 1
  BY DEF Mergeable
<1>2. st.kept \in Seq(Element) /\ new.kept \in Seq(Element) /\ k \in Nat
  BY DEF Merging
<1>3. e \in Element
  BY <1>1, ElementOfSeq
<1>4. /\ Len(new.kept) = k + 1 /\ new.kept[k + 1] = e /\ \A i \in 1..k : new.kept[i] = st.kept[i]
      /\ k + 1 \in 1..(k + 1) /\ \A i \in 1..k : i \in 1..(k + 1)
      /\ \A i \in 1..(k + 1) : i \in 1..k \/ i = k + 1
  BY <1>2, <1>3 DEF IsKept
<1>5. new.purge = st.purge /\ new.low = e.lo /\ new.high = e.hi
  BY DEF IsKept
<1>6. Fits(e) /\ \A j \in 1..m : list[j].kernel /\ e.kernel => Before(list[j], e)
  BY <1>1 DEF Mergeable
<1>7. /\ \A i \in 1..k : st.kept[i].lo \in Int /\ st.kept[i].hi \in Int
      /\ \A j \in 1..Len(list) : list[j].lo \in Int /\ list[j].hi \in Int
  BY <1>1, <1>2, Elements
<1> HIDE DEF e, k
<1>8. KeptApart(new.kept)
  <2>1. \A i \in 1..(k + 1) : Fits(new.kept[i])
    BY <1>4, <1>6 DEF MergeInv, KeptApart, k
  <2>2. ASSUME NEW i \in 1..(k + 1), NEW j \in 1..(k + 1), i < j PROVE Before(new.kept[i], new.kept[j])
    <3>1. i \in 1..k
      BY <1>2, <2>2
    <3>2. CASE j \in 1..k
      BY <1>4, <2>2, <3>1, <3>2 DEF MergeInv, KeptApart, k
    <3>3. CASE j = k + 1
      BY <1>4, <3>1, <3>3 DEF k, e
    <3> QED BY <1>4, <3>2, <3>3
  <2> QED BY <1>4, <2>1, <2>2 DEF KeptApart
<1>9. LastKept(list, new, m + 1)
  <2>1. m + 1 # 0 /\ k + 1 # 0 /\ e.lo <= list[m + 1].lo
    BY <1>1, <1>2, <1>7 DEF e
  <2> QED BY <1>4, <1>5, <2>1 DEF LastKept
<1>10. SameKeys(list, new.kept, m + 1)
  <2> SUFFICES ASSUME NEW x \in Int
               PROVE  (\E i \in 1..(k + 1) : In(new.kept[i], x)) <=> (\E j \in 1..(m + 1) : In(list[j], x))
    BY <1>4 DEF SameKeys
  <2>1. (\E i \in 1..(k + 1) : In(new.kept[i], x)) <=> In(e, x) \/ \E i \in 1..k : In(st.kept[i], x)
    BY <1>4
  <2>2. (\E j \in 1..(m + 1) : In(list[j], x)) <=> In(e, x) \/ \E j \in 1..m : In(list[j], x)
    BY <1>1 DEF e
  <2> QED BY <2>1, <2>2 DEF MergeInv, SameKeys, k
<1>11. KernelKept(list, new.kept, m + 1)
  <2> SUFFICES ASSUME NEW i \in 1..(k + 1), new.kept[i].kernel
               PROVE  \E j \in 1..(m + 1) : list[j].kernel /\ Span(list[j]) = Span(new.kept[i])
    BY <1>4 DEF KernelKept
  <2>1. CASE i = k + 1
    BY <1>1, <1>4, <2>1 DEF e
  <2>2. CASE i \in 1..k
    BY <1>1, <1>4, <2>2 DEF MergeInv, KernelKept, k
  <2> QED BY <1>4, <2>1, <2>2
<1>12. KernelPurged(list, new.purge, m + 1)
  BY <1>1, <1>5 DEF MergeInv, KernelPurged
<1>13. KernelThere(list, new, m + 1)
  <2> SUFFICES ASSUME NEW j \in 1..(m + 1), list[j].kernel, Span(list[j]) \notin new.purge
               PROVE  \E i \in 1..(k + 1) : new.kept[i].kernel /\ Span(new.kept[i]) = Span(list[j])
    BY <1>4 DEF KernelThere
  <2>1. CASE j = m + 1
    BY <1>4, <2>1 DEF e
  <2>2. CASE j \in 1..m
    <3>1. PICK i \in 1..k : st.kept[i].kernel /\ Span(st.kept[i]) = Span(list[j])
      BY <1>5, <2>2 DEF MergeInv, KernelThere, k
    <3> QED BY <1>4, <3>1
  <2> QED BY <1>1, <2>1, <2>2
<1>14. NotBoth(new)
  <2> SUFFICES ASSUME NEW i \in 1..(k + 1), new.kept[i].kernel PROVE Span(new.kept[i]) \notin st.purge
    BY <1>4, <1>5 DEF NotBoth
  <2>1. CASE i \in 1..k
    BY <1>4, <2>1 DEF MergeInv, NotBoth, k
  <2>2. CASE i = k + 1
    <3> SUFFICES ASSUME Span(e) \in st.purge PROVE FALSE
      BY <1>4, <2>2
    <3>1. PICK j \in 1..m : list[j].kernel /\ Span(list[j]) = Span(e)
      BY DEF MergeInv, KernelPurged
    <3>2. Before(list[j], e) /\ list[j].hi = e.hi
      BY <1>4, <1>6, <2>2, <3>1, SameSpan
    <3> QED BY <1>1, <1>6, <1>7, <3>2 DEF Before, Fits, e
  <2> QED BY <1>4, <2>1, <2>2
<1> QED BY <1>8, <1>9, <1>10, <1>11, <1>12, <1>13, <1>14 DEF MergeInv

\* Another element inside of the last one that was kept is dropped.
LEMMA DropInv ==
    ASSUME NEW list, Mergeable(list), NEW m \in 0..(Len(list) - 1),
           NEW st \in Merging, MergeInv(list, st, m), st.kept # <<>>, NEW new \in Merging,
           Within(st, list[m + 1]), IsDropped(st, list[m + 1], new)
    PROVE  MergeInv(list, new, m + 1)
<1> DEFINE e == list[m + 1]
           k == Len(st.kept)
           prev == st.kept[k]
<1>1. /\ list \in Seq(Element) /\ m \in Nat /\ m + 1 \in 1..Len(list) /\ m + 1 \in Nat
      /\ \A j \in 1..m : j \in 1..Len(list) /\ j < m + 1 /\ j \in 1..(m + 1)
      /\ \A j \in 1..(m + 1) : j \in 1..m \/ j = m + 1
  BY DEF Mergeable
<1>2. st.kept \in Seq(Element) /\ k \in Nat /\ k # 0 /\ k \in 1..k
  BY EmptySeq DEF Merging
<1>3. m # 0 /\ m \in 1..m
  BY <1>1, <1>2 DEF MergeInv, LastKept
<1>4. new.kept = st.kept /\ new.purge = st.purge \cup Gone(e) /\ new.low = st.low /\ new.high = st.high
  BY DEF IsDropped
<1>5. prev.lo = st.low /\ prev.hi = st.high /\ prev.lo <= list[m].lo
  BY <1>2, <1>3 DEF MergeInv, LastKept
<1>6. Fits(e) /\ (\A j \in 1..m : list[j].kernel /\ e.kernel => Before(list[j], e)) /\ list[m].lo <= e.lo
  BY <1>1, <1>3 DEF Mergeable, Ordered
<1>7. /\ \A i \in 1..k : st.kept[i].lo \in Int /\ st.kept[i].hi \in Int
      /\ \A j \in 1..Len(list) : list[j].lo \in Int /\ list[j].hi \in Int
      /\ e.lo \in Int /\ e.hi \in Int /\ e.kernel \in BOOLEAN
  BY <1>1, <1>2, Elements
<1>8. Gone(e) = IF e.kernel THEN {Span(e)} ELSE {}
  BY DEF Gone
<1>9. prev.lo <= e.lo /\ e.hi <= prev.hi
  BY <1>5 DEF Within
<1>a. \A j \in 1..m : e.kernel /\ list[j].kernel => Span(list[j]) # Span(e)
  <2> SUFFICES ASSUME NEW j \in 1..m, e.kernel, list[j].kernel, Span(list[j]) = Span(e) PROVE FALSE
    OBVIOUS
  <2>1. Before(list[j], e) /\ list[j].hi = e.hi
    BY <1>6, SameSpan
  <2> QED BY <1>1, <1>6, <1>7, <2>1 DEF Before, Fits
<1> HIDE DEF e, k, prev
<1>10. KeptApart(new.kept)
  BY <1>4 DEF MergeInv
<1>11. LastKept(list, new, m + 1)
  <2>1. m + 1 # 0 /\ prev.lo <= list[m + 1].lo
    BY <1>1, <1>9 DEF e
  <2> QED BY <1>2, <1>4, <1>5, <2>1 DEF LastKept, prev, k
<1>12. SameKeys(list, new.kept, m + 1)
  <2> SUFFICES ASSUME NEW x \in Int
               PROVE  (\E i \in 1..k : In(st.kept[i], x)) <=> (\E j \in 1..(m + 1) : In(list[j], x))
    BY <1>4 DEF SameKeys, k
  <2>1. In(e, x) => In(prev, x)
    BY <1>2, <1>7, <1>9 DEF In, prev
  <2>2. (\E j \in 1..(m + 1) : In(list[j], x)) <=> In(e, x) \/ \E j \in 1..m : In(list[j], x)
    BY <1>1 DEF e
  <2>3. (\E i \in 1..k : In(st.kept[i], x)) <=> (\E j \in 1..m : In(list[j], x))
    BY DEF MergeInv, SameKeys, k
  <2> QED BY <1>2, <2>1, <2>2, <2>3 DEF prev
<1>13. KernelKept(list, new.kept, m + 1)
  BY <1>1, <1>4 DEF MergeInv, KernelKept
<1>14. KernelPurged(list, new.purge, m + 1)
  <2> SUFFICES ASSUME NEW s \in new.purge PROVE \E j \in 1..(m + 1) : list[j].kernel /\ Span(list[j]) = s
    BY DEF KernelPurged
  <2>1. CASE s \in st.purge
    BY <1>1, <2>1 DEF MergeInv, KernelPurged
  <2>2. CASE s \in Gone(e)
    BY <1>1, <1>8, <2>2 DEF e
  <2> QED BY <1>4, <2>1, <2>2
<1>15. KernelThere(list, new, m + 1)
  <2> SUFFICES ASSUME NEW j \in 1..(m + 1), list[j].kernel, Span(list[j]) \notin new.purge
               PROVE  \E i \in 1..k : st.kept[i].kernel /\ Span(st.kept[i]) = Span(list[j])
    BY <1>4 DEF KernelThere, k
  <2>1. j \in 1..m
    BY <1>1, <1>4, <1>8 DEF e
  <2> QED BY <1>4, <2>1 DEF MergeInv, KernelThere, k
<1>16. NotBoth(new)
  <2> SUFFICES ASSUME NEW i \in 1..k, st.kept[i].kernel PROVE Span(st.kept[i]) \notin new.purge
    BY <1>4 DEF NotBoth, k
  <2>1. Span(st.kept[i]) \notin st.purge
    BY DEF MergeInv, NotBoth, k
  <2>2. PICK j \in 1..m : list[j].kernel /\ Span(list[j]) = Span(st.kept[i])
    BY DEF MergeInv, KernelKept, k
  <2>3. Span(st.kept[i]) \notin Gone(e)
    BY <1>8, <1>a, <2>2
  <2> QED BY <1>4, <2>1, <2>3
<1> QED BY <1>10, <1>11, <1>12, <1>13, <1>14, <1>15, <1>16 DEF MergeInv

\* Another element that reaches beyond the last one that was kept, and
\* overlaps or touches it, becomes one with it.
LEMMA JoinInv ==
    ASSUME NEW list, Mergeable(list), NEW m \in 0..(Len(list) - 1),
           NEW st \in Merging, MergeInv(list, st, m), st.kept # <<>>, NEW new \in Merging,
           ~Within(st, list[m + 1]), Touches(st, list[m + 1]), IsMerged(st, list[m + 1], new)
    PROVE  MergeInv(list, new, m + 1)
<1> DEFINE e == list[m + 1]
           k == Len(st.kept)
           prev == st.kept[k]
           one == new.kept[k]
           gone == IF prev.kernel THEN prev ELSE e
<1>1. /\ list \in Seq(Element) /\ m \in Nat /\ m + 1 \in 1..Len(list) /\ m + 1 \in Nat
      /\ \A j \in 1..m : j \in 1..Len(list) /\ j < m + 1 /\ j \in 1..(m + 1)
      /\ \A j \in 1..(m + 1) : j \in 1..m \/ j = m + 1
  BY DEF Mergeable
<1>2. st.kept \in Seq(Element) /\ k \in Nat /\ k # 0 /\ k \in 1..k
      /\ (\A i \in 1..(k - 1) : i \in 1..k /\ i < k) /\ (\A i \in 1..k : i \in 1..(k - 1) \/ i = k)
  BY EmptySeq DEF Merging
<1>3. m # 0 /\ m \in 1..m
  BY <1>1, <1>2 DEF MergeInv, LastKept
<1>4. /\ Len(new.kept) = k /\ one = One(prev, e) /\ \A i \in 1..(k - 1) : new.kept[i] = st.kept[i]
      /\ new.purge = st.purge \cup Gone(gone) /\ new.low = st.low /\ new.high = e.hi
  BY DEF IsMerged
<1>5. prev.lo = st.low /\ prev.hi = st.high /\ prev.lo <= list[m].lo
  BY <1>2, <1>3 DEF MergeInv, LastKept
<1>6. Fits(e) /\ (\A j \in 1..m : list[j].kernel /\ e.kernel => Before(list[j], e)) /\ list[m].lo <= e.lo
  BY <1>1, <1>3 DEF Mergeable, Ordered
<1>7. /\ \A i \in 1..k : st.kept[i].lo \in Int /\ st.kept[i].hi \in Int
      /\ \A j \in 1..Len(list) : list[j].lo \in Int /\ list[j].hi \in Int
      /\ e.lo \in Int /\ e.hi \in Int /\ e.kernel \in BOOLEAN
      /\ prev.lo \in Int /\ prev.hi \in Int /\ prev.kernel \in BOOLEAN
  BY <1>1, <1>2, Elements
<1>8. Gone(gone) = IF prev.kernel THEN {Span(prev)} ELSE IF e.kernel THEN {Span(e)} ELSE {}
  BY DEF Gone
<1>9. prev.lo <= e.lo /\ prev.hi < e.hi /\ e.lo <= prev.hi + 1
  BY <1>1, <1>3, <1>5, <1>6, <1>7 DEF Within, Touches
<1>a. \A j \in 1..m : e.kernel /\ list[j].kernel => Span(list[j]) # Span(e)
  <2> SUFFICES ASSUME NEW j \in 1..m, e.kernel, list[j].kernel, Span(list[j]) = Span(e) PROVE FALSE
    OBVIOUS
  <2>1. Before(list[j], e) /\ list[j].hi = e.hi
    BY <1>6, SameSpan
  <2> QED BY <1>1, <1>6, <1>7, <2>1 DEF Before, Fits
<1> HIDE DEF e, k, prev, gone, one
<1>b. ~(prev.kernel /\ e.kernel)
  <2> SUFFICES ASSUME prev.kernel, e.kernel PROVE FALSE
    OBVIOUS
  <2>1. PICK j \in 1..m : list[j].kernel /\ Span(list[j]) = Span(prev)
    BY <1>2 DEF MergeInv, KernelKept, prev, k
  <2>2. Before(list[j], e) /\ list[j].hi = prev.hi
    BY <1>6, <2>1, SameSpan
  <2> QED BY <1>1, <1>7, <1>9, <2>2 DEF Before
<1>c. one.lo = prev.lo /\ one.hi = e.hi /\ ~one.kernel
  BY <1>4, <1>b DEF One
<1>d. \A i \in 1..(k - 1) : Before(st.kept[i], prev)
  BY <1>2 DEF MergeInv, KeptApart, prev, k
<1>10. KeptApart(new.kept)
  <2>1. Fits(prev) /\ \A i \in 1..(k - 1) : Fits(st.kept[i])
    BY <1>2 DEF MergeInv, KeptApart, prev, k
  <2>2. Fits(one)
    BY <1>6, <1>7, <1>9, <1>c, <2>1, KeyAssumption DEF Fits
  <2>3. \A i \in 1..k : Fits(new.kept[i])
    BY <1>2, <1>4, <2>1, <2>2 DEF one
  <2>4. ASSUME NEW i \in 1..k, NEW j \in 1..k, i < j PROVE Before(new.kept[i], new.kept[j])
    <3>1. i \in 1..(k - 1)
      BY <1>2, <2>4
    <3>2. CASE j \in 1..(k - 1)
      BY <1>2, <1>4, <2>4, <3>1, <3>2 DEF MergeInv, KeptApart, k
    <3>3. CASE j = k
      <4>1. Before(st.kept[i], prev)
        BY <1>d, <3>1
      <4> QED BY <1>2, <1>4, <1>c, <3>1, <3>3, <4>1 DEF Before, one
    <3> QED BY <1>2, <3>2, <3>3
  <2> QED BY <1>4, <2>3, <2>4 DEF KeptApart
<1>11. LastKept(list, new, m + 1)
  <2>1. m + 1 # 0 /\ one.lo <= list[m + 1].lo
    BY <1>1, <1>9, <1>c DEF e
  <2> QED BY <1>2, <1>4, <1>5, <1>c, <2>1 DEF LastKept, one
<1>12. SameKeys(list, new.kept, m + 1)
  <2> SUFFICES ASSUME NEW x \in Int
               PROVE  (\E i \in 1..k : In(new.kept[i], x)) <=> (\E j \in 1..(m + 1) : In(list[j], x))
    BY <1>4 DEF SameKeys
  <2>1. In(one, x) <=> In(prev, x) \/ In(e, x)
    BY <1>7, <1>9, <1>c DEF In
  <2>2. (\E j \in 1..(m + 1) : In(list[j], x)) <=> In(e, x) \/ \E j \in 1..m : In(list[j], x)
    BY <1>1 DEF e
  <2>3. (\E i \in 1..k : In(st.kept[i], x)) <=> (\E j \in 1..m : In(list[j], x))
    BY DEF MergeInv, SameKeys, k
  <2>4. (\E i \in 1..k : In(new.kept[i], x)) <=> In(one, x) \/ \E i \in 1..(k - 1) : In(st.kept[i], x)
    BY <1>2, <1>4 DEF one
  <2>5. (\E i \in 1..k : In(st.kept[i], x)) <=> In(prev, x) \/ \E i \in 1..(k - 1) : In(st.kept[i], x)
    BY <1>2 DEF prev
  <2> QED BY <2>1, <2>2, <2>3, <2>4, <2>5
<1>13. KernelKept(list, new.kept, m + 1)
  <2> SUFFICES ASSUME NEW i \in 1..k, new.kept[i].kernel
               PROVE  \E j \in 1..(m + 1) : list[j].kernel /\ Span(list[j]) = Span(new.kept[i])
    BY <1>4 DEF KernelKept
  <2>1. i \in 1..(k - 1)
    BY <1>2, <1>c DEF one
  <2> QED BY <1>1, <1>2, <1>4, <2>1 DEF MergeInv, KernelKept, k
<1>14. KernelPurged(list, new.purge, m + 1)
  <2> SUFFICES ASSUME NEW s \in new.purge PROVE \E j \in 1..(m + 1) : list[j].kernel /\ Span(list[j]) = s
    BY DEF KernelPurged
  <2>1. CASE s \in st.purge
    BY <1>1, <2>1 DEF MergeInv, KernelPurged
  <2>2. CASE s \notin st.purge /\ prev.kernel
    <3>1. PICK j \in 1..m : list[j].kernel /\ Span(list[j]) = Span(prev)
      BY <1>2, <2>2 DEF MergeInv, KernelKept, prev, k
    <3> QED BY <1>1, <1>4, <1>8, <2>2, <3>1
  <2>3. CASE s \notin st.purge /\ ~prev.kernel
    BY <1>1, <1>4, <1>8, <2>3 DEF e
  <2> QED BY <2>1, <2>2, <2>3
<1>15. KernelThere(list, new, m + 1)
  <2> SUFFICES ASSUME NEW j \in 1..(m + 1), list[j].kernel, Span(list[j]) \notin new.purge
               PROVE  \E i \in 1..k : new.kept[i].kernel /\ Span(new.kept[i]) = Span(list[j])
    BY <1>4 DEF KernelThere
  <2>1. j \in 1..m
    BY <1>1, <1>4, <1>8, <1>b DEF e
  <2>2. PICK i \in 1..k : st.kept[i].kernel /\ Span(st.kept[i]) = Span(list[j])
    BY <1>4, <2>1 DEF MergeInv, KernelThere, k
  <2>3. i # k
    BY <1>4, <1>8, <2>2 DEF prev
  <2> QED BY <1>2, <1>4, <2>2, <2>3
<1>16. NotBoth(new)
  <2> SUFFICES ASSUME NEW i \in 1..k, new.kept[i].kernel PROVE Span(new.kept[i]) \notin new.purge
    BY <1>4 DEF NotBoth
  <2>1. i \in 1..(k - 1) /\ new.kept[i] = st.kept[i]
    BY <1>2, <1>4, <1>c DEF one
  <2>2. Span(st.kept[i]) \notin st.purge
    BY <1>2, <2>1 DEF MergeInv, NotBoth, k
  <2>3. PICK j \in 1..m : list[j].kernel /\ Span(list[j]) = Span(st.kept[i])
    BY <1>2, <2>1 DEF MergeInv, KernelKept, k
  <2>4. Span(st.kept[i]) # Span(prev)
    <3> SUFFICES ASSUME st.kept[i].hi = prev.hi PROVE FALSE
      BY SameSpan
    <3>1. Before(st.kept[i], prev) /\ Fits(prev)
      BY <1>2, <1>d, <2>1 DEF MergeInv, KeptApart, prev, k
    <3> QED BY <1>2, <1>7, <2>1, <3>1 DEF Before, Fits
  <2>5. Span(st.kept[i]) \notin Gone(gone)
    BY <1>8, <1>a, <2>3, <2>4
  <2> QED BY <1>4, <2>1, <2>2, <2>5
<1> QED BY <1>10, <1>11, <1>12, <1>13, <1>14, <1>15, <1>16 DEF MergeInv

LEMMA BeforeTrans ==
    ASSUME NEW d, NEW e, NEW f, d.hi \in Int, e.lo \in Int, e.hi \in Int, f.lo \in Int,
           Before(d, e), Before(e, f), Fits(e)
    PROVE  Before(d, f)
  BY DEF Before, Fits

\* All elements of the list, merged.
LEMMA AutomergeInv ==
    ASSUME NEW list, Mergeable(list)
    PROVE  Automerge(list) \in Merging /\ MergeInv(list, Automerge(list), Len(list))
<1>1. list \in Seq(Element) /\ Len(list) \in Nat /\ Len(list) \in 0..Len(list)
  BY DEF Mergeable
<1>2. PICK f : Merges(f, list)
  BY <1>1, AutomergeSteps
<1> DEFINE T == {m \in 0..Len(list) : MergeInv(list, f[m], m)}
<1>3. 0 \in T
  <2>1. f[0] = NoneMerged /\ 0 \in 0..Len(list)
    BY <1>1, <1>2 DEF Merges
  <2>2. /\ NoneMerged.kept = <<>> /\ NoneMerged.purge = {} /\ Len(<<>>) = 0 /\ 1..0 = {}
    BY DEF NoneMerged
  <2>3. MergeInv(list, NoneMerged, 0)
    BY <2>2 DEF MergeInv, KeptApart, LastKept, SameKeys, KernelKept, KernelPurged, KernelThere, NotBoth
  <2> QED BY <2>1, <2>3
<1>4. ASSUME NEW m \in 0..(Len(list) - 1), m \in T PROVE m + 1 \in T
  <2> DEFINE st == f[m]
             e == list[m + 1]
             new == f[m + 1]
             k == Len(st.kept)
  <2>1. /\ m + 1 \in 0..Len(list) /\ m + 1 \in 1..Len(list) /\ m \in 0..Len(list) /\ m \in Nat
        /\ MergeInv(list, st, m) /\ e \in Element
    BY <1>1, <1>4
  <2>2. st \in Merging /\ new \in Merging /\ new = MergeStep(st, e)
    BY <1>2, <2>1 DEF Merges
  <2>3. st.kept \in Seq(Element) /\ k \in Nat /\ (st.kept = <<>> <=> k = 0) /\ e.lo \in Int
        /\ \A i \in 1..k : st.kept[i].lo \in Int /\ st.kept[i].hi \in Int
    <3>1. st.kept \in Seq(Element)
      BY <2>2 DEF Merging
    <3>2. e.lo \in Int
      BY <2>1 DEF Element
    <3> HIDE DEF st
    <3> QED BY <3>1, <3>2, Elements, EmptySeq
  <2>0. SUFFICES MergeInv(list, new, m + 1)
    BY <2>1
  <2> HIDE DEF st, e, new
  <2>4. CASE st.kept = <<>> /\ IsKept(st, e, new)
    <3>1. \A i \in 1..Len(st.kept) : Before(st.kept[i], e)
      BY <2>3, <2>4
    <3> QED BY <2>1, <2>2, <2>4, <3>1, KeepInv DEF e, new
  <2>5. CASE st.kept # <<>> /\ Within(st, e) /\ IsDropped(st, e, new)
    BY <2>1, <2>2, <2>5, DropInv DEF e, new
  <2>6. CASE st.kept # <<>> /\ ~Within(st, e) /\ Touches(st, e) /\ IsMerged(st, e, new)
    BY <2>1, <2>2, <2>6, JoinInv DEF e, new
  <2>7. CASE st.kept # <<>> /\ ~Within(st, e) /\ ~Touches(st, e) /\ IsKept(st, e, new)
    <3>1. k # 0 /\ k \in 1..k /\ st.kept[k].hi = st.high /\ ~(e.lo <= st.high + 1)
      BY <2>1, <2>3, <2>7 DEF MergeInv, LastKept, Touches
    <3>2. Before(st.kept[k], e)
      BY <2>3, <3>1 DEF Before
    <3>3. ASSUME NEW i \in 1..k PROVE Before(st.kept[i], e)
      <4>1. i = k \/ (Before(st.kept[i], st.kept[k]) /\ Fits(st.kept[k]))
        BY <2>1, <2>3, <3>1 DEF MergeInv, KeptApart
      <4>2. /\ st.kept[i].hi \in Int /\ st.kept[k].lo \in Int /\ st.kept[k].hi \in Int
        BY <2>3, <3>1
      <4>3. Before(st.kept[i], st.kept[k]) /\ Fits(st.kept[k]) => Before(st.kept[i], e)
        BY <2>3, <3>2, <4>2, BeforeTrans
      <4> QED BY <3>2, <4>1, <4>3
    <3> QED BY <2>1, <2>2, <2>7, <3>3, KeepInv DEF e, new
  <2> QED BY <2>1, <2>2, <2>4, <2>5, <2>6, <2>7, MergeStepIs
<1>5. 0..Len(list) \subseteq T
  <2> HIDE DEF T
  <2> QED BY <1>1, <1>3, <1>4, Upto
<1> QED BY <1>1, <1>2, <1>5 DEF Merges
-----------------------------------------------------------------------------
(***************************************************************************)
(* Intervals and their ends.                                               *)
(***************************************************************************)
Disjoint(S) == \A r, s \in S : r = s \/ r.hi < s.lo \/ s.hi < r.lo

LEMMA SpanType ==
    ASSUME NEW s \in Spans
    PROVE  /\ s.lo \in 0..MaxKey /\ s.hi \in 0..MaxKey /\ s.lo <= s.hi /\ s = [lo |-> s.lo, hi |-> s.hi]
           /\ s.lo \in Nat /\ s.hi \in Nat /\ Fits(s)
<1>1. s \in [lo : 0..MaxKey, hi : 0..MaxKey] /\ s.lo <= s.hi
  BY DEF Spans
<1> QED BY <1>1, KeyAssumption DEF Fits

\* An element that fits is one that the kernel can hold.
LEMMA FitsSpan ==
    ASSUME NEW e, e.lo \in Int, e.hi \in Int, Fits(e) PROVE Span(e) \in Spans
<1>1. e.lo \in 0..MaxKey /\ e.hi \in 0..MaxKey /\ e.lo <= e.hi
  BY KeyAssumption DEF Fits
<1>2. Span(e) = [lo |-> e.lo, hi |-> e.hi]
  BY DEF Span
<1> QED BY <1>1, <1>2 DEF Spans

\* set_to_intervals, interval_map_decompose: the elements that stand for
\* intervals which do not overlap stand for no others, with or without an end
\* at zero.
LEMMA DecomposesToItself ==
    ASSUME NEW S \in SUBSET Spans, Disjoint(S), NEW X \in SUBSET {End(0)}
    PROVE  Decompose(Ends(S) \cup X) = S
<1> DEFINE E == Ends(S) \cup X
<1>1. \A s \in S : s.lo \in Nat /\ s.hi \in Nat /\ s.lo <= s.hi /\ s.hi <= MaxKey
  BY SpanType, KeyAssumption
<1>2. ASSUME NEW e \in E
      PROVE  \/ e.key = 0
             \/ \E r \in S : e = Start(r.lo) /\ e.key = r.lo
             \/ \E r \in S : r.hi < MaxKey /\ e.key = r.hi + 1
  BY DEF Ends, Start, End
<1>3. ASSUME NEW s \in S PROVE Start(s.lo) \in E /\ (s.hi < MaxKey => End(s.hi + 1) \in E)
  BY DEF Ends
<1>4. ASSUME NEW k \in Int, Start(k) \in E PROVE \E r \in S : r.lo = k
  BY <1>4 DEF Ends, Start, End
<1> HIDE DEF E
<1>5. ASSUME NEW s \in S PROVE s \in Decompose(E)
  <2>1. ASSUME NEW e \in E, s.lo < e.key, e.key <= s.hi PROVE FALSE
    <3>1. CASE e.key = 0
      BY <1>1, <2>1, <3>1
    <3>2. ASSUME NEW r \in S, e.key = r.lo PROVE FALSE
      BY <1>1, <2>1, <3>2 DEF Disjoint
    <3>3. ASSUME NEW r \in S, e.key = r.hi + 1 PROVE FALSE
      BY <1>1, <2>1, <3>3 DEF Disjoint
    <3> QED BY <1>2, <3>1, <3>2, <3>3
  <2>2. s.hi = MaxKey \/ s.hi < MaxKey
    BY <1>1, KeyAssumption
  <2> QED BY <1>3, <2>1, <2>2 DEF Decompose
<1>6. ASSUME NEW s \in Decompose(E) PROVE s \in S
  <2>1. /\ s \in Spans /\ Start(s.lo) \in E
        /\ s.hi = MaxKey \/ Start(s.hi + 1) \in E \/ End(s.hi + 1) \in E
        /\ \A e \in E : ~(s.lo < e.key /\ e.key <= s.hi)
    BY DEF Decompose
  <2>2. s.lo \in Nat /\ s.hi \in Nat /\ s.lo <= s.hi /\ s.hi <= MaxKey
    BY <2>1, SpanType, KeyAssumption
  <2>3. PICK r \in S : r.lo = s.lo
    BY <1>4, <2>1, <2>2
  <2>4. r \in Decompose(E)
    BY <1>5
  <2>5. ~(r.hi < s.hi)
    <3> SUFFICES ASSUME r.hi < s.hi PROVE FALSE
      OBVIOUS
    <3>1. End(r.hi + 1) \in E /\ End(r.hi + 1).key = r.hi + 1
      BY <1>1, <1>3, <2>2, KeyAssumption DEF End
    <3> QED BY <1>1, <2>1, <2>2, <2>3, <3>1
  <2>6. ~(s.hi < r.hi)
    <3> SUFFICES ASSUME s.hi < r.hi PROVE FALSE
      OBVIOUS
    <3>1. s.hi # MaxKey /\ Start(s.hi + 1).key = s.hi + 1 /\ End(s.hi + 1).key = s.hi + 1
      BY <1>1, <2>2, KeyAssumption DEF Start, End
    <3>2. \A e \in E : ~(r.lo < e.key /\ e.key <= r.hi)
      BY <2>4 DEF Decompose
    <3> QED BY <1>1, <2>1, <2>2, <2>3, <3>1, <3>2
  <2>7. r.hi = s.hi
    BY <1>1, <2>2, <2>5, <2>6
  <2> QED BY <2>1, <2>3, <2>7, SpanType
<1> QED BY <1>5, <1>6 DEF E

\* The ends of some intervals are not those of others.
LEMMA EndsOfRest ==
    ASSUME NEW S \in SUBSET Spans, Disjoint(S), NEW P \in SUBSET S
    PROVE  /\ Ends(P) \subseteq Ends(S) /\ Ends(S) \ Ends(P) = Ends(S \ P)
           /\ End(0) \notin Ends(S)
<1>1. \A s \in S : s.lo \in Nat /\ s.hi \in Nat /\ s.lo <= s.hi
  BY SpanType
<1>2. \A r, s \in S : (r.lo = s.lo => r = s) /\ (r.hi = s.hi => r = s)
  BY <1>1 DEF Disjoint
<1>3. Ends(P) \subseteq Ends(S) /\ Ends(S \ P) \subseteq Ends(S)
  BY DEF Ends
<1>4. ASSUME NEW e \in Ends(S), e \notin Ends(P) PROVE e \in Ends(S \ P)
  BY <1>4 DEF Ends
<1>5. ASSUME NEW e \in Ends(S \ P), e \in Ends(P) PROVE FALSE
  <2>0. e.end = TRUE \/ e.end = FALSE
    BY DEF Ends, Start, End
  <2>1. CASE e.end = TRUE
    <3>1. PICK r \in S \ P : e = End(r.hi + 1)
      BY <2>1 DEF Ends, Start, End
    <3>2. PICK s \in P : e = End(s.hi + 1)
      BY <1>5, <2>1 DEF Ends, Start, End
    <3>3. r.hi + 1 = s.hi + 1
      BY <3>1, <3>2 DEF End
    <3> QED BY <1>1, <1>2, <3>3
  <2>2. CASE e.end = FALSE
    <3>1. PICK r \in S \ P : e = Start(r.lo)
      BY <2>2 DEF Ends, Start, End
    <3>2. PICK s \in P : e = Start(s.lo)
      BY <1>5, <2>2 DEF Ends, Start, End
    <3>3. r.lo = s.lo
      BY <3>1, <3>2 DEF Start
    <3> QED BY <1>2, <3>3
  <2> QED BY <2>0, <2>1, <2>2
<1>6. End(0) \notin Ends(S)
  <2> SUFFICES ASSUME NEW s \in S, End(0) = Start(s.lo) \/ End(0) = End(s.hi + 1) PROVE FALSE
    BY DEF Ends
  <2>1. End(0) # Start(s.lo)
    BY DEF Start, End
  <2>2. s.hi + 1 = 0
    BY <2>1 DEF End
  <2> QED BY <1>1, <2>2
<1> QED BY <1>3, <1>4, <1>5, <1>6

LEMMA EndsOfBoth == ASSUME NEW S, NEW T PROVE Ends(S \cup T) = Ends(S) \cup Ends(T)
  BY DEF Ends

-----------------------------------------------------------------------------
(***************************************************************************)
(* What is sent to the kernel, and what the kernel makes of it.            *)
(***************************************************************************)
Clear(d, e) == d.hi < e.lo /\ (automerge => d.hi + 1 < e.lo)

LEMMA NewOnesAre ==
    ASSUME NEW list, NEW s
    PROVE  s \in NewOnes(list) <=> \E i \in DOMAIN list : ~list[i].kernel /\ Span(list[i]) = s
  BY DEF NewOnes

LEMMA ApartIsDisjoint == ASSUME NEW S, Apart(S) PROVE Disjoint(S)
  BY DEF Apart, Disjoint

\* A list of elements that do not overlap, unless they are the same, with
\* those of the kernel that are not to be deleted.
Sendable(list, purge) ==
    /\ list \in Seq(Element) /\ purge \in SUBSET Held
    /\ \A i \in DOMAIN list : Fits(list[i])
    /\ \A i, j \in DOMAIN list : \/ Span(list[i]) = Span(list[j])
                                 \/ Clear(list[i], list[j]) \/ Clear(list[j], list[i])
    /\ \A i \in DOMAIN list : list[i].kernel => Span(list[i]) \in Held \ purge
    /\ \A s \in Held \ purge : \E i \in DOMAIN list : list[i].kernel /\ Span(list[i]) = s

\* The kernel takes it and holds the elements of the list then.
LEMMA Sent ==
    ASSUME Whole, Apart(Held), NEW purge, NEW list, Sendable(list, purge),
           automerge' = automerge, Send(purge, NewOnes(list), list)
    PROVE  /\ status' = status /\ Held' = SpansOf(list) /\ Whole' /\ Known' /\ Apart(Held)'
           /\ cached' = [i \in DOMAIN list |-> Elem(list[i], TRUE)]
<1> DEFINE new == NewOnes(list)
           X == ends \cap {End(0)}
           rest == Held \ purge
           L == SpansOf(list)
<1>1. Held \in SUBSET Spans /\ Disjoint(Held)
  BY ApartIsDisjoint DEF Held, Decompose
<1>2. ends = Ends(Held) \cup X
  BY <1>1, EndsOfRest DEF Whole
<1>3. L = rest \cup new
  <2>1. ASSUME NEW i \in DOMAIN list PROVE Span(list[i]) \in rest \cup new
    <3>1. list[i].kernel => Span(list[i]) \in rest
      BY DEF Sendable
    <3>2. ~list[i].kernel => Span(list[i]) \in new
      BY NewOnesAre
    <3> QED BY <3>1, <3>2
  <2>2. ASSUME NEW s \in rest PROVE s \in L
    BY DEF Sendable, SpansOf
  <2>3. ASSUME NEW s \in new PROVE s \in L
    BY NewOnesAre DEF SpansOf
  <2> QED BY <2>1, <2>2, <2>3 DEF SpansOf
<1>4. \A i \in DOMAIN list : list[i].lo \in Int /\ list[i].hi \in Int /\ Fits(list[i])
  BY Elements DEF Sendable
<1>5. L \in SUBSET Spans
  BY <1>4, FitsSpan DEF SpansOf
<1>6. ASSUME NEW r \in L, NEW s \in L PROVE r = s \/ Clear(r, s) \/ Clear(s, r)
  <2>1. PICK i \in DOMAIN list : r = Span(list[i])
    BY DEF SpansOf
  <2>2. PICK j \in DOMAIN list : s = Span(list[j])
    BY DEF SpansOf
  <2>3. r.lo = list[i].lo /\ r.hi = list[i].hi /\ s.lo = list[j].lo /\ s.hi = list[j].hi
    BY <2>1, <2>2 DEF Span
  <2> QED BY <2>1, <2>2, <2>3 DEF Sendable, Clear
<1>7. Apart(L) /\ Disjoint(L) /\ Disjoint(rest)
  BY <1>1, <1>6, ApartIsDisjoint DEF Apart, Clear, Disjoint
<1>8. ends \ Ends(purge) = Ends(rest) \cup X /\ Ends(purge) \subseteq ends
  <2>1. purge \in SUBSET Held
    BY DEF Sendable
  <2> QED BY <1>1, <1>2, <2>1, EndsOfRest
<1>9. Decompose(ends \ Ends(purge)) = rest
  <2>1. rest \in SUBSET Spans /\ X \in SUBSET {End(0)}
    BY <1>1
  <2> HIDE DEF rest, X
  <2> QED BY <1>7, <1>8, <2>1, DecomposesToItself
<1>10. ~AddRefused(ends \ Ends(purge), new)
  <2> SUFFICES ASSUME NEW s \in new, NEW r \in rest \cup new, r # s, r.lo <= s.hi, s.lo <= r.hi PROVE FALSE
    BY <1>9 DEF AddRefused
  <2>1. r.hi < s.lo \/ s.hi < r.lo
    BY <1>3, <1>7 DEF Disjoint
  <2>2. r.lo \in Nat /\ r.hi \in Nat /\ s.lo \in Nat /\ s.hi \in Nat
    BY <1>3, <1>5, SpanType
  <2> QED BY <2>1, <2>2
<1>11. /\ status' = status /\ ends' = Ends(L) \cup (X \cup FirstSegment(new))
       /\ cached' = [i \in DOMAIN list |-> Elem(list[i], TRUE)]
  <2>1. ~Refused(purge, new)
    BY <1>8, <1>10 DEF Refused
  <2>2. /\ status' = status /\ ends' = (ends \ Ends(purge)) \cup Ends(new) \cup FirstSegment(new)
        /\ cached' = [i \in DOMAIN list |-> Elem(list[i], TRUE)]
    BY <2>1 DEF Send
  <2>3. Ends(L) = Ends(rest) \cup Ends(new)
    BY <1>3, EndsOfBoth
  <2> QED BY <1>8, <2>2, <2>3
<1>12. X \cup FirstSegment(new) \in SUBSET {End(0)}
  BY DEF FirstSegment
<1>13. Decompose(ends') = L
  BY <1>5, <1>7, <1>11, <1>12, DecomposesToItself
<1>14. Whole'
  <2>1. End(0) \notin Ends(L)
    BY <1>5, <1>7, EndsOfRest
  <2> QED BY <1>11, <1>12, <1>13, <2>1 DEF Whole, Held
<1>15. SpansOf(cached') = L
  <2>1. DOMAIN cached' = DOMAIN list /\ \A i \in DOMAIN list : Span(cached'[i]) = Span(list[i])
    BY <1>11 DEF Elem, Span
  <2> QED BY <2>1 DEF SpansOf
<1>16. Apart(Held)'
  BY <1>7, <1>13 DEF Apart, Held
<1> QED BY <1>11, <1>13, <1>14, <1>15, <1>16 DEF Known, Held
-----------------------------------------------------------------------------
(***************************************************************************)
(* The copy, and the elements of a command with it.                        *)
(***************************************************************************)
Copy == Seq([lo : Int, hi : Int, kernel : {TRUE}])
Named(given) == {given[i] : i \in DOMAIN given}

LEMMA ListOf ==
    ASSUME NEW T, NEW N \in Nat, NEW list \in [1..N -> T]
    PROVE  list \in Seq(T) /\ Len(list) = N /\ DOMAIN list = 1..N
  BY SeqDef

LEMMA PlacesOf == ASSUME NEW N \in Nat PROVE IsFiniteSet(1..N) /\ Cardinality(1..N) = N
  BY FS_Interval

LEMMA Joined ==
    ASSUME NEW T, NEW s \in Seq(T), NEW t \in Seq(T)
    PROVE  /\ s \o t \in Seq(T) /\ Len(s \o t) = Len(s) + Len(t)
           /\ DOMAIN (s \o t) = 1..(Len(s) + Len(t))
           /\ \A a \in 1..(Len(s) + Len(t)) :
                  (s \o t)[a] = IF a <= Len(s) THEN s[a] ELSE t[a - Len(s)]
<1>1. s \o t \in Seq(T) /\ Len(s \o t) = Len(s) + Len(t)
  BY ConcatProperties
<1>2. \A a \in 1..(Len(s) + Len(t)) : (s \o t)[a] = IF a <= Len(s) THEN s[a] ELSE t[a - Len(s)]
  BY ConcatProperties
<1> QED BY <1>1, <1>2, LenProperties

LEMMA ItemsOf ==
    ASSUME NEW T, NEW list \in Seq(T)
    PROVE  /\ Len(list) \in Nat /\ DOMAIN list = 1..Len(list) /\ list = [i \in 1..Len(list) |-> list[i]]
           /\ \A i \in 1..Len(list) : list[i] \in T
  OBVIOUS

\* A list is in order if its neighbours are.
LEMMA NeighboursOrdered ==
    ASSUME NEW list \in Seq(Element), \A i \in 1..(Len(list) - 1) : list[i].lo <= list[i + 1].lo
    PROVE  Ordered(list)
<1> DEFINE N == Len(list)
<1>1. N \in Nat /\ DOMAIN list = 1..N /\ \A i \in 1..N : list[i].lo \in Int
  BY Elements
<1> SUFFICES ASSUME NEW i \in 1..N, NEW j \in 1..N, i < j PROVE list[i].lo <= list[j].lo
  BY <1>1 DEF Ordered
<1> DEFINE T == {m \in 0..N : i < m => list[i].lo <= list[m].lo}
<1>2. 0 \in T
  BY <1>1
<1>3. ASSUME NEW m \in 0..(N - 1), m \in T PROVE m + 1 \in T
  <2>1. m + 1 \in 1..N /\ m + 1 \in 0..N
    BY <1>1
  <2>2. CASE i < m
    <3>1. list[i].lo <= list[m].lo /\ list[m].lo <= list[m + 1].lo /\ m \in 1..N
      BY <1>1, <1>3, <2>2
    <3> QED BY <1>1, <2>1, <3>1
  <2>3. CASE i = m
    BY <1>1, <2>1, <2>3
  <2>4. CASE m < i
    BY <1>1, <2>1, <2>4
  <2> QED BY <1>1, <2>2, <2>3, <2>4
<1> HIDE DEF T
<1>4. 0..N \subseteq T
  BY <1>1, <1>2, <1>3, Upto
<1> QED BY <1>1, <1>4 DEF T

\* A faithful copy has every interval once, and they are apart.
LEMMA CopyIs ==
    ASSUME cached \in Copy, Faithful
    PROVE  /\ cached \in Seq(Element) /\ Ordered(cached)
           /\ \A i \in DOMAIN cached :
                  cached[i].kernel /\ Span(cached[i]) \in Held /\ Fits(cached[i])
           /\ \A s \in Held : \E i \in DOMAIN cached : Span(cached[i]) = s
           /\ \A i, j \in DOMAIN cached :
                  i # j => Clear(cached[i], cached[j]) \/ Clear(cached[j], cached[i])
<1> DEFINE N == Len(cached)
           f == [i \in 1..N |-> Span(cached[i])]
<1>1. /\ N \in Nat /\ DOMAIN cached = 1..N /\ cached = [i \in 1..N |-> cached[i]]
      /\ \A i \in 1..N : cached[i] \in [lo : Int, hi : Int, kernel : {TRUE}]
  BY ItemsOf DEF Copy
<1>2. cached \in Seq(Element)
  <2>1. \A i \in 1..N : cached[i] \in Element
    BY <1>1 DEF Element
  <2> HIDE DEF N
  <2>2. cached \in [1..N -> Element]
    BY <1>1, <2>1
  <2> QED BY <1>1, <2>2, ListOf
<1>3. Ordered(cached)
  BY <1>2, NeighboursOrdered DEF Faithful, InOrder
<1>4. \A i \in 1..N : cached[i].kernel /\ Span(cached[i]) \in Held
  BY <1>1 DEF Faithful, Known, SpansOf
<1>5. \A s \in Held : \E i \in 1..N : Span(cached[i]) = s
  BY <1>1 DEF Faithful, Known, SpansOf
<1>6. \A i \in 1..N : Fits(cached[i])
  <2> SUFFICES ASSUME NEW i \in 1..N PROVE Fits(cached[i])
    OBVIOUS
  <2>1. Span(cached[i]) \in Spans /\ Span(cached[i]).lo = cached[i].lo /\ Span(cached[i]).hi = cached[i].hi
    BY <1>4 DEF Held, Decompose, Span
  <2> QED BY <2>1, SpanType DEF Fits
<1>7. f \in Surjection(1..N, Held)
  <2>1. f \in [1..N -> Held]
    BY <1>4
  <2>2. \A s \in Held : \E i \in 1..N : f[i] = s
    BY <1>5
  <2> HIDE DEF f
  <2> QED BY <2>1, <2>2 DEF Surjection
<1>8. f \in Injection(1..N, Held)
  <2>2. Cardinality(Held) = N
    BY DEF Faithful
  <2> HIDE DEF f, N
  <2>1. IsFiniteSet(1..N) /\ Cardinality(1..N) = N
    BY <1>1, FS_Interval
  <2> QED BY <1>7, <2>1, <2>2, FS_Surjection
<1>9. \A i, j \in 1..N : i # j => Span(cached[i]) # Span(cached[j])
  <2>1. \A i \in 1..N : f[i] = Span(cached[i])
    OBVIOUS
  <2> HIDE DEF f
  <2> QED BY <1>8, <2>1 DEF Injection, IsInjective
<1>10. ASSUME NEW i \in 1..N, NEW j \in 1..N, i # j
       PROVE  Clear(cached[i], cached[j]) \/ Clear(cached[j], cached[i])
  <2> DEFINE r == Span(cached[i])
             s == Span(cached[j])
  <2>1. r.lo = cached[i].lo /\ r.hi = cached[i].hi /\ s.lo = cached[j].lo /\ s.hi = cached[j].hi
    BY DEF Span
  <2>2. r \in Held /\ s \in Held /\ r # s
    BY <1>4, <1>9, <1>10
  <2> HIDE DEF r, s
  <2> QED BY <2>1, <2>2 DEF Faithful, Apart, Clear
<1> QED BY <1>1, <1>2, <1>3, <1>4, <1>5, <1>6, <1>10

\* The elements of a command, sorted.
LEMMA GivenIs ==
    ASSUME NEW given \in Seq(Spans), NEW sorted, sorted = ExprSort(Elems(given, FALSE))
    PROVE  /\ sorted \in Seq(Element) /\ Ordered(sorted)
           /\ \A i \in DOMAIN sorted :
                  ~sorted[i].kernel /\ Span(sorted[i]) \in Named(given) /\ Fits(sorted[i])
           /\ \A s \in Named(given) : \E i \in DOMAIN sorted : Span(sorted[i]) = s
<1> DEFINE all == Elems(given, FALSE)
<1>1. DOMAIN given = 1..Len(given) /\ Len(given) \in Nat /\ \A i \in 1..Len(given) : given[i] \in Spans
  OBVIOUS
<1>2. DOMAIN all = 1..Len(given)
      /\ \A i \in 1..Len(given) : ~all[i].kernel /\ Span(all[i]) = given[i] /\ all[i] \in Element /\ Fits(all[i])
  <2>1. DOMAIN all = 1..Len(given) /\ \A i \in 1..Len(given) : all[i] = Elem(given[i], FALSE)
    BY <1>1 DEF Elems
  <2> HIDE DEF all
  <2> SUFFICES ASSUME NEW i \in 1..Len(given)
               PROVE  ~all[i].kernel /\ Span(all[i]) = given[i] /\ all[i] \in Element /\ Fits(all[i])
    BY <2>1
  <2>2. all[i] = [lo |-> given[i].lo, hi |-> given[i].hi, kernel |-> FALSE]
    BY <2>1 DEF Elem
  <2>3. given[i].lo \in Nat /\ given[i].hi \in Nat /\ Fits(given[i]) /\ given[i] = [lo |-> given[i].lo, hi |-> given[i].hi]
    BY <1>1, SpanType
  <2> QED BY <2>2, <2>3 DEF Span, Element, Fits
<1>3. all \in Seq(Element)
  <2>1. all = [i \in 1..Len(given) |-> Elem(given[i], FALSE)]
    BY <1>1 DEF Elems
  <2> HIDE DEF all
  <2>2. all \in [1..Len(given) -> Element]
    BY <1>2, <2>1
  <2> QED BY <1>1, <2>2, ListOf
<1> HIDE DEF all
<1>4. sorted \in Seq(Element) /\ Len(sorted) = Len(all) /\ Ordered(sorted)
  BY <1>3, Sorted DEF all
<1>5. PICK p : Shuffled(sorted, all, p)
  BY <1>3, Sorted DEF all
<1>6. DOMAIN sorted = DOMAIN all /\ \A i \in DOMAIN all : p[i] \in DOMAIN all /\ sorted[i] = all[p[i]]
  BY <1>5 DEF Shuffled
<1>7. ASSUME NEW i \in DOMAIN sorted
      PROVE  ~sorted[i].kernel /\ Span(sorted[i]) \in Named(given) /\ Fits(sorted[i])
  <2>1. p[i] \in 1..Len(given) /\ sorted[i] = all[p[i]]
    BY <1>2, <1>6
  <2> QED BY <1>1, <1>2, <2>1 DEF Named
<1>8. ASSUME NEW s \in Named(given) PROVE \E i \in DOMAIN sorted : Span(sorted[i]) = s
  <2>1. PICK i \in DOMAIN all : Span(all[i]) = s
    BY <1>1, <1>2 DEF Named
  <2>2. PICK k \in DOMAIN all : p[k] = i
    BY <1>5, <2>1 DEF Shuffled
  <2> QED BY <1>6, <2>1, <2>2
<1> QED BY <1>4, <1>7, <1>8

\* set_sort_splice: the list has the elements of a faithful copy, each once,
\* and those of the command, in order.
Both(list, given) ==
    /\ list \in Seq(Element) /\ Ordered(list)
    /\ \A i \in DOMAIN list :
           Fits(list[i]) /\ Span(list[i]) \in IF list[i].kernel THEN Held ELSE Named(given)
    /\ \A s \in Held : \E i \in DOMAIN list : list[i].kernel /\ Span(list[i]) = s
    /\ \A s \in Named(given) : \E i \in DOMAIN list : ~list[i].kernel /\ Span(list[i]) = s
    /\ \A i, j \in DOMAIN list :
           i # j /\ list[i].kernel /\ list[j].kernel => Clear(list[i], list[j]) \/ Clear(list[j], list[i])

LEMMA SortSpliceIs ==
    ASSUME cached \in Copy, Faithful, NEW given \in Seq(Spans)
    PROVE  Both(SortSplice(given), given)
<1> DEFINE sorted == ExprSort(Elems(given, FALSE))
           all == cached \o sorted
           list == SortSplice(given)
           len == Len(cached)
<1>1. /\ sorted \in Seq(Element) /\ Ordered(sorted)
      /\ \A i \in DOMAIN sorted :
                  ~sorted[i].kernel /\ Span(sorted[i]) \in Named(given) /\ Fits(sorted[i])
      /\ \A s \in Named(given) : \E i \in DOMAIN sorted : Span(sorted[i]) = s
  BY GivenIs
<1> HIDE DEF sorted
<1>2. list \in Seq(Element) /\ Len(list) = len + Len(sorted) /\ Ordered(list)
  BY <1>1, CopyIs, Spliced DEF SortSplice, sorted
<1>3. PICK p : Shuffled(list, all, p)
  BY <1>1, CopyIs, Spliced DEF SortSplice, sorted
<1>4. cached \in Seq(Element)
  BY CopyIs
<1>5. len \in Nat /\ Len(sorted) \in Nat /\ DOMAIN cached = 1..len /\ DOMAIN sorted = 1..Len(sorted)
      /\ DOMAIN all = 1..(len + Len(sorted))
      /\ \A i \in 1..(len + Len(sorted)) : all[i] = IF i <= len THEN cached[i] ELSE sorted[i - len]
  BY <1>1, <1>4
<1> HIDE DEF all, list, len
<1>6. \A i \in DOMAIN all : \/ i \in DOMAIN cached /\ all[i] = cached[i] /\ all[i].kernel
                            \/ i \notin DOMAIN cached /\ i - len \in DOMAIN sorted
                               /\ all[i] = sorted[i - len] /\ ~all[i].kernel
  <2> SUFFICES ASSUME NEW i \in DOMAIN all
               PROVE  \/ i \in DOMAIN cached /\ all[i] = cached[i] /\ all[i].kernel
                      \/ i \notin DOMAIN cached /\ i - len \in DOMAIN sorted
                               /\ all[i] = sorted[i - len] /\ ~all[i].kernel
    OBVIOUS
  <2>1. CASE i <= len
    <3>1. i \in DOMAIN cached /\ all[i] = cached[i]
      BY <1>5, <2>1
    <3> QED BY <3>1, CopyIs
  <2>2. CASE ~(i <= len)
    <3>1. i \notin DOMAIN cached /\ i - len \in DOMAIN sorted /\ all[i] = sorted[i - len]
      BY <1>5, <2>2
    <3> QED BY <1>1, <3>1
  <2> QED BY <2>1, <2>2
<1>7. /\ \A i \in DOMAIN cached : i \in DOMAIN all /\ all[i] = cached[i]
      /\ \A i \in DOMAIN sorted : i + len \in DOMAIN all /\ all[i + len] = sorted[i]
  <2>1. \A i \in DOMAIN sorted : i + len \in DOMAIN all /\ ~(i + len <= len) /\ (i + len) - len = i
    BY <1>5
  <2>2. \A i \in DOMAIN cached : i \in DOMAIN all /\ i <= len
    BY <1>5
  <2> QED BY <1>5, <2>1, <2>2
<1>8. DOMAIN list = DOMAIN all /\ (\A i \in DOMAIN list : p[i] \in DOMAIN all /\ list[i] = all[p[i]])
      /\ (\A i \in DOMAIN all : \E k \in DOMAIN list : list[k] = all[i])
      /\ (\A i, j \in DOMAIN list : p[i] = p[j] => i = j)
  BY <1>3 DEF Shuffled
<1>9. ASSUME NEW i \in DOMAIN list
      PROVE  Fits(list[i]) /\ Span(list[i]) \in IF list[i].kernel THEN Held ELSE Named(given)
  <2>1. p[i] \in DOMAIN all /\ list[i] = all[p[i]]
    BY <1>8
  <2>2. CASE p[i] \in DOMAIN cached
    BY <1>6, <2>1, <2>2, CopyIs
  <2>3. CASE p[i] \notin DOMAIN cached
    BY <1>1, <1>6, <2>1, <2>3
  <2> QED BY <2>2, <2>3
<1>10. ASSUME NEW s \in Held PROVE \E i \in DOMAIN list : list[i].kernel /\ Span(list[i]) = s
  <2>1. PICK i \in DOMAIN cached : Span(cached[i]) = s /\ cached[i].kernel
    BY CopyIs
  <2> QED BY <1>7, <1>8, <2>1
<1>11. ASSUME NEW s \in Named(given) PROVE \E i \in DOMAIN list : ~list[i].kernel /\ Span(list[i]) = s
  <2>1. PICK i \in DOMAIN sorted : Span(sorted[i]) = s /\ ~sorted[i].kernel
    BY <1>1
  <2> QED BY <1>7, <1>8, <2>1
<1>12. ASSUME NEW i \in DOMAIN list, NEW j \in DOMAIN list, i # j, list[i].kernel, list[j].kernel
       PROVE  Clear(list[i], list[j]) \/ Clear(list[j], list[i])
  <2>1. p[i] \in DOMAIN cached /\ p[j] \in DOMAIN cached /\ p[i] # p[j]
        /\ list[i] = cached[p[i]] /\ list[j] = cached[p[j]]
    BY <1>6, <1>8, <1>12
  <2> QED BY <2>1, CopyIs
<1> QED BY <1>2, <1>9, <1>10, <1>11, <1>12 DEF Both, list
LEMMA KeysOf ==
    ASSUME NEW S \in SUBSET Spans, NEW x
    PROVE  x \in Points(S) <=> x \in Int /\ \E s \in S : In(s, x)
<1>1. \A s \in S : s.lo \in Int /\ s.hi \in Int
  BY SpanType
<1>2. ASSUME NEW s \in S PROVE x \in s.lo..s.hi <=> x \in Int /\ In(s, x)
  BY <1>1 DEF In
<1> QED BY <1>2 DEF Points

LEMMA KeysOfList ==
    ASSUME NEW list \in Seq(Element), \A i \in DOMAIN list : Fits(list[i]), NEW x \in Int
    PROVE  /\ SpansOf(list) \in SUBSET Spans
           /\ x \in Points(SpansOf(list)) <=> \E i \in 1..Len(list) : In(list[i], x)
<1>1. DOMAIN list = 1..Len(list)
  OBVIOUS
<1>2. SpansOf(list) \in SUBSET Spans
  BY <1>1, Elements, FitsSpan DEF SpansOf
<1>3. \A i \in DOMAIN list : In(Span(list[i]), x) <=> In(list[i], x)
  BY DEF In, Span
<1>4. (\E s \in SpansOf(list) : In(s, x)) <=> \E i \in DOMAIN list : In(list[i], x)
  BY <1>3 DEF SpansOf
<1> QED BY <1>1, <1>2, <1>4, KeysOf

LEMMA BothKeys ==
    ASSUME NEW given \in Seq(Spans), NEW list, Both(list, given), NEW x \in Int
    PROVE  (\E i \in 1..Len(list) : In(list[i], x)) <=> x \in Points(Held) \cup Points(Named(given))
<1>1. DOMAIN list = 1..Len(list)
  BY DEF Both
<1>2. Held \in SUBSET Spans /\ Named(given) \in SUBSET Spans
  BY DEF Held, Decompose, Named
<1>3. \A i \in DOMAIN list : In(Span(list[i]), x) <=> In(list[i], x)
  BY DEF In, Span
<1>4. ASSUME NEW i \in DOMAIN list, In(list[i], x)
      PROVE  \E s \in Held \cup Named(given) : In(s, x)
  BY <1>3, <1>4 DEF Both
<1>5. ASSUME NEW s \in Held \cup Named(given), In(s, x)
      PROVE  \E i \in DOMAIN list : In(list[i], x)
  BY <1>3, <1>5 DEF Both
<1>6. x \in Points(Held) \cup Points(Named(given)) <=> \E s \in Held \cup Named(given) : In(s, x)
  <2>1. x \in Points(Held) <=> \E s \in Held : In(s, x)
    BY <1>2, KeysOf
  <2>2. x \in Points(Named(given)) <=> \E s \in Named(given) : In(s, x)
    BY <1>2, KeysOf
  <2> QED BY <2>1, <2>2
<1> QED BY <1>1, <1>4, <1>5, <1>6

\* The copy that is made of a list.
LEMMA CopyOf ==
    ASSUME NEW list \in Seq(Element), NEW new, new = [i \in DOMAIN list |-> Elem(list[i], TRUE)]
    PROVE  /\ new \in Copy /\ Len(new) = Len(list)
           /\ \A i \in 1..Len(list) : new[i].lo = list[i].lo
<1>1. DOMAIN list = 1..Len(list) /\ Len(list) \in Nat
  OBVIOUS
<1>2. \A i \in 1..Len(list) : list[i].lo \in Int /\ list[i].hi \in Int
  BY Elements
<1> DEFINE T == [lo : Int, hi : Int, kernel : {TRUE}]
<1>3. \A i \in 1..Len(list) : Elem(list[i], TRUE) \in T /\ Elem(list[i], TRUE).lo = list[i].lo
  BY <1>2 DEF Elem
<1> HIDE DEF T
<1>4. new \in [1..Len(list) -> T] /\ \A i \in 1..Len(list) : new[i] = Elem(list[i], TRUE)
  BY <1>1, <1>3
<1>5. new \in Seq(T) /\ Len(new) = Len(list)
  BY <1>1, <1>4, ListOf
<1> QED BY <1>3, <1>4, <1>5 DEF Copy, T

\* As many intervals as places in a list, if they are apart.
LEMMA CountOfList ==
    ASSUME NEW list \in Seq(Element), KeptApart(list)
    PROVE  Cardinality(SpansOf(list)) = Len(list)
<1> DEFINE f == [i \in 1..Len(list) |-> Span(list[i])]
<1>1. /\ Len(list) \in Nat /\ DOMAIN list = 1..Len(list)
      /\ \A i \in 1..Len(list) : list[i].lo \in Int /\ list[i].hi \in Int /\ Fits(list[i])
  BY Elements DEF KeptApart
<1>2. ASSUME NEW i \in 1..Len(list), NEW j \in 1..Len(list), Span(list[i]) = Span(list[j]) PROVE i = j
  <2>1. list[i].lo = list[j].lo /\ list[i].hi = list[j].hi
    BY <1>2, SameSpan
  <2>2. ~Before(list[i], list[j]) /\ ~Before(list[j], list[i])
    BY <1>1, <2>1 DEF Before, Fits
  <2> QED BY <1>1, <2>2 DEF KeptApart
<1>3. f \in [1..Len(list) -> SpansOf(list)] /\ \A i \in 1..Len(list) : f[i] = Span(list[i])
  BY <1>1 DEF SpansOf
<1>4. \A s \in SpansOf(list) : \E i \in 1..Len(list) : f[i] = s
  BY <1>1 DEF SpansOf
<1> HIDE DEF f
<1>5. f \in Surjection(1..Len(list), SpansOf(list)) /\ f \in Injection(1..Len(list), SpansOf(list))
  BY <1>2, <1>3, <1>4 DEF Surjection, Injection, IsInjective
<1>6. IsFiniteSet(1..Len(list)) /\ Cardinality(1..Len(list)) = Len(list)
  BY <1>1, PlacesOf
<1> QED BY <1>5, <1>6, FS_Surjection

-----------------------------------------------------------------------------
(***************************************************************************)
(* Commands that add.                                                      *)
(***************************************************************************)
LEMMA BothMergeable ==
    ASSUME NEW given, NEW list, Both(list, given), automerge
    PROVE  Mergeable(list)
<1>1. list \in Seq(Element) /\ DOMAIN list = 1..Len(list)
  BY DEF Both
<1>2. ASSUME NEW i \in DOMAIN list, NEW j \in DOMAIN list, i < j, list[i].kernel, list[j].kernel
      PROVE  Before(list[i], list[j])
  <2>1. i # j
    BY <1>1, <1>2
  <2>2. list[i].lo <= list[j].lo /\ Fits(list[j]) /\ Fits(list[i])
    BY <1>2 DEF Both, Ordered
  <2>3. list[i].lo \in Int /\ list[i].hi \in Int /\ list[j].lo \in Int /\ list[j].hi \in Int
    BY <1>1, Elements
  <2>4. Clear(list[i], list[j]) \/ Clear(list[j], list[i])
    BY <1>2, <2>1 DEF Both
  <2> QED BY <2>2, <2>3, <2>4 DEF Clear, Before, Fits
<1> QED BY <1>2 DEF Both, Mergeable

LEMMA MergedIsSendable ==
    ASSUME NEW given, NEW list, Both(list, given), automerge,
           NEW st \in Merging, MergeInv(list, st, Len(list))
    PROVE  Sendable(st.kept, st.purge)
<1>1. /\ list \in Seq(Element) /\ DOMAIN list = 1..Len(list)
      /\ st.kept \in Seq(Element) /\ DOMAIN st.kept = 1..Len(st.kept) /\ Len(st.kept) \in Nat
  BY DEF Both, Merging
<1>2. st.purge \in SUBSET Held
  BY <1>1 DEF MergeInv, KernelPurged, Both
<1>3. \A i \in DOMAIN st.kept : Fits(st.kept[i])
  BY <1>1 DEF MergeInv, KeptApart
<1>4. ASSUME NEW i \in DOMAIN st.kept, NEW j \in DOMAIN st.kept
      PROVE  \/ Span(st.kept[i]) = Span(st.kept[j])
             \/ Clear(st.kept[i], st.kept[j]) \/ Clear(st.kept[j], st.kept[i])
  <2>1. i = j \/ Before(st.kept[i], st.kept[j]) \/ Before(st.kept[j], st.kept[i])
    BY <1>1 DEF MergeInv, KeptApart
  <2>2. /\ st.kept[i].lo \in Int /\ st.kept[i].hi \in Int
        /\ st.kept[j].lo \in Int /\ st.kept[j].hi \in Int
    BY <1>1, Elements
  <2> QED BY <2>1, <2>2 DEF Before, Clear
<1>5. ASSUME NEW i \in DOMAIN st.kept, st.kept[i].kernel PROVE Span(st.kept[i]) \in Held \ st.purge
  <2>1. PICK j \in DOMAIN list : list[j].kernel /\ Span(list[j]) = Span(st.kept[i])
    BY <1>1, <1>5 DEF MergeInv, KernelKept
  <2>2. Span(st.kept[i]) \notin st.purge
    BY <1>1, <1>5 DEF MergeInv, NotBoth
  <2> QED BY <2>1, <2>2 DEF Both
<1>6. ASSUME NEW s \in Held \ st.purge
      PROVE  \E i \in DOMAIN st.kept : st.kept[i].kernel /\ Span(st.kept[i]) = s
  <2>1. PICK j \in DOMAIN list : list[j].kernel /\ Span(list[j]) = s
    BY DEF Both
  <2> QED BY <1>1, <2>1 DEF MergeInv, KernelThere
<1> QED BY <1>1, <1>2, <1>3, <1>4, <1>5, <1>6 DEF Sendable

LEMMA AddMergingHolds ==
    ASSUME cached \in Copy, Faithful, NEW given \in Seq(Spans), AddMerging(given)
    PROVE  /\ status' = status /\ automerge
           /\ Points(Held') = Points(Held) \cup Points(Named(given))
           /\ Whole' /\ Known' /\ InOrder' /\ Apart(Held)' /\ Faithful'
<1> DEFINE list == SortSplice(given)
           st == Automerge(list)
<1>1. /\ automerge /\ automerge' = automerge /\ Send(st.purge, NewOnes(st.kept), st.kept)
  BY DEF AddMerging, Command
<1>2. Both(list, given) /\ list \in Seq(Element) /\ Len(list) \in Nat
  BY SortSpliceIs DEF Both
<1> HIDE DEF list
<1>3. st \in Merging /\ MergeInv(list, st, Len(list))
  BY <1>1, <1>2, BothMergeable, AutomergeInv
<1> HIDE DEF st
<1>4. Sendable(st.kept, st.purge)
  BY <1>1, <1>2, <1>3, MergedIsSendable
<1>5. /\ status' = status /\ Held' = SpansOf(st.kept) /\ Whole' /\ Known' /\ Apart(Held)'
      /\ cached' = [i \in DOMAIN st.kept |-> Elem(st.kept[i], TRUE)]
  BY <1>1, <1>4, Sent DEF Faithful
<1>6. /\ st.kept \in Seq(Element) /\ KeptApart(st.kept) /\ DOMAIN st.kept = 1..Len(st.kept)
      /\ Len(st.kept) \in Nat /\ \A i \in DOMAIN st.kept : Fits(st.kept[i])
  BY <1>3 DEF Merging, MergeInv, KeptApart
<1>7. Points(Held') = Points(Held) \cup Points(Named(given))
  <2>1. Held' \in SUBSET Spans /\ Held \in SUBSET Spans /\ Named(given) \in SUBSET Spans
    BY <1>5, <1>6, KeysOfList, 0 \in Int DEF Held, Decompose, Named
  <2>2. ASSUME NEW x \in Int
        PROVE  x \in Points(SpansOf(st.kept)) <=> x \in Points(Held) \cup Points(Named(given))
    <3>1. x \in Points(SpansOf(st.kept)) <=> \E i \in 1..Len(st.kept) : In(st.kept[i], x)
      BY <1>6, KeysOfList
    <3>2. (\E i \in 1..Len(st.kept) : In(st.kept[i], x)) <=> \E i \in 1..Len(list) : In(list[i], x)
      BY <1>3 DEF MergeInv, SameKeys
    <3> QED BY <1>2, <3>1, <3>2, BothKeys
  <2>3. \A x : x \in Points(Held') \/ x \in Points(Held) \cup Points(Named(given)) => x \in Int
    BY <2>1, KeysOf
  <2> QED BY <1>5, <2>2, <2>3
<1>8. Len(cached') = Len(st.kept) /\ \A i \in 1..Len(st.kept) : cached'[i].lo = st.kept[i].lo
  BY <1>5, <1>6, CopyOf
<1>9. InOrder'
  <2>1. ASSUME NEW i \in 1..(Len(st.kept) - 1) PROVE cached'[i].lo <= cached'[i + 1].lo
    <3>1. i \in 1..Len(st.kept) /\ i + 1 \in 1..Len(st.kept) /\ i < i + 1
      BY <1>6
    <3>2. Before(st.kept[i], st.kept[i + 1]) /\ Fits(st.kept[i])
      BY <1>6, <3>1 DEF KeptApart
    <3>3. st.kept[i].lo \in Int /\ st.kept[i].hi \in Int /\ st.kept[i + 1].lo \in Int
      BY <1>6, <3>1, Elements
    <3>4. st.kept[i].lo <= st.kept[i + 1].lo
      BY <3>2, <3>3 DEF Before, Fits
    <3> QED BY <1>8, <3>1, <3>4
  <2> QED BY <1>8, <2>1 DEF InOrder
<1>10. Len(cached') = Cardinality(Held')
  BY <1>5, <1>6, <1>8, CountOfList
<1> QED BY <1>1, <1>5, <1>7, <1>9, <1>10 DEF Faithful

\* If neighbours do not overlap, no two elements of a list in order do.
LEMMA NoOverlap ==
    ASSUME NEW list \in Seq(Element), Ordered(list), \A i \in DOMAIN list : Fits(list[i]), ~Overlap(list),
           NEW i \in 1..Len(list), NEW j \in 1..Len(list), i <= j
    PROVE  Span(list[i]) = Span(list[j]) \/ list[i].hi < list[j].lo
<1> DEFINE N == Len(list)
           T == {m \in 0..N : i <= m => Span(list[i]) = Span(list[m]) \/ list[i].hi < list[m].lo}
<1>1. /\ N \in Nat /\ DOMAIN list = 1..N
      /\ \A k \in 1..N : list[k].lo \in Int /\ list[k].hi \in Int /\ list[k].lo <= list[k].hi
  BY Elements DEF Fits
<1>2. 0 \in T
  BY <1>1
<1>3. ASSUME NEW m \in 0..(N - 1), m \in T PROVE m + 1 \in T
  <2>1. m + 1 \in 1..N /\ m + 1 \in 0..N
    BY <1>1
  <2>2. CASE i <= m
    <3>1. m \in 1..(N - 1) /\ m \in 1..N
      BY <1>1, <2>2
    <3>2. Span(list[m]) = Span(list[m + 1]) \/ list[m].hi < list[m + 1].lo
      <4>1. Span(list[m]) = Span(list[m + 1]) \/ ~(list[m + 1].lo <= list[m].hi)
        BY <3>1 DEF Overlap
      <4> QED BY <1>1, <2>1, <3>1, <4>1
    <3>3. Span(list[i]) = Span(list[m]) \/ list[i].hi < list[m].lo
      BY <1>3, <2>2
    <3>4. Span(list[i]) = Span(list[m + 1]) \/ list[i].hi < list[m + 1].lo
      BY <1>1, <2>1, <3>1, <3>2, <3>3, SameSpan
    <3> QED BY <2>1, <3>4
  <2>3. CASE m + 1 = i
    BY <2>1, <2>3
  <2>4. CASE m + 1 < i
    BY <1>1, <2>1, <2>4
  <2> QED BY <1>1, <2>2, <2>3, <2>4
<1> HIDE DEF T
<1>4. 0..N \subseteq T
  BY <1>1, <1>2, <1>3, Upto
<1> QED BY <1>1, <1>4 DEF T

\* Neighbours overlap if any elements do.
LEMMA OverlapIs ==
    ASSUME NEW given, NEW list, Both(list, given), ~automerge
    PROVE  /\ Overlap(list) <=> ~Apart(Held \cup Named(given))
           /\ SpansOf(list) = Held \cup Named(given)
<1>1. /\ list \in Seq(Element) /\ DOMAIN list = 1..Len(list) /\ Len(list) \in Nat /\ Ordered(list)
      /\ \A i \in 1..Len(list) : /\ list[i].lo \in Int /\ list[i].hi \in Int /\ Fits(list[i])
                                 /\ Span(list[i]).lo = list[i].lo /\ Span(list[i]).hi = list[i].hi
  <2>1. list \in Seq(Element) /\ DOMAIN list = 1..Len(list) /\ Len(list) \in Nat
    BY DEF Both
  <2>2. \A i \in 1..Len(list) : Fits(list[i])
    BY <2>1 DEF Both
  <2>3. \A i \in 1..Len(list) : Span(list[i]).lo = list[i].lo /\ Span(list[i]).hi = list[i].hi
    BY DEF Span
  <2> QED BY <2>1, <2>2, <2>3, Elements DEF Both
<1>2. SpansOf(list) = Held \cup Named(given)
  <2>1. \A i \in DOMAIN list : Span(list[i]) \in Held \cup Named(given)
    BY DEF Both
  <2>2. \A s \in Held \cup Named(given) : \E i \in DOMAIN list : s = Span(list[i])
    BY DEF Both
  <2> QED BY <2>1, <2>2 DEF SpansOf
<1>3. ASSUME Overlap(list), Apart(SpansOf(list)) PROVE FALSE
  <2>1. PICK i \in 1..(Len(list) - 1) : Span(list[i]) # Span(list[i + 1]) /\ list[i + 1].lo <= list[i].hi
    BY <1>3 DEF Overlap
  <2>2. i \in 1..Len(list) /\ i + 1 \in 1..Len(list) /\ i < i + 1
    BY <1>1
  <2>3. list[i].lo <= list[i + 1].lo
    BY <1>1, <2>2 DEF Ordered
  <2>4. Span(list[i]) \in SpansOf(list) /\ Span(list[i + 1]) \in SpansOf(list)
    BY <1>1, <2>2 DEF SpansOf
  <2>5. list[i].hi < list[i + 1].lo \/ list[i + 1].hi < list[i].lo
    BY <1>1, <1>3, <2>1, <2>2, <2>4 DEF Apart
  <2> QED BY <1>1, <2>1, <2>2, <2>3, <2>5 DEF Fits
<1>4. ASSUME ~Overlap(list) PROVE Apart(SpansOf(list))
  <2>1. ASSUME NEW i \in 1..Len(list), NEW j \in 1..Len(list)
        PROVE  \/ Span(list[i]) = Span(list[j])
               \/ Span(list[i]).hi < Span(list[j]).lo \/ Span(list[j]).hi < Span(list[i]).lo
    <3>1. i <= j \/ j <= i
      OBVIOUS
    <3> QED BY <1>1, <1>4, <3>1, NoOverlap
  <2> QED BY <1>1, <2>1 DEF Apart, SpansOf
<1> QED BY <1>2, <1>3, <1>4

LEMMA AddApartHolds ==
    ASSUME cached \in Copy, Faithful, NEW given \in Seq(Spans), AddApart(given)
    PROVE  /\ ~automerge
           /\ IF Apart(Held \cup Named(given)) THEN status' = status ELSE status' = "error"
           /\ Apart(Held \cup Named(given)) =>
                  /\ Points(Held') = Points(Held) \cup Points(Named(given))
                  /\ Whole' /\ Known' /\ InOrder' /\ Apart(Held)'
<1> DEFINE list == SortSplice(given)
<1>1. /\ ~automerge /\ automerge' = automerge
      /\ IF Overlap(list) THEN Fail ELSE Send({}, NewOnes(list), list)
  BY DEF AddApart, Command
<1>2. Both(list, given) /\ list \in Seq(Element) /\ Len(list) \in Nat
  BY SortSpliceIs DEF Both
<1> HIDE DEF list
<1>3. /\ Overlap(list) <=> ~Apart(Held \cup Named(given))
      /\ SpansOf(list) = Held \cup Named(given)
  BY <1>1, <1>2, OverlapIs
<1>4. CASE ~Apart(Held \cup Named(given))
  BY <1>1, <1>3, <1>4 DEF Fail
<1>5. CASE Apart(Held \cup Named(given))
  <2>1. Sendable(list, {})
    <3>1. ASSUME NEW i \in DOMAIN list, NEW j \in DOMAIN list
          PROVE  Span(list[i]) = Span(list[j]) \/ Clear(list[i], list[j]) \/ Clear(list[j], list[i])
      <4>1. Span(list[i]) \in SpansOf(list) /\ Span(list[j]) \in SpansOf(list)
        BY DEF SpansOf
      <4>2. Span(list[i]) = Span(list[j]) \/ Span(list[i]).hi < Span(list[j]).lo \/ Span(list[j]).hi < Span(list[i]).lo
        BY <1>3, <1>5, <4>1 DEF Apart
      <4> QED BY <1>1, <4>2 DEF Clear, Span
    <3> QED BY <1>2, <3>1 DEF Both, Sendable
  <2>2. /\ status' = status /\ Held' = SpansOf(list) /\ Whole' /\ Known' /\ Apart(Held)'
        /\ cached' = [i \in DOMAIN list |-> Elem(list[i], TRUE)]
    BY <1>1, <1>3, <1>5, <2>1, Sent DEF Faithful
  <2>3. Points(Held') = Points(Held) \cup Points(Named(given))
    BY <1>3, <2>2 DEF Points
  <2>4. InOrder'
    <3>1. Len(cached') = Len(list) /\ \A i \in 1..Len(list) : cached'[i].lo = list[i].lo
      BY <1>2, <2>2, CopyOf
    <3>2. ASSUME NEW i \in 1..(Len(list) - 1) PROVE list[i].lo <= list[i + 1].lo /\ i \in 1..Len(list) /\ i + 1 \in 1..Len(list)
      BY <1>2 DEF Both, Ordered
    <3> QED BY <3>1, <3>2 DEF InOrder
  <2> QED BY <1>1, <1>5, <2>2, <2>3, <2>4
<1> QED BY <1>1, <1>4, <1>5
-----------------------------------------------------------------------------
(***************************************************************************)
(* setelem_delete, for one element to remove.                              *)
(***************************************************************************)
LeftPart(e, r) == Elem([lo |-> e.lo, hi |-> r.lo - 1], FALSE)
RightPart(e, r) == Elem([lo |-> r.hi + 1, hi |-> e.hi], FALSE)

\* Where the elements of a list come from, when one of another list was
\* removed: from a place of that, or from what is left of it on the left or
\* on the right.
Comes(new, list, i, r, q) ==
    /\ q \in [DOMAIN new -> Int]
    /\ \A a, b \in DOMAIN new : q[a] = q[b] => a = b
    /\ \A a \in DOMAIN new :
           \/ q[a] \in DOMAIN list /\ q[a] # i /\ new[a] = list[q[a]]
           \/ q[a] = 0 /\ list[i].lo < r.lo /\ new[a] = LeftPart(list[i], r)
           \/ q[a] = Len(list) + 1 /\ r.hi < list[i].hi /\ new[a] = RightPart(list[i], r)
    /\ \A j \in DOMAIN list : j # i => \E a \in DOMAIN new : q[a] = j
    /\ list[i].lo < r.lo => \E a \in DOMAIN new : q[a] = 0
    /\ r.hi < list[i].hi => \E a \in DOMAIN new : q[a] = Len(list) + 1

LEMMA PartType ==
    ASSUME NEW e \in Element, NEW r \in Interval
    PROVE  /\ LeftPart(e, r) \in Element /\ LeftPart(e, r).lo = e.lo /\ LeftPart(e, r).hi = r.lo - 1
           /\ RightPart(e, r) \in Element /\ RightPart(e, r).lo = r.hi + 1 /\ RightPart(e, r).hi = e.hi
           /\ ~LeftPart(e, r).kernel /\ ~RightPart(e, r).kernel
<1>1. e.lo \in Int /\ e.hi \in Int /\ r.lo \in Int /\ r.hi \in Int
  BY DEF Element, Interval
<1>2. /\ LeftPart(e, r) = [lo |-> e.lo, hi |-> r.lo - 1, kernel |-> FALSE]
      /\ RightPart(e, r) = [lo |-> r.hi + 1, hi |-> e.hi, kernel |-> FALSE]
  BY DEF LeftPart, RightPart, Elem
<1> QED BY <1>1, <1>2 DEF Element

LEMMA WithoutIs ==
    ASSUME NEW list \in Seq(Element), NEW i \in 1..Len(list), NEW r \in Interval
    PROVE  /\ Without(list, i, r) \in Seq(Element)
           /\ \E q : Comes(Without(list, i, r), list, i, r, q)
<1> DEFINE N == Len(list)
           e == list[i]
           rest == RemoveAt(list, i)
           left == LeftOnLeft(e, r)
           right == LeftOnRight(e, r)
           new == Without(list, i, r)
           From(k) == IF k < i THEN k ELSE k + 1
           lr == IF r.hi < e.hi THEN 1 ELSE 0
           ll == IF e.lo < r.lo THEN 1 ELSE 0
           c == N - 1
<1>1. N \in Nat /\ i \in 1..N /\ DOMAIN list = 1..N /\ e \in Element /\ c \in Nat /\ 1 + c = N
  OBVIOUS
<1>2. /\ rest \in Seq(Element) /\ Len(rest) = c /\ \A k \in 1..c : rest[k] = list[From(k)]
  <2>1. \A k \in 1..c : rest[k] = IF k < i THEN list[k] ELSE list[k + 1]
    BY Removed
  <2> QED BY <2>1, Removed
<1>3. LeftPart(e, r) \in Element /\ RightPart(e, r) \in Element
  BY <1>1, PartType
<1>4. /\ left \in Seq(Element) /\ Len(left) = ll /\ (e.lo < r.lo => left[1] = LeftPart(e, r))
      /\ (left = <<>> <=> ~(e.lo < r.lo))
  <2>1. left = IF e.lo < r.lo THEN <<LeftPart(e, r)>> ELSE <<>>
    BY DEF LeftOnLeft, LeftPart
  <2> HIDE DEF left
  <2> QED BY <1>3, <2>1
<1>5. right \in Seq(Element) /\ Len(right) = lr /\ (r.hi < e.hi => right[1] = RightPart(e, r))
  <2>1. right = IF r.hi < e.hi THEN <<RightPart(e, r)>> ELSE <<>>
    BY DEF LeftOnRight, RightPart
  <2> HIDE DEF right
  <2> QED BY <1>3, <2>1
<1>6. new = IF left = <<>> THEN right \o rest ELSE left \o rest \o right
  BY DEF Without
<1> HIDE DEF N, e, c, rest, left, right, new
<1>7. CASE ~(e.lo < r.lo)
  <2> DEFINE q == [a \in 1..(lr + c) |-> IF a <= lr THEN N + 1 ELSE From(a - lr)]
  <2>1. new = right \o rest /\ lr \in 0..1
    BY <1>4, <1>6, <1>7
  <2>2. new \in Seq(Element) /\ DOMAIN new = 1..(lr + c)
        /\ \A a \in 1..(lr + c) : new[a] = IF a <= lr THEN right[a] ELSE rest[a - lr]
    <3> HIDE DEF lr
    <3>1. lr \in Nat
      BY <2>1
    <3>2. rest \in Seq(Element) /\ Len(rest) = c
      BY <1>2
    <3>3. /\ right \o rest \in Seq(Element)
          /\ DOMAIN (right \o rest) = 1..(Len(right) + Len(rest))
          /\ \A a \in 1..(Len(right) + Len(rest)) :
                 (right \o rest)[a] = IF a <= Len(right) THEN right[a] ELSE rest[a - Len(right)]
      BY <1>5, <3>2, Joined
    <3> QED BY <1>5, <2>1, <3>2, <3>3
  <2>3. ASSUME NEW a \in 1..(lr + c)
        PROVE  \/ a <= lr /\ a = 1 /\ r.hi < e.hi /\ q[a] = N + 1
               \/ ~(a <= lr) /\ a - lr \in 1..c /\ q[a] = From(a - lr) /\ q[a] \in 1..N /\ q[a] # i
    BY <1>1, <2>1
  <2>4. q \in [DOMAIN new -> Int]
    BY <1>1, <2>1, <2>2
  <2> HIDE DEF q
  <2>5. ASSUME NEW a \in DOMAIN new, NEW b \in DOMAIN new, q[a] = q[b] PROVE a = b
    <3> HIDE DEF lr
    <3>1. a \in 1..(lr + c) /\ b \in 1..(lr + c)
      BY <2>2
    <3>2. CASE a <= lr
      BY <1>1, <2>1, <2>3, <2>5, <3>1, <3>2
    <3>3. CASE ~(a <= lr)
      <4>1. a - lr \in 1..c /\ q[a] = From(a - lr) /\ q[a] # N + 1
        BY <1>1, <2>3, <3>1, <3>3
      <4>2. b - lr \in 1..c /\ q[b] = From(b - lr)
        BY <2>3, <2>5, <3>1, <4>1
      <4>3. From(a - lr) = From(b - lr)
        BY <2>5, <4>1, <4>2
      <4>4. a - lr = b - lr
        BY <1>1, <4>1, <4>2, <4>3
      <4> QED BY <1>1, <2>1, <3>1, <4>4
    <3> QED BY <3>2, <3>3
  <2>6. ASSUME NEW a \in DOMAIN new
        PROVE  \/ q[a] \in DOMAIN list /\ q[a] # i /\ new[a] = list[q[a]]
               \/ q[a] = N + 1 /\ r.hi < e.hi /\ new[a] = RightPart(e, r)
    <3> HIDE DEF lr
    <3>1. a \in 1..(lr + c)
      BY <2>2
    <3>2. CASE a <= lr
      <4>1. a = 1 /\ r.hi < e.hi /\ q[a] = N + 1 /\ new[a] = right[a]
        BY <2>2, <2>3, <3>1, <3>2
      <4> QED BY <1>5, <4>1
    <3>3. CASE ~(a <= lr)
      <4>1. a - lr \in 1..c /\ q[a] = From(a - lr) /\ q[a] \in 1..N /\ q[a] # i /\ new[a] = rest[a - lr]
        BY <2>2, <2>3, <3>1, <3>3
      <4> QED BY <1>1, <1>2, <4>1
    <3> QED BY <3>2, <3>3
  <2>7. ASSUME NEW j \in 1..N, j # i PROVE \E a \in DOMAIN new : q[a] = j
    <3> DEFINE k == IF j < i THEN j ELSE j - 1
    <3>1. k + lr \in 1..(lr + c) /\ ~(k + lr <= lr) /\ (k + lr) - lr = k /\ From(k) = j
      BY <1>1, <2>1, <2>7
    <3> QED BY <2>2, <3>1 DEF q
  <2>8. ASSUME r.hi < e.hi PROVE \E a \in DOMAIN new : q[a] = N + 1
    <3>1. 1 \in 1..(lr + c) /\ 1 <= lr
      BY <1>1, <2>8
    <3> QED BY <2>2, <3>1 DEF q
  <2>9. Comes(new, list, i, r, q)
    BY <1>1, <1>7, <2>4, <2>5, <2>6, <2>7, <2>8 DEF Comes, e, N
  <2> QED BY <2>2, <2>9 DEF new
<1>8. CASE e.lo < r.lo
  <2> DEFINE q == [a \in 1..(N + lr) |-> IF a = 1 THEN 0 ELSE IF a <= N THEN From(a - 1) ELSE N + 1]
             front == left \o rest
  <2>1. new = front \o right /\ lr \in 0..1 /\ ll = 1
    BY <1>4, <1>6, <1>8
  <2>2. front \in Seq(Element) /\ Len(front) = N
        /\ \A a \in 1..N : front[a] = IF a = 1 THEN left[1] ELSE rest[a - 1]
    <3> HIDE DEF ll
    <3>0. left \in Seq(Element) /\ rest \in Seq(Element)
      BY <1>2, <1>4
    <3>1. Len(rest) = c /\ Len(left) = 1
      BY <1>2, <1>4, <2>1
    <3>2. /\ front \in Seq(Element) /\ Len(front) = Len(left) + Len(rest)
          /\ DOMAIN front = 1..(Len(left) + Len(rest))
          /\ \A a \in 1..(Len(left) + Len(rest)) :
                 front[a] = IF a <= Len(left) THEN left[a] ELSE rest[a - Len(left)]
      BY <3>0, Joined
    <3> HIDE DEF front
    <3>3. front \in Seq(Element) /\ Len(front) = 1 + c
          /\ \A a \in 1..(1 + c) : front[a] = IF a <= 1 THEN left[a] ELSE rest[a - 1]
      BY <3>1, <3>2
    <3> QED BY <1>1, <3>3
  <2> HIDE DEF front
  <2>3. new \in Seq(Element) /\ DOMAIN new = 1..(N + lr)
        /\ \A a \in 1..(N + lr) : new[a] = IF a <= N THEN front[a] ELSE right[a - N]
    <3> HIDE DEF lr
    <3>1. lr \in Nat /\ N \in Nat /\ new = front \o right
      BY <1>1, <2>1
    <3>2. front \in Seq(Element) /\ Len(front) = N /\ right \in Seq(Element) /\ Len(right) = lr
      BY <1>5, <2>2
    <3>3. /\ front \o right \in Seq(Element)
          /\ DOMAIN (front \o right) = 1..(Len(front) + Len(right))
          /\ \A a \in 1..(Len(front) + Len(right)) :
                 (front \o right)[a] = IF a <= Len(front) THEN front[a] ELSE right[a - Len(front)]
      BY <3>2, Joined
    <3> QED BY <3>1, <3>2, <3>3
  <2>4. ASSUME NEW a \in 1..(N + lr)
        PROVE  \/ a = 1 /\ q[a] = 0
               \/ a # 1 /\ a <= N /\ a - 1 \in 1..c /\ q[a] = From(a - 1) /\ q[a] \in 1..N /\ q[a] # i
               \/ ~(a <= N) /\ a = N + 1 /\ r.hi < e.hi /\ q[a] = N + 1
    BY <1>1, <2>1
  <2>5. q \in [DOMAIN new -> Int]
    BY <1>1, <2>1, <2>3
  <2> HIDE DEF q
  <2>6. ASSUME NEW a \in DOMAIN new, NEW b \in DOMAIN new, q[a] = q[b] PROVE a = b
    BY <1>1, <2>1, <2>3, <2>4, <2>6
  <2>7. ASSUME NEW a \in DOMAIN new
        PROVE  \/ q[a] \in DOMAIN list /\ q[a] # i /\ new[a] = list[q[a]]
               \/ q[a] = 0 /\ new[a] = LeftPart(e, r)
               \/ q[a] = N + 1 /\ r.hi < e.hi /\ new[a] = RightPart(e, r)
    <3>1. CASE a = 1
      BY <1>1, <1>4, <1>8, <2>2, <2>3, <2>4, <3>1
    <3>2. CASE a # 1 /\ a <= N
      BY <1>1, <1>2, <2>2, <2>3, <2>4, <3>2
    <3>3. CASE ~(a <= N)
      BY <1>1, <1>5, <2>3, <2>4, <3>3
    <3> QED BY <3>1, <3>2, <3>3
  <2>8. ASSUME NEW j \in 1..N, j # i PROVE \E a \in DOMAIN new : q[a] = j
    <3> DEFINE k == IF j < i THEN j ELSE j - 1
    <3>1. k + 1 \in 1..(N + lr) /\ k + 1 # 1 /\ k + 1 <= N /\ (k + 1) - 1 = k /\ From(k) = j
      BY <1>1, <2>1, <2>8
    <3> QED BY <2>3, <3>1 DEF q
  <2>9. \E a \in DOMAIN new : q[a] = 0
    <3>1. 1 \in 1..(N + lr)
      BY <1>1, <2>1
    <3> QED BY <2>3, <3>1 DEF q
  <2>10. ASSUME r.hi < e.hi PROVE \E a \in DOMAIN new : q[a] = N + 1
    <3>1. N + 1 \in 1..(N + lr) /\ N + 1 # 1 /\ ~(N + 1 <= N)
      BY <1>1, <2>10
    <3> QED BY <2>3, <3>1 DEF q
  <2>11. Comes(new, list, i, r, q)
    BY <1>1, <1>8, <2>5, <2>6, <2>7, <2>8, <2>9, <2>10 DEF Comes, e, N
  <2> QED BY <2>3, <2>11 DEF new
<1> QED BY <1>7, <1>8

Deleting == [list : Seq(Element), purge : SUBSET Interval, parted : BOOLEAN, failed : BOOLEAN]

\* An element the removed one is in.
Holds(list, i, r) ==
    /\ i \in 1..Len(list) /\ list[i].lo <= r.lo /\ r.hi <= list[i].hi
    /\ ~automerge => Span(list[i]) = r

\* The last element that starts no later than the one to remove is found.
LEMMA LastNoLater ==
    ASSUME NEW list \in Seq(Element), Ordered(list), NEW l \in Int,
           NEW i, i = Cardinality({j \in DOMAIN list : list[j].lo <= l})
    PROVE  i \in 0..Len(list) /\ (i > 0 => list[i].lo <= l)
<1> DEFINE S == {j \in DOMAIN list : list[j].lo <= l}
           N == Len(list)
<1>1. N \in Nat /\ DOMAIN list = 1..N /\ \A j \in 1..N : list[j].lo \in Int
  BY Elements
<1>2. S \in SUBSET (1..N)
  BY <1>1
<1>3. IsFiniteSet(1..N) /\ Cardinality(1..N) = N
  BY <1>1, PlacesOf
<1>4. IsFiniteSet(S) /\ Cardinality(S) <= N /\ Cardinality(S) \in Nat
  <2> HIDE DEF S, N
  <2> QED BY <1>2, <1>3, FS_Subset, FS_CardinalityType
<1>5. ASSUME i > 0, ~(list[i].lo <= l) PROVE FALSE
  <2>1. i \in 1..N /\ i - 1 \in Nat
    BY <1>1, <1>4, <1>5
  <2>2. S \in SUBSET (1..(i - 1))
    <3>1. ASSUME NEW j \in 1..N, list[j].lo <= l PROVE j \in 1..(i - 1)
      <4> SUFFICES ASSUME ~(j < i) PROVE FALSE
        BY <1>1, <2>1
      <4>1. list[i].lo <= list[j].lo
        BY <1>1, <2>1 DEF Ordered
      <4> QED BY <1>1, <1>5, <2>1, <3>1, <4>1
    <3> DEFINE P == 1..(i - 1)
    <3>2. \A j \in S : j \in P
      BY <1>1, <3>1
    <3> HIDE DEF S, P
    <3>3. S \in SUBSET P
      BY <3>2
    <3> QED BY <3>3 DEF P
  <2>3. IsFiniteSet(1..(i - 1)) /\ Cardinality(1..(i - 1)) = i - 1
    BY <2>1, PlacesOf
  <2>4. Cardinality(S) <= i - 1
    <3> DEFINE P == 1..(i - 1)
    <3>1. S \in SUBSET P /\ IsFiniteSet(P) /\ Cardinality(P) = i - 1
      BY <2>2, <2>3
    <3> HIDE DEF S, P
    <3>2. Cardinality(S) <= Cardinality(P)
      BY <3>1, FS_Subset
    <3> QED BY <3>1, <3>2
  <2> QED BY <1>4, <2>1, <2>4
<1> QED BY <1>1, <1>4, <1>5

LEMMA DeleteStepIs ==
    ASSUME automerge \in BOOLEAN, NEW st \in Deleting, NEW r \in Interval
    PROVE  /\ DeleteStep(st, r) \in Deleting
           /\ st.failed => DeleteStep(st, r).failed
           /\ ~DeleteStep(st, r).failed =>
                  LET list == ExprSort(st.list)
                      new == DeleteStep(st, r)
                  IN  \E i : /\ Holds(list, i, r) /\ new.purge = st.purge \cup Gone(list[i])
                             /\ new.list = IF Span(list[i]) = r /\ ~list[i].kernel THEN list
                                           ELSE Without(list, i, r)
<1> DEFINE list == ExprSort(st.list)
           i == Cardinality({j \in DOMAIN list : list[j].lo <= r.lo})
           exact == i > 0 /\ Span(list[i]) = r
           part == i > 0 /\ ~exact /\ automerge /\ r.hi <= list[i].hi
           new == DeleteStep(st, r)
           next == IF exact /\ ~list[i].kernel THEN list ELSE Without(list, i, r)
<1>1. /\ st.list \in Seq(Element) /\ st.purge \in SUBSET Interval
      /\ st.parted \in BOOLEAN /\ st.failed \in BOOLEAN
      /\ st = [list |-> st.list, purge |-> st.purge, parted |-> st.parted, failed |-> st.failed]
  BY DEF Deleting
<1>2. list \in Seq(Element) /\ Ordered(list)
  BY <1>1, Sorted
<1>3. r.lo \in Int /\ r.hi \in Int
  BY DEF Interval
<1>4. new = IF st.failed \/ ~(exact \/ part) THEN [st EXCEPT !.failed = TRUE]
            ELSE [list |-> next, purge |-> Purged(st, list[i]).purge,
                  parted |-> st.parted \/ part, failed |-> FALSE]
  BY DEF DeleteStep
<1> HIDE DEF list
<1>5. i \in 0..Len(list) /\ (i > 0 => list[i].lo <= r.lo)
  BY <1>2, <1>3, LastNoLater
<1>6. part \in BOOLEAN /\ exact \in BOOLEAN
  OBVIOUS
<1>7. CASE st.failed \/ ~(exact \/ part)
  <2>1. new = [list |-> st.list, purge |-> st.purge, parted |-> st.parted, failed |-> TRUE]
    <3> HIDE DEF new, exact, part
    <3> QED BY <1>1, <1>4, <1>7
  <2>2. new \in Deleting /\ new.failed
    <3> HIDE DEF new
    <3> QED BY <1>1, <2>1 DEF Deleting
  <2> QED BY <2>2
<1>8. CASE ~st.failed /\ (exact \/ part)
  <2> DEFINE e == list[i]
  <2>1. i \in 1..Len(list) /\ e.lo <= r.lo
    <3> HIDE DEF i
    <3> QED BY <1>2, <1>5, <1>8
  <2>2. exact <=> Span(e) = r
    <3> HIDE DEF i
    <3> QED BY <1>2, <2>1
  <2> HIDE DEF i
  <2>3. e \in Element
    BY <1>2, <2>1, ElementOfSeq
  <2>4. e.hi \in Int /\ (Span(e) = r => e.hi = r.hi)
    BY <2>3 DEF Element, Span
  <2>5. Holds(list, i, r)
    <3> HIDE DEF exact
    <3>1. CASE exact
      BY <1>3, <2>1, <2>2, <2>4, <3>1 DEF Holds
    <3>2. CASE part
      BY <2>1, <3>2 DEF Holds
    <3> QED BY <1>8, <3>1, <3>2
  <2>6. Purged(st, e).purge = st.purge \cup Gone(e) /\ Gone(e) \subseteq Interval
    <3>1. {x \in {Span(e)} : e.kernel} = Gone(e)
      BY <2>3 DEF Gone, Element
    <3>2. Span(e) \in Interval
      BY <2>3 DEF Span, Element, Interval
    <3> HIDE DEF e
    <3> QED BY <1>1, <3>1, <3>2 DEF Purged, Gone
  <2>7. next \in Seq(Element) /\ next = IF Span(e) = r /\ ~e.kernel THEN list ELSE Without(list, i, r)
    BY <1>2, <2>1, <2>2, WithoutIs
  <2>8. new = [list |-> next, purge |-> st.purge \cup Gone(e), parted |-> st.parted \/ part, failed |-> FALSE]
    <3> HIDE DEF new, exact, part, next
    <3> QED BY <1>4, <1>8, <2>6
  <2>9. (st.parted \/ part) \in BOOLEAN
    BY <1>1, <1>6
  <2>10. new \in Deleting /\ new.list = next /\ new.purge = st.purge \cup Gone(e)
    <3> HIDE DEF new, exact, part, next, e
    <3> QED BY <1>1, <2>6, <2>7, <2>8, <2>9 DEF Deleting
  <2> HIDE DEF new, next
  <2>11. \E k : /\ Holds(list, k, r) /\ new.purge = st.purge \cup Gone(list[k])
                /\ new.list = IF Span(list[k]) = r /\ ~list[k].kernel THEN list ELSE Without(list, k, r)
    BY <2>5, <2>7, <2>10
  <2> QED BY <1>8, <2>10, <2>11 DEF list, new
<1> QED BY <1>7, <1>8
-----------------------------------------------------------------------------
(***************************************************************************)
(* set_delete: what is left in the list after m elements were removed, and *)
(* what is deleted from the kernel.  An element that the kernel does not   *)
(* have lies beside one that was removed, so that no other one is equal to *)
(* it.                                                                     *)
(***************************************************************************)
Beside(e, r) == e.hi + 1 = r.lo \/ r.hi + 1 = e.lo

ClearOf(list) ==
    /\ list \in Seq(Element)
    /\ \A i \in DOMAIN list : Fits(list[i])
    /\ \A i, j \in DOMAIN list : i # j => Clear(list[i], list[j]) \/ Clear(list[j], list[i])

KeysLeft(list, ones, m) ==
    \A x \in Int : (\E i \in DOMAIN list : In(list[i], x))
                     <=> (\E s \in Held : In(s, x)) /\ \A k \in 1..m : ~In(ones[k], x)

KernelLeft(list, purge) ==
    /\ purge \in SUBSET Held
    /\ \A i \in DOMAIN list : list[i].kernel => Span(list[i]) \in Held \ purge
    /\ \A s \in Held \ purge : \E i \in DOMAIN list : list[i].kernel /\ Span(list[i]) = s

PartsLeft(list, ones, m) ==
    \A i \in DOMAIN list : ~list[i].kernel => automerge /\ \E k \in 1..m : Beside(list[i], ones[k])

DeleteInv(list, purge, ones, m) ==
    ClearOf(list) /\ KeysLeft(list, ones, m) /\ KernelLeft(list, purge) /\ PartsLeft(list, ones, m)

Removable(ones) ==
    /\ ones \in Seq(Spans)
    /\ automerge => \A j, k \in DOMAIN ones : j < k => Before(ones[j], ones[k])

\* What lies within elements that are clear of each other is clear, too.
LEMMA ClearWithin ==
    ASSUME NEW d, NEW e, NEW f, NEW g, d.hi \in Int, e.lo \in Int, f.hi \in Int, g.lo \in Int,
           f.hi <= d.hi, e.lo <= g.lo, Clear(d, e)
    PROVE  Clear(f, g)
<1>1. d.hi < e.lo /\ (automerge => d.hi + 1 < e.lo)
  BY DEF Clear
<1>2. f.hi < g.lo /\ (d.hi + 1 < e.lo => f.hi + 1 < g.lo)
  BY <1>1
<1> QED BY <1>1, <1>2 DEF Clear

\* All of that whatever the order of the list.
LEMMA InvShuffled ==
    ASSUME NEW list \in Seq(Element), NEW new \in Seq(Element), NEW p, Shuffled(new, list, p),
           NEW purge, NEW ones, NEW m, DeleteInv(list, purge, ones, m)
    PROVE  DeleteInv(new, purge, ones, m)
<1>1. /\ \A k \in DOMAIN new : p[k] \in DOMAIN list /\ new[k] = list[p[k]]
      /\ \A k, l \in DOMAIN new : k # l => p[k] # p[l]
      /\ \A i \in DOMAIN list : \E k \in DOMAIN new : new[k] = list[i]
  BY DEF Shuffled
<1>2. ClearOf(new)
  BY <1>1 DEF DeleteInv, ClearOf
<1>3. KeysLeft(new, ones, m)
  <2> SUFFICES ASSUME NEW x \in Int
               PROVE  (\E i \in DOMAIN new : In(new[i], x)) <=> (\E i \in DOMAIN list : In(list[i], x))
    BY DEF DeleteInv, KeysLeft
  <2> QED BY <1>1
<1>4. KernelLeft(new, purge)
  <2>1. /\ purge \in SUBSET Held
        /\ \A i \in DOMAIN list : list[i].kernel => Span(list[i]) \in Held \ purge
        /\ \A s \in Held \ purge : \E i \in DOMAIN list : list[i].kernel /\ Span(list[i]) = s
    BY DEF DeleteInv, KernelLeft
  <2>2. ASSUME NEW s \in Held \ purge PROVE \E k \in DOMAIN new : new[k].kernel /\ Span(new[k]) = s
    <3>1. PICK i \in DOMAIN list : list[i].kernel /\ Span(list[i]) = s
      BY <2>1
    <3>2. PICK k \in DOMAIN new : new[k] = list[i]
      BY <1>1
    <3> QED BY <3>1, <3>2
  <2>3. ASSUME NEW k \in DOMAIN new, new[k].kernel PROVE Span(new[k]) \in Held \ purge
    BY <1>1, <2>1, <2>3
  <2> QED BY <2>1, <2>2, <2>3 DEF KernelLeft
<1>5. PartsLeft(new, ones, m)
  BY <1>1 DEF DeleteInv, PartsLeft
<1> QED BY <1>2, <1>3, <1>4, <1>5 DEF DeleteInv

\* An element the kernel does not have is not equal to the next one.
LEMMA NoneEqual ==
    ASSUME automerge \in BOOLEAN, NEW list, NEW purge, NEW ones, Removable(ones),
           NEW m \in 0..(Len(ones) - 1), DeleteInv(list, purge, ones, m),
           NEW i \in DOMAIN list, ~list[i].kernel
    PROVE  Span(list[i]) # ones[m + 1]
<1> DEFINE e == list[i]
           r == ones[m + 1]
<1>1. automerge /\ \E k \in 1..m : Beside(e, ones[k])
  BY DEF DeleteInv, PartsLeft
<1>2. PICK k \in 1..m : Beside(e, ones[k])
  BY <1>1
<1>3. k \in DOMAIN ones /\ m + 1 \in DOMAIN ones /\ k < m + 1
  BY DEF Removable
<1>4. Before(ones[k], r) /\ ones[k] \in Spans /\ r \in Spans
  BY <1>1, <1>3 DEF Removable
<1>5. /\ ones[k].lo \in Nat /\ ones[k].hi \in Nat /\ ones[k].lo <= ones[k].hi
      /\ r.lo \in Nat /\ r.hi \in Nat /\ r.lo <= r.hi
  BY <1>4, SpanType
<1> SUFFICES ASSUME e.lo = r.lo, e.hi = r.hi PROVE FALSE
  <2>1. Span(e).lo = e.lo /\ Span(e).hi = e.hi
    BY DEF Span
  <2> QED BY <2>1
<1> HIDE DEF e, r
<1> QED BY <1>2, <1>4, <1>5 DEF Beside, Before

\* Another one is removed from the element it is in.
LEMMA WithoutInv ==
    ASSUME automerge \in BOOLEAN, NEW list, NEW purge, NEW ones, Removable(ones),
           NEW m \in 0..(Len(ones) - 1), DeleteInv(list, purge, ones, m),
           NEW i, Holds(list, i, ones[m + 1])
    PROVE  DeleteInv(Without(list, i, ones[m + 1]), purge \cup Gone(list[i]), ones, m + 1)
<1> DEFINE e == list[i]
           r == ones[m + 1]
           N == Len(list)
           new == Without(list, i, r)
           left == LeftPart(e, r)
           right == RightPart(e, r)
<1>1. /\ list \in Seq(Element) /\ N \in Nat /\ DOMAIN list = 1..N /\ i \in DOMAIN list /\ i \in 1..N
      /\ e \in Element
      /\ e.lo <= r.lo /\ r.hi <= e.hi /\ (~automerge => Span(e) = r)
  BY DEF DeleteInv, ClearOf, Holds
<1>2. /\ m \in Nat /\ m + 1 \in DOMAIN ones /\ r \in Spans /\ m + 1 \in 1..(m + 1)
      /\ (\A k \in 1..m : k \in 1..(m + 1)) /\ \A k \in 1..(m + 1) : k \in 1..m \/ k = m + 1
  BY DEF Removable
<1>3. r.lo \in Int /\ r.hi \in Int /\ r.lo <= r.hi /\ 0 <= r.lo /\ r.hi <= MaxKey /\ r \in Interval
      /\ r = [lo |-> r.lo, hi |-> r.hi]
  <2>1. r.lo \in Nat /\ r.hi \in Nat /\ r.lo <= r.hi /\ Fits(r) /\ r = [lo |-> r.lo, hi |-> r.hi]
    BY <1>2, SpanType
  <2> QED BY <2>1 DEF Interval, Fits
<1>4. \A j \in DOMAIN list : /\ list[j].lo \in Int /\ list[j].hi \in Int
                             /\ 0 <= list[j].lo /\ list[j].lo <= list[j].hi /\ list[j].hi <= MaxKey
  <2>1. \A j \in DOMAIN list : Fits(list[j])
    BY DEF DeleteInv, ClearOf
  <2> QED BY <1>1, <2>1, Elements DEF Fits
<1>5. new \in Seq(Element)
  BY <1>1, <1>3, WithoutIs
<1>6. PICK q : Comes(new, list, i, r, q)
  BY <1>1, <1>3, WithoutIs
<1>7. /\ left.lo = e.lo /\ left.hi = r.lo - 1 /\ right.lo = r.hi + 1 /\ right.hi = e.hi
      /\ ~left.kernel /\ ~right.kernel
  BY <1>1, <1>3, PartType
<1>8. e.lo \in Int /\ e.hi \in Int /\ 0 <= e.lo /\ e.lo <= e.hi /\ e.hi <= MaxKey
  BY <1>1, <1>4
<1>9. ASSUME NEW a \in DOMAIN new
      PROVE  \/ q[a] \in DOMAIN list /\ q[a] # i /\ new[a] = list[q[a]]
             \/ q[a] = 0 /\ e.lo < r.lo /\ new[a] = left
             \/ q[a] = N + 1 /\ r.hi < e.hi /\ new[a] = right
  BY <1>6 DEF Comes
<1>10. /\ \A a, b \in DOMAIN new : q[a] = q[b] => a = b
       /\ \A j \in DOMAIN list : j # i => \E a \in DOMAIN new : q[a] = j
       /\ e.lo < r.lo => \E a \in DOMAIN new : q[a] = 0
       /\ r.hi < e.hi => \E a \in DOMAIN new : q[a] = N + 1
  BY <1>6 DEF Comes
<1>11. 0 \notin DOMAIN list /\ N + 1 \notin DOMAIN list /\ 0 # N + 1
  BY <1>1
<1>12. \A j, k \in DOMAIN list : j # k => Clear(list[j], list[k]) \/ Clear(list[k], list[j])
  BY DEF DeleteInv, ClearOf
<1> HIDE DEF e, r, N, new, left, right
<1>13. ClearOf(new)
  <2>1. \A a \in DOMAIN new : Fits(new[a])
    <3> SUFFICES ASSUME NEW a \in DOMAIN new PROVE Fits(new[a])
      OBVIOUS
    <3>1. CASE q[a] \in DOMAIN list /\ new[a] = list[q[a]]
      BY <1>4, <3>1 DEF Fits
    <3>2. CASE e.lo < r.lo /\ new[a] = left
      BY <1>3, <1>7, <1>8, <3>2, KeyAssumption DEF Fits
    <3>3. CASE r.hi < e.hi /\ new[a] = right
      BY <1>3, <1>7, <1>8, <3>3, KeyAssumption DEF Fits
    <3> QED BY <1>9, <3>1, <3>2, <3>3
  <2> DEFINE o(a) == IF q[a] \in DOMAIN list THEN q[a] ELSE i
  <2>2. ASSUME NEW a \in DOMAIN new
        PROVE  /\ o(a) \in DOMAIN list /\ list[o(a)].lo <= new[a].lo /\ new[a].hi <= list[o(a)].hi
               /\ new[a].lo \in Int /\ new[a].hi \in Int
    <3>1. CASE q[a] \in DOMAIN list /\ new[a] = list[q[a]]
      BY <1>4, <3>1
    <3>2. CASE q[a] = 0 /\ e.lo < r.lo /\ new[a] = left
      <4>1. o(a) = i
        BY <1>11, <3>2
      <4> QED BY <1>1, <1>3, <1>7, <1>8, <3>2, <4>1 DEF e
    <3>3. CASE q[a] = N + 1 /\ r.hi < e.hi /\ new[a] = right
      <4>1. o(a) = i
        BY <1>11, <3>3
      <4> QED BY <1>1, <1>3, <1>7, <1>8, <3>3, <4>1 DEF e
    <3> QED BY <1>9, <3>1, <3>2, <3>3
  <2>3. ASSUME NEW a \in DOMAIN new, NEW b \in DOMAIN new, a # b
        PROVE  Clear(new[a], new[b]) \/ Clear(new[b], new[a])
    <3>1. CASE o(a) # o(b)
      <4> DEFINE j == o(a)
                 k == o(b)
      <4>1. /\ j \in DOMAIN list /\ list[j].lo <= new[a].lo /\ new[a].hi <= list[j].hi
            /\ new[a].lo \in Int /\ new[a].hi \in Int
            /\ k \in DOMAIN list /\ list[k].lo <= new[b].lo /\ new[b].hi <= list[k].hi
            /\ new[b].lo \in Int /\ new[b].hi \in Int
        BY <2>2
      <4> HIDE DEF o
      <4>2. Clear(list[j], list[k]) \/ Clear(list[k], list[j])
        BY <1>12, <3>1, <4>1
      <4> HIDE DEF j, k
      <4>3. /\ list[j].lo \in Int /\ list[j].hi \in Int /\ list[k].lo \in Int /\ list[k].hi \in Int
        BY <1>4, <4>1
      <4>4. CASE Clear(list[j], list[k])
        BY <4>1, <4>3, <4>4, ClearWithin
      <4>5. CASE Clear(list[k], list[j])
        BY <4>1, <4>3, <4>5, ClearWithin
      <4> QED BY <4>2, <4>4, <4>5
    <3>2. CASE o(a) = o(b)
      <4>1. q[a] # q[b]
        BY <1>10, <2>3
      <4>2. \/ q[a] = 0 /\ q[b] = N + 1 /\ new[a] = left /\ new[b] = right
            \/ q[b] = 0 /\ q[a] = N + 1 /\ new[b] = left /\ new[a] = right
        BY <1>1, <1>9, <1>11, <3>2, <4>1
      <4>3. Clear(left, right)
        BY <1>3, <1>7, <1>8 DEF Clear
      <4> QED BY <4>2, <4>3
    <3> QED BY <3>1, <3>2
  <2> QED BY <1>5, <2>1, <2>3 DEF ClearOf
<1>14. KeysLeft(new, ones, m + 1)
  <2> SUFFICES ASSUME NEW x \in Int
               PROVE  (\E a \in DOMAIN new : In(new[a], x))
                        <=> (\E j \in DOMAIN list : In(list[j], x)) /\ ~In(r, x)
    <3>1. \A x \in Int : (\E j \in DOMAIN list : In(list[j], x))
            <=> (\E s \in Held : In(s, x)) /\ \A k \in 1..m : ~In(ones[k], x)
      BY DEF DeleteInv, KeysLeft
    <3>2. \A x \in Int :
              (\A k \in 1..(m + 1) : ~In(ones[k], x)) <=> ~In(r, x) /\ \A k \in 1..m : ~In(ones[k], x)
      BY <1>2 DEF r
    <3> QED BY <3>1, <3>2 DEF KeysLeft
  <2>1. ASSUME NEW j \in DOMAIN list, j # i, In(list[j], x) PROVE ~In(e, x) /\ ~In(r, x)
    <3>1. Clear(list[j], e) \/ Clear(e, list[j])
      BY <1>1, <1>12, <2>1 DEF e
    <3> QED BY <1>1, <1>3, <1>4, <1>8, <2>1, <3>1 DEF Clear, In
  <2>2. /\ In(left, x) => In(e, x) /\ ~In(r, x)
        /\ In(right, x) => In(e, x) /\ ~In(r, x)
    BY <1>1, <1>3, <1>7, <1>8 DEF In
  <2>3. In(e, x) /\ ~In(r, x) => (e.lo < r.lo /\ In(left, x)) \/ (r.hi < e.hi /\ In(right, x))
    BY <1>1, <1>3, <1>7, <1>8 DEF In
  <2>4. ASSUME NEW a \in DOMAIN new, In(new[a], x)
        PROVE  (\E j \in DOMAIN list : In(list[j], x)) /\ ~In(r, x)
    <3>1. CASE q[a] \in DOMAIN list /\ q[a] # i /\ new[a] = list[q[a]]
      BY <2>1, <2>4, <3>1
    <3>2. CASE new[a] = left \/ new[a] = right
      <4>1. In(e, x) /\ ~In(r, x)
        BY <2>2, <2>4, <3>2
      <4> QED BY <1>1, <4>1 DEF e
    <3> QED BY <1>9, <3>1, <3>2
  <2>5. ASSUME NEW j \in DOMAIN list, In(list[j], x), ~In(r, x)
        PROVE  \E a \in DOMAIN new : In(new[a], x)
    <3>1. CASE j # i
      <4>1. PICK a \in DOMAIN new : q[a] = j
        BY <1>10, <3>1
      <4>2. new[a] = list[j]
        BY <1>9, <1>11, <4>1
      <4> QED BY <2>5, <4>2
    <3>2. CASE j = i
      <4>1. In(e, x)
        BY <2>5, <3>2 DEF e
      <4>2. CASE e.lo < r.lo /\ In(left, x)
        <5>1. PICK a \in DOMAIN new : q[a] = 0
          BY <1>10, <4>2
        <5>2. new[a] = left
          BY <1>9, <1>11, <5>1
        <5> QED BY <4>2, <5>2
      <4>3. CASE r.hi < e.hi /\ In(right, x)
        <5>1. PICK a \in DOMAIN new : q[a] = N + 1
          BY <1>10, <4>3
        <5>2. new[a] = right
          BY <1>9, <1>11, <5>1
        <5> QED BY <4>3, <5>2
      <4> QED BY <2>3, <2>5, <4>1, <4>2, <4>3
    <3> QED BY <3>1, <3>2
  <2> QED BY <2>4, <2>5
<1>15. KernelLeft(new, purge \cup Gone(e))
  <2>1. /\ purge \in SUBSET Held
        /\ \A j \in DOMAIN list : list[j].kernel => Span(list[j]) \in Held \ purge
        /\ \A s \in Held \ purge : \E j \in DOMAIN list : list[j].kernel /\ Span(list[j]) = s
    BY DEF DeleteInv, KernelLeft
  <2>2. e.kernel \in BOOLEAN /\ Gone(e) = IF e.kernel THEN {Span(e)} ELSE {}
    BY <1>1 DEF Element, Gone
  <2>3. (purge \cup Gone(e)) \in SUBSET Held
    BY <1>1, <2>1, <2>2 DEF e
  <2>4. ASSUME NEW j \in DOMAIN list, j # i PROVE Span(list[j]) # Span(e)
    <3>1. Clear(list[j], e) \/ Clear(e, list[j])
      BY <1>1, <1>12, <2>4 DEF e
    <3>2. ~(list[j].lo = e.lo /\ list[j].hi = e.hi)
      BY <1>4, <1>8, <3>1 DEF Clear
    <3> QED BY <3>2, SameSpan
  <2>5. ASSUME NEW a \in DOMAIN new, new[a].kernel PROVE Span(new[a]) \in Held \ (purge \cup Gone(e))
    <3>1. q[a] \in DOMAIN list /\ q[a] # i /\ new[a] = list[q[a]]
      BY <1>7, <1>9, <2>5
    <3> QED BY <2>1, <2>2, <2>4, <2>5, <3>1
  <2>6. ASSUME NEW s \in Held \ (purge \cup Gone(e))
        PROVE  \E a \in DOMAIN new : new[a].kernel /\ Span(new[a]) = s
    <3>1. PICK j \in DOMAIN list : list[j].kernel /\ Span(list[j]) = s
      BY <2>1
    <3>2. j # i
      BY <2>2, <3>1 DEF e
    <3>3. PICK a \in DOMAIN new : q[a] = j
      BY <1>10, <3>2
    <3>4. new[a] = list[j]
      BY <1>9, <1>11, <3>3
    <3> QED BY <3>1, <3>4
  <2> QED BY <2>3, <2>5, <2>6 DEF KernelLeft
<1>16. PartsLeft(new, ones, m + 1)
  <2> SUFFICES ASSUME NEW a \in DOMAIN new, ~new[a].kernel
               PROVE  automerge /\ \E k \in 1..(m + 1) : Beside(new[a], ones[k])
    BY DEF PartsLeft
  <2>1. CASE q[a] \in DOMAIN list /\ new[a] = list[q[a]]
    BY <1>2, <2>1 DEF DeleteInv, PartsLeft
  <2>2. CASE (e.lo < r.lo \/ r.hi < e.hi) /\ (new[a] = left \/ new[a] = right)
    <3>1. Span(e) # r
      <4>1. Span(e).lo = e.lo /\ Span(e).hi = e.hi
        BY DEF Span
      <4> QED BY <1>3, <1>8, <2>2, <4>1
    <3>2. Beside(new[a], r)
      BY <1>3, <1>7, <2>2 DEF Beside
    <3> QED BY <1>1, <1>2, <3>1, <3>2 DEF r
  <2> QED BY <1>9, <2>1, <2>2
<1> QED BY <1>13, <1>14, <1>15, <1>16 DEF DeleteInv, new, e, r

\* The elements to remove one by one: with auto-merge those of the command,
\* sorted and merged, and otherwise those of the command.
LEMMA DeleteOnesAre ==
    ASSUME automerge \in BOOLEAN, NEW given \in Seq(Spans), NEW ones, ones = DeleteOnes(given)
    PROVE  /\ Removable(ones)
           /\ \A x \in Int : (\E k \in DOMAIN ones : In(ones[k], x)) <=> \E s \in Named(given) : In(s, x)
<1>1. CASE ~automerge
  <2>1. ones = given
    BY <1>1 DEF DeleteOnes
  <2> QED BY <1>1, <2>1 DEF Removable, Named
<1>2. CASE automerge
  <2> DEFINE all == ExprSort(Elems(given, FALSE))
             st == Automerge(all)
             kept == st.kept
             M == Len(kept)
  <2>1. /\ all \in Seq(Element) /\ Ordered(all) /\ Len(all) \in Nat /\ DOMAIN all = 1..Len(all)
        /\ \A i \in 1..Len(all) : ~all[i].kernel /\ Span(all[i]) \in Named(given) /\ Fits(all[i])
        /\ \A s \in Named(given) : \E i \in 1..Len(all) : Span(all[i]) = s
    <3>1. /\ all \in Seq(Element) /\ Ordered(all)
          /\ \A i \in DOMAIN all : ~all[i].kernel /\ Span(all[i]) \in Named(given) /\ Fits(all[i])
          /\ \A s \in Named(given) : \E i \in DOMAIN all : Span(all[i]) = s
      BY GivenIs
    <3> HIDE DEF all
    <3> QED BY <3>1
  <2>2. ones = [i \in DOMAIN kept |-> Span(kept[i])]
    BY <1>2 DEF DeleteOnes
  <2> HIDE DEF all
  <2>3. Mergeable(all)
    BY <2>1 DEF Mergeable
  <2>4. st \in Merging /\ MergeInv(all, st, Len(all))
    BY <2>3, AutomergeInv
  <2> HIDE DEF st
  <2>5. kept \in Seq(Element) /\ KeptApart(kept) /\ SameKeys(all, kept, Len(all))
    BY <2>4 DEF Merging, MergeInv
  <2> HIDE DEF kept
  <2>6. M \in Nat /\ DOMAIN kept = 1..M
    BY <2>5
  <2>7. \A i \in 1..M : kept[i].lo \in Int /\ kept[i].hi \in Int /\ Fits(kept[i])
    BY <2>5, Elements DEF KeptApart
  <2>8. \A i \in 1..M : Span(kept[i]) \in Spans
    BY <2>7, FitsSpan
  <2> HIDE DEF M
  <2>9. ones \in [1..M -> Spans] /\ \A i \in 1..M : ones[i] = Span(kept[i])
    BY <2>2, <2>6, <2>8
  <2>10. ones \in Seq(Spans) /\ DOMAIN ones = 1..M
    BY <2>6, <2>9, ListOf
  <2>11. ASSUME NEW j \in 1..M, NEW k \in 1..M, j < k PROVE Before(ones[j], ones[k])
    <3>1. Before(kept[j], kept[k])
      BY <2>5, <2>11 DEF KeptApart, M
    <3> QED BY <2>9, <3>1 DEF Before, Span
  <2>12. ASSUME NEW x \in Int
         PROVE  (\E k \in 1..M : In(ones[k], x)) <=> \E s \in Named(given) : In(s, x)
    <3>1. \A k \in 1..M : In(ones[k], x) <=> In(kept[k], x)
      BY <2>9 DEF In, Span
    <3>2. (\E k \in 1..M : In(kept[k], x)) <=> \E j \in 1..Len(all) : In(all[j], x)
      BY <2>5 DEF SameKeys, M
    <3>3. \A j \in 1..Len(all) : In(all[j], x) <=> In(Span(all[j]), x)
      BY DEF In, Span
    <3>4. (\E j \in 1..Len(all) : In(all[j], x)) <=> \E s \in Named(given) : In(s, x)
      BY <2>1, <3>3
    <3> QED BY <3>1, <3>2, <3>4
  <2> QED BY <2>10, <2>11, <2>12 DEF Removable
<1> QED BY <1>1, <1>2

Deletes(f, spans) ==
    /\ f[0] = NoneDeleted
    /\ \A m \in 0..Len(spans) : f[m] \in Deleting
    /\ \A m \in 0..(Len(spans) - 1) : f[m + 1] = DeleteStep(f[m], spans[m + 1])
    /\ DeleteAll(spans) = f[Len(spans)]

LEMMA DeleteSteps ==
    ASSUME automerge \in BOOLEAN, cached \in Seq(Element), NEW spans \in Seq(Interval)
    PROVE  \E f : Deletes(f, spans)
<1> DEFINE N == Len(spans)
           Body(f) == [k \in 0..N |-> IF k = 0 THEN NoneDeleted ELSE DeleteStep(f[k - 1], spans[k])]
           step == [x \in Deleting \X (1..N) |-> DeleteStep(x[1], spans[x[2]])]
           deleted == CHOOSE f : f = Body(f)
<1>1. N \in Nat /\ \A m \in 1..N : spans[m] \in Interval
  BY ItemsOf
<1>2. NoneDeleted \in Deleting
  BY DEF NoneDeleted, Deleting
<1>3. \A x \in Deleting, m \in 1..N : DeleteStep(x, spans[m]) \in Deleting
  BY <1>1, DeleteStepIs
<1>4. /\ step \in [Deleting \X (1..N) -> Deleting]
      /\ \A x \in Deleting, m \in 1..N : step[<<x, m>>] = DeleteStep(x, spans[m])
  <2> HIDE DEF N
  <2> QED BY <1>1, <1>3
<1> HIDE DEF step
<1>5. PICK g : Recurs(g, N, Deleting, NoneDeleted, step)
  <2> HIDE DEF N
  <2> QED BY <1>1, <1>2, <1>4, Recursion
<1>6. g = Body(g)
  <2>1. ASSUME NEW m \in 0..N PROVE g[m] = IF m = 0 THEN NoneDeleted ELSE DeleteStep(g[m - 1], spans[m])
    <3>1. CASE m = 0
      BY <1>5, <3>1 DEF Recurs
    <3>2. CASE m # 0
      <4>1. m \in 1..N /\ m - 1 \in 0..N
        BY <1>1, <3>2
      <4> QED BY <1>4, <1>5, <3>2, <4>1 DEF Recurs
    <3> QED BY <3>1, <3>2
  <2>2. DOMAIN g = 0..N /\ g = [m \in 0..N |-> g[m]]
    BY <1>5 DEF Recurs
  <2> QED BY <2>1, <2>2
<1>7. deleted = Body(deleted)
  <2> HIDE DEF Body
  <2> QED BY <1>6
<1>8. DeleteAll(spans) = deleted[N]
  BY DEF DeleteAll
<1> HIDE DEF deleted
<1>9. \A m \in 0..N : deleted[m] = IF m = 0 THEN NoneDeleted ELSE DeleteStep(deleted[m - 1], spans[m])
  BY <1>7

<1>10. ASSUME NEW m \in 0..(N - 1) PROVE deleted[m + 1] = DeleteStep(deleted[m], spans[m + 1])
  <2>1. m + 1 \in 0..N /\ (m + 1) - 1 = m /\ m + 1 # 0
    BY <1>1
  <2> QED BY <1>9, <2>1
<1> DEFINE T == {m \in 0..N : deleted[m] \in Deleting}
<1>11. 0 \in T /\ deleted[0] = NoneDeleted
  BY <1>1, <1>2, <1>9
<1>12. ASSUME NEW m \in 0..(N - 1), m \in T PROVE m + 1 \in T
  <2>1. m + 1 \in 1..N /\ m + 1 \in 0..N
    BY <1>1
  <2> QED BY <1>1, <1>3, <1>10, <1>12, <2>1
<1>13. 0..N \subseteq T
  <2> HIDE DEF T
  <2> QED BY <1>1, <1>11, <1>12, Upto
<1> QED BY <1>8, <1>10, <1>11, <1>13 DEF Deletes

\* All of them are removed from a faithful copy, if each is in an element.
LEMMA DeleteAllInv ==
    ASSUME automerge \in BOOLEAN, cached \in Copy, Faithful, NEW ones, Removable(ones)
    PROVE  /\ DeleteAll(ones) \in Deleting
           /\ ~DeleteAll(ones).failed =>
                  DeleteInv(DeleteAll(ones).list, DeleteAll(ones).purge, ones, Len(ones))
<1>1. /\ ones \in Seq(Interval) /\ Len(ones) \in Nat /\ Len(ones) \in 0..Len(ones)
      /\ \A k \in 1..Len(ones) : ones[k] \in Interval
  <2>1. Spans \subseteq Interval
    BY DEF Spans, Interval
  <2> QED BY <2>1 DEF Removable
<1>2. PICK f : Deletes(f, ones)
  BY <1>1, CopyIs, DeleteSteps
<1> DEFINE T == {m \in 0..Len(ones) : ~f[m].failed => DeleteInv(f[m].list, f[m].purge, ones, m)}
<1>3. 0 \in T
  <2>1. f[0] = NoneDeleted /\ 0 \in 0..Len(ones)
    BY <1>1, <1>2 DEF Deletes
  <2>2. NoneDeleted.list = cached /\ NoneDeleted.purge = {} /\ 1..0 = {}
    BY DEF NoneDeleted
  <2>3. ClearOf(cached) /\ PartsLeft(cached, ones, 0)
    BY CopyIs DEF ClearOf, PartsLeft
  <2>4. KernelLeft(cached, {})
    BY CopyIs DEF KernelLeft
  <2>5. KeysLeft(cached, ones, 0)
    <3>1. ASSUME NEW x \in Int
          PROVE  (\E i \in DOMAIN cached : In(cached[i], x)) <=> \E s \in Held : In(s, x)
      <4>1. \A i \in DOMAIN cached : In(cached[i], x) <=> In(Span(cached[i]), x)
        BY DEF In, Span
      <4> QED BY <4>1, CopyIs
    <3> QED BY <2>2, <3>1 DEF KeysLeft
  <2>6. DeleteInv(NoneDeleted.list, NoneDeleted.purge, ones, 0)
    BY <2>2, <2>3, <2>4, <2>5 DEF DeleteInv
  <2> QED BY <2>1, <2>6
<1>4. ASSUME NEW m \in 0..(Len(ones) - 1), m \in T PROVE m + 1 \in T
  <2> DEFINE st == f[m]
             new == f[m + 1]
             r == ones[m + 1]
             list == ExprSort(st.list)
  <2>1. m + 1 \in 0..Len(ones) /\ m + 1 \in 1..Len(ones) /\ m \in 0..Len(ones)
    BY <1>1
  <2>2. st \in Deleting /\ new = DeleteStep(st, r) /\ r \in Interval
    BY <1>1, <1>2, <2>1 DEF Deletes
  <2>3. SUFFICES ASSUME ~new.failed PROVE DeleteInv(new.list, new.purge, ones, m + 1)
    BY <2>1
  <2>4. ~st.failed => DeleteInv(st.list, st.purge, ones, m)
    BY <1>4
  <2> HIDE DEF st, new, r
  <2>5. ~st.failed
    BY <2>2, <2>3, DeleteStepIs
  <2>6. PICK i : /\ Holds(list, i, r) /\ new.purge = st.purge \cup Gone(list[i])
                 /\ new.list = IF Span(list[i]) = r /\ ~list[i].kernel THEN list
                               ELSE Without(list, i, r)
    BY <2>2, <2>3, DeleteStepIs
  <2>7. st.list \in Seq(Element)
    BY <2>2 DEF Deleting
  <2>8. list \in Seq(Element) /\ \E p : Shuffled(list, st.list, p)
    BY <2>7, Sorted
  <2> HIDE DEF list
  <2>9. DeleteInv(list, st.purge, ones, m)
    BY <2>4, <2>5, <2>7, <2>8, InvShuffled
  <2>10. i \in DOMAIN list
    BY <2>6, <2>8 DEF Holds
  <2>11. list[i].kernel \/ Span(list[i]) # r
    BY <2>9, <2>10, NoneEqual DEF r
  <2>12. DeleteInv(Without(list, i, r), st.purge \cup Gone(list[i]), ones, m + 1)
    BY <2>6, <2>9, WithoutInv DEF r
  <2>13. new.list = Without(list, i, r)
    BY <2>6, <2>11
  <2> QED BY <2>6, <2>12, <2>13
<1>5. 0..Len(ones) \subseteq T
  <2> HIDE DEF T
  <2> QED BY <1>1, <1>3, <1>4, Upto
<1> QED BY <1>1, <1>2, <1>5 DEF Deletes

\* What is left can be sent.
LEMMA LeftIsSendable ==
    ASSUME NEW list, NEW purge, NEW ones, NEW m, DeleteInv(list, purge, ones, m)
    PROVE  Sendable(list, purge)
<1>1. ClearOf(list) /\ KernelLeft(list, purge)
  BY DEF DeleteInv
<1>2. ASSUME NEW i \in DOMAIN list, NEW j \in DOMAIN list
      PROVE  \/ Span(list[i]) = Span(list[j])
             \/ Clear(list[i], list[j]) \/ Clear(list[j], list[i])
  BY <1>1 DEF ClearOf
<1> QED BY <1>1, <1>2 DEF Sendable, ClearOf, KernelLeft

LEMMA DeleteHolds ==
    ASSUME automerge \in BOOLEAN, cached \in Copy, Faithful, status = "open",
           NEW given \in Seq(Spans), Delete(given)
    PROVE  /\ status' \in {"open", "error"}
           /\ status' = "open" => /\ Points(Held') = Points(Held) \ Points(Named(given))
                                  /\ Whole' /\ Known' /\ Apart(Held)'
                                  /\ cached' \in Copy
<1> DEFINE ones == DeleteOnes(given)
           st == DeleteAll(ones)
<1>1. /\ automerge' = automerge
      /\ \/ Fail
         \/ ~st.failed /\ Send(st.purge, NewOnes(st.list), st.list)
  BY DEF Delete, Command
<1>2. /\ Removable(ones)
      /\ \A x \in Int : (\E k \in DOMAIN ones : In(ones[k], x)) <=> \E s \in Named(given) : In(s, x)
  BY DeleteOnesAre
<1> HIDE DEF ones
<1>3. st \in Deleting /\ (~st.failed => DeleteInv(st.list, st.purge, ones, Len(ones)))
  BY <1>2, DeleteAllInv
<1> HIDE DEF st
<1>4. CASE Fail
  BY <1>4 DEF Fail
<1>5. CASE ~st.failed /\ Send(st.purge, NewOnes(st.list), st.list)
  <2>1. DeleteInv(st.list, st.purge, ones, Len(ones)) /\ Sendable(st.list, st.purge)
    BY <1>3, <1>5, LeftIsSendable
  <2>2. /\ status' = status /\ Held' = SpansOf(st.list) /\ Whole' /\ Known' /\ Apart(Held)'
        /\ cached' = [i \in DOMAIN st.list |-> Elem(st.list[i], TRUE)]
    BY <1>1, <1>5, <2>1, Sent DEF Faithful
  <2>3. /\ st.list \in Seq(Element) /\ DOMAIN st.list = 1..Len(st.list)
        /\ \A i \in DOMAIN st.list : Fits(st.list[i])
    BY <2>1 DEF DeleteInv, ClearOf
  <2>4. cached' \in Copy
    BY <2>2, <2>3, CopyOf
  <2>5. Held' \in SUBSET Spans /\ Held \in SUBSET Spans /\ Named(given) \in SUBSET Spans
    BY <2>2, <2>3, KeysOfList, 0 \in Int DEF Held, Decompose, Named
  <2>6. ASSUME NEW x \in Int
        PROVE  x \in Points(SpansOf(st.list)) <=> x \in Points(Held) \ Points(Named(given))
    <3>1. x \in Points(SpansOf(st.list)) <=> \E i \in 1..Len(st.list) : In(st.list[i], x)
      BY <2>3, KeysOfList
    <3>2. (\E i \in DOMAIN st.list : In(st.list[i], x))
            <=> (\E s \in Held : In(s, x)) /\ \A k \in 1..Len(ones) : ~In(ones[k], x)
      BY <2>1 DEF DeleteInv, KeysLeft
    <3>3. DOMAIN ones = 1..Len(ones)
      BY <1>2 DEF Removable
    <3>4. x \in Points(Held) <=> \E s \in Held : In(s, x)
      BY <2>5, KeysOf
    <3>5. x \in Points(Named(given)) <=> \E s \in Named(given) : In(s, x)
      BY <2>5, KeysOf
    <3>6. (\E k \in 1..Len(ones) : In(ones[k], x)) <=> \E s \in Named(given) : In(s, x)
      BY <1>2, <3>3
    <3> QED BY <2>3, <3>1, <3>2, <3>4, <3>5, <3>6
  <2>7. \A x : x \in Points(Held') \/ x \in Points(Held) => x \in Int
    BY <2>5, KeysOf
  <2>8. Points(Held') = Points(Held) \ Points(Named(given))
    BY <2>2, <2>6, <2>7
  <2> QED BY <2>2, <2>4, <2>8
<1> QED BY <1>1, <1>4, <1>5
-----------------------------------------------------------------------------
(***************************************************************************)
(* The copy as it is loaded.                                               *)
(***************************************************************************)
\* No two intervals that the kernel holds start alike, and there are finitely
\* many.
LEMMA HeldOnce ==
    ASSUME NEW E
    PROVE  /\ Decompose(E) \in SUBSET Spans /\ IsFiniteSet(Decompose(E))
           /\ \A s, t \in Decompose(E) : s.lo = t.lo => s = t
<1> DEFINE D == Decompose(E)
<1>1. D \in SUBSET Spans
  BY DEF Decompose
<1>2. ASSUME NEW s \in D, NEW t \in D, s.lo = t.lo PROVE s.hi >= t.hi
  <2>1. /\ s.lo \in 0..MaxKey /\ s.hi \in 0..MaxKey /\ t.hi \in 0..MaxKey /\ s.lo <= s.hi
        /\ MaxKey \in Nat
    BY <1>1, SpanType, KeyAssumption
  <2>2. SUFFICES ASSUME s.hi < t.hi PROVE FALSE
    BY <2>1
  <2>3. s.hi # MaxKey
    BY <2>1, <2>2
  <2>4. PICK e \in E : e = Start(s.hi + 1) \/ e = End(s.hi + 1)
    BY <2>3 DEF Decompose
  <2>5. e.key = s.hi + 1
    BY <2>4 DEF Start, End
  <2>6. ~(t.lo < e.key /\ e.key <= t.hi)
    BY DEF Decompose
  <2> QED BY <1>2, <2>1, <2>2, <2>5, <2>6
<1>3. ASSUME NEW s \in D, NEW t \in D, s.lo = t.lo PROVE s = t
  <2> HIDE DEF D
  <2>1. s.hi >= t.hi /\ t.hi >= s.hi
    BY <1>2, <1>3
  <2>2. s.hi \in Int /\ t.hi \in Int /\ s = [lo |-> s.lo, hi |-> s.hi] /\ t = [lo |-> t.lo, hi |-> t.hi]
    BY <1>1, SpanType
  <2>3. s.hi = t.hi
    BY <2>1, <2>2
  <2> QED BY <1>3, <2>2, <2>3
<1>4. IsFiniteSet(D)
  <2> DEFINE f == [s \in D |-> s.lo]
  <2> HIDE DEF D
  <2>1. f \in Injection(D, 0..MaxKey)
    <3>1. f \in [D -> 0..MaxKey] /\ \A s \in D : f[s] = s.lo
      BY <1>1, SpanType
    <3> HIDE DEF f
    <3>2. \A s, t \in D : f[s] = f[t] => s = t
      BY <1>3, <3>1
    <3> QED BY <3>1, <3>2 DEF Injection, IsInjective
  <2>2. IsFiniteSet(0..MaxKey)
    BY KeyAssumption, FS_Interval
  <2> HIDE DEF f
  <2> QED BY <2>1, <2>2, FS_Injection
<1> QED BY <1>1, <1>3, <1>4

\* The copy has what the kernel holds, in order, each interval once.
LEMMA LoadedIs ==
    ASSUME NEW E
    PROVE  /\ Loaded(E) \in Copy /\ Len(Loaded(E)) = Cardinality(Decompose(E))
           /\ SpansOf(Loaded(E)) = Decompose(E)
           /\ \A i \in 1..(Len(Loaded(E)) - 1) : Loaded(E)[i].lo <= Loaded(E)[i + 1].lo
<1> DEFINE S == Decompose(E)
           N == Cardinality(S)
           before == {p \in S \X S : p[1].lo < p[2].lo}
           Earlier(s) == {r \in S : r.lo < s.lo}
           g(i) == CHOOSE s \in S : Cardinality(Earlier(s)) = i - 1
           list == Loaded(E)
           T == [lo : Int, hi : Int, kernel : {TRUE}]
<1>1. /\ S \in SUBSET Spans /\ IsFiniteSet(S) /\ N \in Nat
      /\ \A s, t \in S : s.lo = t.lo => s = t
  BY HeldOnce, FS_CardinalityType
<1> HIDE DEF S
<1>2. \A s, t \in S : <<s, t>> \in before <=> s.lo < t.lo
  OBVIOUS
<1>3. ASSUME NEW s \in S PROVE Rank(before, S, s) = Cardinality(Earlier(s))
  <2>1. Earlier(s) = {r \in S : <<r, s>> \in before}
    BY <1>2
  <2> QED BY <2>1 DEF Rank
<1>4. list = [i \in 1..N |-> Elem(g(i), TRUE)]
  BY DEF Loaded, S
<1>5. \A s \in S : s.lo \in Int /\ s.hi \in Int /\ s = [lo |-> s.lo, hi |-> s.hi]
  BY <1>1, SpanType
<1>6. Orders(before, S)
  <2>1. before \in SUBSET (S \X S)
    OBVIOUS
  <2> HIDE DEF before
  <2> QED BY <1>1, <1>2, <1>5, <2>1 DEF Orders
<1> HIDE DEF before, N
<1>7. /\ \A s \in S : Rank(before, S, s) \in 0..(N - 1)
      /\ \A s, t \in S : s.lo < t.lo => Rank(before, S, s) < Rank(before, S, t)
      /\ \A k \in 1..N : \E s \in S : Rank(before, S, s) = k - 1
  <2>1. /\ \A s \in S : Rank(before, S, s) \in 0..(N - 1)
        /\ \A s, t \in S : <<s, t>> \in before => Rank(before, S, s) < Rank(before, S, t)
        /\ \A k \in 1..N : \E s \in S : Rank(before, S, s) = k - 1
    <3>1. N \in Nat /\ Cardinality(S) = N
      BY <1>1 DEF N
    <3> QED BY <1>1, <1>6, <3>1, Ranks
  <2> QED BY <1>2, <2>1
<1>8. ASSUME NEW i \in 1..N PROVE g(i) \in S /\ Rank(before, S, g(i)) = i - 1
  <2> HIDE DEF Earlier
  <2>1. \E s \in S : Cardinality(Earlier(s)) = i - 1
    BY <1>3, <1>7
  <2>2. g(i) \in S /\ Cardinality(Earlier(g(i))) = i - 1
    BY <2>1
  <2> QED BY <1>3, <2>2
<1> HIDE DEF g
<1>9. ASSUME NEW i \in 1..N
      PROVE  list[i] \in T /\ list[i].lo = g(i).lo /\ Span(list[i]) = g(i)
  <2>1. list[i] = Elem(g(i), TRUE)
    BY <1>4
  <2> QED BY <1>5, <1>8, <2>1 DEF Elem, Span
<1> HIDE DEF T
<1>10. list \in Seq(T) /\ Len(list) = N /\ DOMAIN list = 1..N
  <2> HIDE DEF list
  <2>1. list \in [1..N -> T]
    BY <1>4, <1>9
  <2> QED BY <1>1, <2>1, ListOf DEF N
<1> HIDE DEF list
<1>11. ASSUME NEW i \in 1..(N - 1) PROVE list[i].lo <= list[i + 1].lo
  <2>1. i \in 1..N /\ i + 1 \in 1..N
    BY <1>1 DEF N
  <2>2. Rank(before, S, g(i)) = i - 1 /\ Rank(before, S, g(i + 1)) = i
    <3>1. (i + 1) - 1 = i
      OBVIOUS
    <3> QED BY <1>8, <2>1, <3>1
  <2>3. ~(Rank(before, S, g(i + 1)) < Rank(before, S, g(i)))
    BY <2>2
  <2>4. ~(g(i + 1).lo < g(i).lo)
    BY <1>7, <1>8, <2>1, <2>3
  <2> QED BY <1>5, <1>8, <1>9, <2>1, <2>4
<1>12. SpansOf(list) = S
  <2>1. ASSUME NEW s \in S PROVE \E i \in 1..N : Span(list[i]) = s
    <3> DEFINE i == Rank(before, S, s) + 1
    <3>1. i \in 1..N /\ i - 1 = Rank(before, S, s)
      BY <1>1, <1>7 DEF N
    <3> HIDE DEF i
    <3>2. g(i) \in S /\ Rank(before, S, g(i)) = Rank(before, S, s)
      BY <1>8, <3>1
    <3>3. Rank(before, S, s) \in Int /\ ~(Rank(before, S, s) < Rank(before, S, s))
      BY <1>7
    <3>4. ~(g(i).lo < s.lo) /\ ~(s.lo < g(i).lo)
      BY <1>7, <3>2, <3>3
    <3>5. g(i) = s
      BY <1>1, <1>5, <3>2, <3>4
    <3> QED BY <1>9, <3>1, <3>5
  <2>2. \A i \in 1..N : Span(list[i]) \in S
    BY <1>8, <1>9
  <2> QED BY <1>10, <2>1, <2>2 DEF SpansOf
<1> QED BY <1>10, <1>11, <1>12 DEF Copy, T, S, N, list
-----------------------------------------------------------------------------
(***************************************************************************)
(* Every step, from every state with the types the variables have.         *)
(***************************************************************************)
LEMMA CopyType == ASSUME NEW list \in Copy PROVE list \in Seq(Element)
<1>1. Len(list) \in Nat /\ list \in [1..Len(list) -> Element]
  <2>1. /\ Len(list) \in Nat /\ list = [i \in 1..Len(list) |-> list[i]]
        /\ \A i \in 1..Len(list) : list[i] \in [lo : Int, hi : Int, kernel : {TRUE}]
    BY ItemsOf DEF Copy
  <2>2. \A i \in 1..Len(list) : list[i] \in Element
    BY <2>1 DEF Element
  <2> QED BY <2>1, <2>2
<1> QED BY <1>1, ListOf

EndType == [key : Int, end : BOOLEAN]

LEMMA EndsType == ASSUME NEW S \in SUBSET Interval PROVE Ends(S) \in SUBSET EndType
<1>1. \A s \in S : s.lo \in Int /\ s.hi \in Int
  BY DEF Interval
<1>2. \A k \in Int : Start(k) \in EndType /\ End(k) \in EndType
  BY DEF Start, End, EndType
<1>3. \A s \in S : Start(s.lo) \in EndType /\ End(s.hi + 1) \in EndType
  BY <1>1, <1>2
<1> QED BY <1>3 DEF Ends

LEMMA SendType ==
    ASSUME ends \in SUBSET EndType, status = "open", NEW purge \in SUBSET Interval,
           NEW list \in Seq(Element), Send(purge, NewOnes(list), list)
    PROVE  ends' \in SUBSET EndType /\ cached' \in Copy /\ status' \in {"open", "refused"}
<1>1. CASE status' = "refused" /\ cached' = <<>> /\ UNCHANGED ends
  BY <1>1 DEF Copy
<1>2. CASE /\ ends' = (ends \ Ends(purge)) \cup Ends(NewOnes(list)) \cup FirstSegment(NewOnes(list))
           /\ cached' = [i \in DOMAIN list |-> Elem(list[i], TRUE)] /\ UNCHANGED status
  <2>1. NewOnes(list) \in SUBSET Interval
    <3>1. \A i \in DOMAIN list : Span(list[i]) \in Interval
      BY Elements DEF Span, Interval
    <3> QED BY <3>1, NewOnesAre
  <2>2. FirstSegment(NewOnes(list)) \in SUBSET EndType
    <3>1. End(0) \in EndType
      BY DEF End, EndType
    <3> QED BY <3>1 DEF FirstSegment
  <2>3. Ends(NewOnes(list)) \in SUBSET EndType
    BY <2>1, EndsType
  <2>4. cached' \in Copy
    BY <1>2, CopyOf
  <2> QED BY <1>2, <2>2, <2>3, <2>4
<1> QED BY <1>1, <1>2 DEF Send

\* TypeInv in the words of this module.
LEMMA TypeInvIs ==
    TypeInv <=> /\ automerge \in BOOLEAN /\ bare \in BOOLEAN /\ ends \in SUBSET EndType
                /\ cached \in Copy /\ status \in {"open", "error", "refused"}
                /\ last \in [op : {"none", "add", "delete"}, given : SUBSET Spans]
                /\ n \in 0..MaxCommands
  BY DEF TypeInv, EndType, Copy

LEMMA SpliceType ==
    ASSUME cached \in Copy, NEW given \in Seq(Spans) PROVE SortSplice(given) \in Seq(Element)
<1> DEFINE sorted == ExprSort(Elems(given, FALSE))
<1>1. sorted \in Seq(Element) /\ Ordered(sorted) /\ cached \in Seq(Element)
  BY GivenIs, CopyType
<1> HIDE DEF sorted
<1>2. SpliceSorted(cached, sorted) \in Seq(Element)
  BY <1>1, Spliced
<1> QED BY <1>2 DEF SortSplice, sorted

\* What a command does to the elements of the kernel and to the copy.
LEMMA SentType ==
    ASSUME TypeInv, status = "open", NEW given \in Seq(Spans),
           AddMerging(given) \/ AddApart(given) \/ Delete(given)
    PROVE  ends' \in SUBSET EndType /\ cached' \in Copy /\ status' \in {"open", "error", "refused"}
<1>1. automerge \in BOOLEAN /\ ends \in SUBSET EndType /\ cached \in Copy
  BY TypeInvIs
<1>2. CASE Fail
  BY <1>1, <1>2 DEF Fail, Copy
<1>3. CASE AddMerging(given)
  <2> DEFINE list == SortSplice(given)
             st == Automerge(list)
  <2>1. Send(st.purge, NewOnes(st.kept), st.kept)
    BY <1>3 DEF AddMerging
  <2>2. list \in Seq(Element)
    BY <1>1, SpliceType
  <2> HIDE DEF list
  <2>3. st \in Merging
    <3>1. PICK f : Merges(f, list)
      BY <2>2, AutomergeSteps
    <3>2. Len(list) \in 0..Len(list)
      BY <2>2
    <3> QED BY <3>1, <3>2 DEF Merges
  <2> HIDE DEF st
  <2>4. st.purge \in SUBSET Interval /\ st.kept \in Seq(Element)
    BY <2>3 DEF Merging
  <2> QED BY <1>1, <2>1, <2>4, SendType
<1>4. CASE AddApart(given)
  <2> DEFINE list == SortSplice(given)
  <2>1. Fail \/ Send({}, NewOnes(list), list)
    BY <1>4 DEF AddApart
  <2>2. list \in Seq(Element)
    BY <1>1, SpliceType
  <2> HIDE DEF list
  <2> QED BY <1>1, <1>2, <2>1, <2>2, SendType
<1>5. CASE Delete(given)
  <2> DEFINE ones == DeleteOnes(given)
             st == DeleteAll(ones)
  <2>1. Fail \/ Send(st.purge, NewOnes(st.list), st.list)
    BY <1>5 DEF Delete
  <2>2. Removable(ones)
    BY <1>1, DeleteOnesAre
  <2> HIDE DEF ones
  <2>3. ones \in Seq(Interval) /\ cached \in Seq(Element) /\ Len(ones) \in 0..Len(ones)
    <3>1. Spans \subseteq Interval
      BY DEF Spans, Interval
    <3> QED BY <1>1, <2>2, <3>1, CopyType DEF Removable
  <2>4. PICK f : Deletes(f, ones)
    BY <1>1, <2>3, DeleteSteps
  <2>5. st \in Deleting
    BY <2>3, <2>4 DEF Deletes
  <2> HIDE DEF st
  <2>6. st.purge \in SUBSET Interval /\ st.list \in Seq(Element)
    BY <2>5 DEF Deleting
  <2> QED BY <1>1, <1>2, <2>1, <2>6, SendType
<1> QED BY <1>3, <1>4, <1>5

\* Commands and their elements are recorded as they are given.
LEMMA CommandIs ==
    ASSUME NEW op, NEW given \in Seq(Spans), Command(op, given)
    PROVE  /\ status = "open" /\ n < MaxCommands /\ n' = n + 1
           /\ last' = [op |-> op, given |-> Named(given)] /\ Named(given) \in SUBSET Spans
           /\ automerge' = automerge /\ bare' = bare
  BY DEF Command, Named

LEMMA InitTypeInv == ASSUME Init PROVE TypeInv
<1>1. ends \in SUBSET EndType
  <2>1. PICK S \in Stored : ends = Ends(S)
    BY DEF Init
  <2>2. S \in SUBSET Interval
    BY StoredAssumption DEF Spans, Interval
  <2> QED BY <2>1, <2>2, EndsType
<1>2. cached \in Copy
  BY LoadedIs DEF Init
<1>3. n \in 0..MaxCommands
  BY BoundAssumption DEF Init
<1> QED BY <1>1, <1>2, <1>3, TypeInvIs DEF Init

LEMMA NextTypeInv == ASSUME TypeInv, [Next]_vars PROVE TypeInv'
<1>0. /\ automerge \in BOOLEAN /\ bare \in BOOLEAN /\ ends \in SUBSET EndType
      /\ n \in 0..MaxCommands /\ MaxCommands \in Nat
      /\ last \in [op : {"none", "add", "delete"}, given : SUBSET Spans]
  BY TypeInvIs, BoundAssumption
<1>1. ASSUME NEW given \in Given, AddMerging(given) \/ AddApart(given) \/ Delete(given)
      PROVE  TypeInv'
  <2>1. given \in Seq(Spans)
    BY GivenAssumption
  <2>2. PICK op \in {"add", "delete"} : Command(op, given)
    BY <1>1 DEF AddMerging, AddApart, Delete
  <2>3. /\ status = "open" /\ n < MaxCommands /\ n' = n + 1
        /\ last' = [op |-> op, given |-> Named(given)] /\ Named(given) \in SUBSET Spans
        /\ automerge' = automerge /\ bare' = bare
    BY <2>1, <2>2, CommandIs
  <2>4. ends' \in SUBSET EndType /\ cached' \in Copy /\ status' \in {"open", "error", "refused"}
    BY <1>1, <2>1, <2>3, SentType
  <2>5. n' \in 0..MaxCommands
    BY <1>0, <2>3
  <2>6. last' \in [op : {"none", "add", "delete"}, given : SUBSET Spans]
    BY <2>3
  <2> QED BY <1>0, <2>3, <2>4, <2>5, <2>6 DEF TypeInv, EndType, Copy
<1>2. CASE Load
  <2>1. cached' \in Copy /\ bare' \in BOOLEAN
    BY <1>2, LoadedIs DEF Load
  <2> QED BY <1>0, <1>2, <2>1 DEF Load, TypeInv, EndType, Copy
<1>3. CASE UNCHANGED vars
  BY <1>3 DEF vars, TypeInv
<1> QED BY <1>1, <1>2, <1>3 DEF Next

\* The copy and the elements in the kernel have the types that the evaluation
\* of sets relies on; in particular all that is in the copy is marked as the
\* kernel's, also after commands that were worked out from a copy in disorder.
THEOREM TypeOK == Spec => []TypeInv
<1> QED BY InitTypeInv, NextTypeInv, PTL DEF Spec

-----------------------------------------------------------------------------
(***************************************************************************)
(* What the commands do.                                                   *)
(***************************************************************************)
\* A step that adds to the set or deletes from it, or another step.
LEMMA Steps ==
    ASSUME [Next]_vars, TypeInv
    PROVE  \/ \E given \in Seq(Spans) :
                  /\ status = "open" /\ last'.given = Named(given) /\ n' = n + 1
                  /\ \/ last'.op = "add" /\ (AddMerging(given) \/ AddApart(given))
                     \/ last'.op = "delete" /\ Delete(given)
           \/ Load /\ n' # n + 1
           \/ UNCHANGED vars /\ n' # n + 1
<1>1. n \in Nat
  BY BoundAssumption DEF TypeInv
<1>2. ASSUME NEW given \in Given, AddMerging(given) \/ AddApart(given)
      PROVE  /\ given \in Seq(Spans) /\ status = "open" /\ last'.given = Named(given)
             /\ n' = n + 1 /\ last'.op = "add"
  <2>1. given \in Seq(Spans) /\ Command("add", given)
    BY <1>2, GivenAssumption DEF AddMerging, AddApart
  <2> QED BY <2>1, CommandIs
<1>3. ASSUME NEW given \in Given, Delete(given)
      PROVE  /\ given \in Seq(Spans) /\ status = "open" /\ last'.given = Named(given)
             /\ n' = n + 1 /\ last'.op = "delete"
  <2>1. given \in Seq(Spans) /\ Command("delete", given)
    BY <1>3, GivenAssumption DEF Delete
  <2> QED BY <2>1, CommandIs
<1>4. CASE Load
  BY <1>1, <1>4 DEF Load
<1>5. CASE UNCHANGED vars
  BY <1>1, <1>5 DEF vars
<1> QED BY <1>2, <1>3, <1>4, <1>5 DEF Next

LEMMA AddStep ==
    ASSUME TypeInv, [Next]_vars, Commanded("add"), Faithful, status' = "open"
    PROVE  /\ Points(Held') = Points(Held) \cup Points(last'.given)
           /\ Whole' /\ Known' /\ InOrder' /\ Apart(Held)'
           /\ automerge => Faithful'
<1>1. PICK given \in Seq(Spans) : last'.given = Named(given) /\ (AddMerging(given) \/ AddApart(given))
  BY Steps DEF Commanded
<1>2. cached \in Copy
  BY TypeInvIs
<1>3. CASE AddMerging(given)
  BY <1>1, <1>2, <1>3, AddMergingHolds
<1>4. CASE AddApart(given)
  BY <1>1, <1>2, <1>4, AddApartHolds
<1> QED BY <1>1, <1>3, <1>4

LEMMA DeleteStepHolds ==
    ASSUME TypeInv, [Next]_vars, Commanded("delete"), Faithful, status' = "open"
    PROVE  /\ Points(Held') = Points(Held) \ Points(last'.given)
           /\ Whole' /\ Known' /\ Apart(Held)'
<1>1. PICK given \in Seq(Spans) : last'.given = Named(given) /\ Delete(given) /\ status = "open"
  BY Steps DEF Commanded
<1>2. cached \in Copy /\ automerge \in BOOLEAN
  BY TypeInvIs
<1> QED BY <1>1, <1>2, DeleteHolds

LEMMA NoneRefused ==
    ASSUME TypeInv, [Next]_vars, ~UNCHANGED vars, Faithful PROVE status' # "refused"
<1>1. cached \in Copy /\ automerge \in BOOLEAN
  BY TypeInvIs
<1>2. ASSUME NEW given \in Seq(Spans), status = "open",
             AddMerging(given) \/ AddApart(given) \/ Delete(given)
      PROVE  status' # "refused"
  <2>1. CASE AddMerging(given)
    BY <1>1, <1>2, <2>1, AddMergingHolds
  <2>2. CASE AddApart(given)
    BY <1>1, <1>2, <2>2, AddApartHolds
  <2>3. CASE Delete(given)
    BY <1>1, <1>2, <2>3, DeleteHolds
  <2> QED BY <1>2, <2>1, <2>2, <2>3
<1>3. CASE Load
  BY <1>3 DEF Load
<1> QED BY <1>2, <1>3, Steps

LEMMA OverlapStep ==
    ASSUME TypeInv, [Next]_vars, Commanded("add"), Faithful, ~automerge
    PROVE  status' = "error" <=> ~Apart(Held \cup last'.given)
<1>1. PICK given \in Seq(Spans) :
          status = "open" /\ last'.given = Named(given) /\ (AddMerging(given) \/ AddApart(given))
  BY Steps DEF Commanded
<1>2. AddApart(given)
  BY <1>1 DEF AddMerging
<1>3. cached \in Copy
  BY TypeInvIs
<1> QED BY <1>1, <1>2, <1>3, AddApartHolds

\* set_automerge, set_overlap: after an add the kernel holds what it held and
\* what the command names, no more, and the copy says so.
THEOREM AddsExactlyHolds == Spec => AddsExactly
<1>1. TypeInv /\ [Next]_vars =>
          [Commanded("add") /\ Faithful /\ status' = "open"
            => /\ Points(Held') = Points(Held) \cup Points(last'.given)
               /\ Whole' /\ Known' /\ InOrder' /\ Apart(Held)'
               /\ automerge => Faithful']_vars
  BY AddStep
<1> QED BY <1>1, TypeOK, PTL DEF Spec, AddsExactly

\* set_delete: after a delete the kernel holds what it held without what the
\* command names, and the copy has all that is left.
THEOREM DeletesExactlyHolds == Spec => DeletesExactly
<1>1. TypeInv /\ [Next]_vars =>
          [Commanded("delete") /\ Faithful /\ status' = "open"
            => /\ Points(Held') = Points(Held) \ Points(last'.given)
               /\ Whole' /\ Known' /\ Apart(Held)']_vars
  BY DeleteStepHolds
<1> QED BY <1>1, TypeOK, PTL DEF Spec, DeletesExactly

\* The kernel refuses nothing of what is worked out from a faithful copy.
THEOREM KernelAgreesHolds == Spec => KernelAgrees
<1>1. TypeInv /\ [Next]_vars => [Faithful => status' # "refused"]_vars
  BY NoneRefused
<1> QED BY <1>1, TypeOK, PTL DEF Spec, KernelAgrees

\* set_overlap: without auto-merge an overlap is found by comparing
\* neighbours, if there is one.
THEOREM OverlapsAreErrorsHolds == Spec => OverlapsAreErrors
<1>1. TypeInv /\ [Next]_vars =>
          [Commanded("add") /\ Faithful /\ ~automerge
            => (status' = "error" <=> ~Apart(Held \cup last'.given))]_vars
  BY OverlapStep
<1> QED BY <1>1, TypeOK, PTL DEF Spec, OverlapsAreErrors

\* interval_map_decompose: whatever the elements in the kernel are, the copy
\* that is loaded of them has every interval once, in order; if they are the
\* ends of intervals that are apart, it is faithful.
THEOREM LoadsFaithfully ==
    Spec => [][Load => /\ Known' /\ InOrder' /\ Len(cached') = Cardinality(Held')
                       /\ (Whole /\ Apart(Held) => Faithful')]_vars
<1>1. ASSUME Load
      PROVE  /\ Known' /\ InOrder' /\ Len(cached') = Cardinality(Held')
             /\ (Whole /\ Apart(Held) => Faithful')
  <2>1. cached' = Loaded(ends) /\ ends' = ends /\ automerge' = automerge
    BY <1>1 DEF Load
  <2>2. Held' = Held /\ Held = Decompose(ends)
    BY <2>1 DEF Held
  <2>3. /\ SpansOf(cached') = Held /\ Len(cached') = Cardinality(Held)
        /\ \A i \in 1..(Len(cached') - 1) : cached'[i].lo <= cached'[i + 1].lo
    BY <2>1, <2>2, LoadedIs
  <2>4. Known' /\ InOrder' /\ Len(cached') = Cardinality(Held')
    BY <2>2, <2>3 DEF Known, InOrder
  <2>5. Whole => Whole'
    BY <2>1, <2>2 DEF Whole
  <2>6. Apart(Held) => Apart(Held)'
    BY <2>1, <2>2 DEF Apart
  <2> QED BY <2>4, <2>5, <2>6 DEF Faithful
<1>2. [Next]_vars =>
          [Load => /\ Known' /\ InOrder' /\ Len(cached') = Cardinality(Held')
                   /\ (Whole /\ Apart(Held) => Faithful')]_vars
  BY <1>1
<1> QED BY <1>2, PTL DEF Spec
=============================================================================
