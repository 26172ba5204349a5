---------------------------- MODULE MonitorProofs ----------------------------
(***************************************************************************)
(* Theorems about Monitor: however many commits there are, however far the *)
(* monitor lags behind and whatever it loses, what it prints of the sets   *)
(* and rules nothing was lost of is what was changed, and its copy follows *)
(* the kernel.                                                             *)
(***************************************************************************)
EXTENDS Monitor, FiniteInduction, SequenceTheorems, FiniteSetTheorems

-----------------------------------------------------------------------------
(***************************************************************************)
(* Intervals and their ends.                                               *)
(***************************************************************************)
Disjoint(S) == \A r, s \in S : r = s \/ r.hi < s.lo \/ s.hi < r.lo

Mark == [key : Int, end : BOOLEAN]

(***************************************************************************)
(* No interval is lost between nft and the kernel: the elements that stand *)
(* for intervals which do not overlap (set_to_intervals) stand for no      *)
(* others (interval_map_decompose), whether or not an end is left out where *)
(* the next interval starts, and with or without an end at zero.           *)
(***************************************************************************)
THEOREM DecomposesToItself ==
    ASSUME NEW S \in SUBSET Spans, Disjoint(S), NEW E \in SUBSET (Ends(S) \cup {End(0)}),
           \A s \in S : /\ Start(s.lo) \in E
                        /\ s.hi < MaxKey => {Start(s.hi + 1), End(s.hi + 1)} \cap E # {}
    PROVE  Decompose(E) = S
<1> USE KeyAssumption DEF Start, End
<1>1. \A s \in S : s \in [lo : 0..MaxKey, hi : 0..MaxKey] /\ s.lo \in 0..MaxKey /\ s.hi \in 0..MaxKey /\ s.lo <= s.hi
  BY DEF Spans
<1>2. ASSUME NEW e \in E
      PROVE  \/ e = End(0)
             \/ \E r \in S : e = Start(r.lo)
             \/ \E r \in S : r.hi < MaxKey /\ e = End(r.hi + 1)
  BY DEF Ends
<1>3. ASSUME NEW s \in S PROVE s \in Decompose(E)
  <2>1. ASSUME NEW e \in E, s.lo < e.key, e.key <= s.hi PROVE FALSE
    <3>1. CASE e = End(0)
      BY <1>1, <2>1, <3>1
    <3>2. ASSUME NEW r \in S, e = Start(r.lo) PROVE FALSE
      BY <1>1, <2>1, <3>2 DEF Disjoint
    <3>3. ASSUME NEW r \in S, e = End(r.hi + 1) PROVE FALSE
      BY <1>1, <2>1, <3>3 DEF Disjoint
    <3> QED BY <1>2, <3>1, <3>2, <3>3
  <2>2. s \in Spans /\ Start(s.lo) \in E
    OBVIOUS
  <2>3. s.hi = MaxKey \/ {Start(s.hi + 1), End(s.hi + 1)} \cap E # {}
    <3>1. s.hi \in 0..MaxKey
      BY <1>1
    <3>2. s.hi < MaxKey \/ s.hi = MaxKey
      BY <3>1
    <3> QED BY <3>2
  <2> QED BY <2>1, <2>2, <2>3 DEF Decompose
<1>4. ASSUME NEW s \in Decompose(E) PROVE s \in S
  <2>1. /\ s \in [lo : 0..MaxKey, hi : 0..MaxKey] /\ s.lo \in 0..MaxKey /\ s.hi \in 0..MaxKey /\ s.lo <= s.hi
        /\ Start(s.lo) \in E
        /\ s.hi = MaxKey \/ Start(s.hi + 1) \in E \/ End(s.hi + 1) \in E
        /\ \A e \in E : ~(s.lo < e.key /\ e.key <= s.hi)
    BY DEF Decompose, Spans
  <2>2. PICK r \in S : r.lo = s.lo
    <3>1. Start(s.lo) # End(0) /\ \A r \in S : Start(s.lo) # End(r.hi + 1)
      OBVIOUS
    <3>2. PICK r \in S : Start(s.lo) = Start(r.lo)
      BY <1>2, <2>1, <3>1
    <3> QED BY <3>2
  <2>3. ~(r.hi < s.hi)
    <3> SUFFICES ASSUME r.hi < s.hi PROVE FALSE
      OBVIOUS
    <3>1. r.hi < MaxKey /\ s.lo < r.hi + 1 /\ r.hi + 1 <= s.hi
      BY <1>1, <2>1, <2>2
    <3>2. PICK e \in {Start(r.hi + 1), End(r.hi + 1)} : e \in E
      BY <3>1
    <3>3. e.key = r.hi + 1
      BY <3>2
    <3> QED BY <2>1, <3>1, <3>2, <3>3
  <2>4. ~(s.hi < r.hi)
    <3> SUFFICES ASSUME s.hi < r.hi PROVE FALSE
      OBVIOUS
    <3>1. r.lo < s.hi + 1 /\ s.hi + 1 <= r.hi /\ s.hi # MaxKey
      BY <1>1, <2>1, <2>2
    <3>2. PICK e \in {Start(s.hi + 1), End(s.hi + 1)} : e \in E
      BY <2>1, <3>1
    <3>3. e.key = s.hi + 1
      BY <3>2
    <3>4. r \in Decompose(E)
      BY <1>3
    <3>5. ~(r.lo < e.key /\ e.key <= r.hi)
      BY <3>2, <3>4 DEF Decompose
    <3> QED BY <3>1, <3>3, <3>5
  <2>5. r.hi = s.hi
    BY <1>1, <2>1, <2>3, <2>4
  <2>6. r = s
    BY <1>1, <2>1, <2>2, <2>5
  <2> QED BY <2>6
<1> QED BY <1>3, <1>4
-----------------------------------------------------------------------------
(***************************************************************************)
(* What the copy has of a name x, a set's or an object's, as events        *)
(* change it.  A set nothing is claimed of any more is "lost".             *)
(***************************************************************************)
State == [table : BOOLEAN, has : BOOLEAN, obj : BOOLEAN, els : SUBSET Mark, half : SUBSET Mark, lost : BOOLEAN]

Now(table, has, obj, els, half) ==
    [table |-> table, has |-> has, obj |-> obj, els |-> els, half |-> half, lost |-> FALSE]

Gone == [table |-> FALSE, has |-> FALSE, obj |-> FALSE, els |-> {}, half |-> {}, lost |-> TRUE]

Types == {"newtable", "deltable", "newset", "delset", "newelem", "delelem", "newrule", "delrule", "newobj", "delobj"}

OfTable(e) == e.type \in {"newtable", "deltable"}

Message == {e \in [type : Types, name : Names \cup Objects \cup {"t"}, el : SUBSET Mark,
                   about : SUBSET (Spans \cup {CatchAll})] :
                /\ e.type \in {"newobj", "delobj"} => e.name \in Objects
                /\ e.type \notin {"newobj", "delobj"} /\ ~OfTable(e) => e.name \in Names}

\* What is printed is right.
OpenAt(e) == \E x \in e.about : x.hi = MaxKey /\ e.el = {Start(x.lo)}

PrintedRight(x, a, e) ==
    /\ x \in Named \ Ranged /\ e.el # {End(0)} => {[lo |-> m.key, hi |-> m.key] : m \in e.el} = e.about
    /\ x \in Ranged /\ e.el # {End(0)} /\ CatchAll \notin e.about /\ (a.half # {} \/ OpenAt(e)) =>
           Decompose(a.half \cup e.el) = e.about

ElsAfter(a, e) == IF e.type = "newelem" THEN a.els \cup e.el ELSE a.els

HalfAfter(x, a, e) ==
    IF x \notin Ranged \/ e.el = {End(0)} THEN a.half
    ELSE IF a.half # {} \/ OpenAt(e) THEN {} ELSE e.el

\* The event e, which is about x, finds x as it should be, in state a, and
\* leaves it in state b.
Told(x, a, e, b) ==
    \/ e.type = "newset" /\ a.table /\ ~a.has /\ b = Now(TRUE, TRUE, a.obj, {}, {})
    \/ e.type = "newset" /\ a.has /\ x \notin Anonymous /\ b = a
    \/ e.type = "delset" /\ b = a
    \/ /\ e.type \in {"newelem", "delelem"} /\ a.has /\ PrintedRight(x, a, e)
       /\ b = IF x \in Ranged /\ e.el # {End(0)} /\ CatchAll \in e.about THEN Gone
              ELSE Now(a.table, TRUE, a.obj, ElsAfter(a, e), HalfAfter(x, a, e))
    \/ e.type = "newrule" /\ (x \in Anonymous => a.has /\ Decompose(a.els) = e.about) /\ b = a
    \/ e.type = "delrule" /\ x \in Named /\ b = Gone
    \/ e.type = "delrule" /\ x \notin Named /\ a.has /\ b = Now(a.table, FALSE, a.obj, {}, {})
    \/ e.type = "newobj" /\ a.table /\ b = Now(a.table, a.has, TRUE, a.els, a.half)
    \/ e.type = "delobj" /\ b = Now(a.table, a.has, FALSE, a.els, a.half)

Moves(x, a, e, b) ==
    \/ a = Gone /\ b = Gone
    \/ ~a.lost /\ e.type = "newtable" /\ b = Now(TRUE, a.has, a.obj, a.els, a.half)
    \/ ~a.lost /\ e.type = "deltable" /\ b = Now(FALSE, FALSE, FALSE, {}, {})
    \/ ~a.lost /\ ~OfTable(e) /\ e.name # x /\ b = a
    \/ ~a.lost /\ ~OfTable(e) /\ e.name = x /\ Told(x, a, e, b)

\* The events q, read one after the other, lead from a to b.
Trace(x, q, g) ==
    /\ g \in [0..Len(q) -> State]
    /\ \A k \in 1..Len(q) : Moves(x, g[k - 1], q[k], g[k])

Leads(x, q, a, b) == \E g : Trace(x, q, g) /\ g[0] = a /\ g[Len(q)] = b

\* No event leads nowhere.
LEMMA LeadsNone == ASSUME NEW x, NEW a \in State PROVE Leads(x, <<>>, a, a)
<1> DEFINE g == [k \in 0..0 |-> a]
<1>1. Len(<<>>) = 0 /\ 1..0 = {} /\ 0 \in 0..0
  OBVIOUS
<1>2. Trace(x, <<>>, g) /\ g[0] = a
  BY <1>1 DEF Trace
<1> QED BY <1>1, <1>2 DEF Leads

\* One event.
LEMMA LeadsOne ==
    ASSUME NEW x, NEW e, NEW a \in State, NEW b \in State, Moves(x, a, e, b) PROVE Leads(x, <<e>>, a, b)
<1> DEFINE g == [k \in 0..1 |-> IF k = 0 THEN a ELSE b]
<1>1. Len(<<e>>) = 1 /\ <<e>>[1] = e /\ g \in [0..1 -> State] /\ g[0] = a /\ g[1] = b
  OBVIOUS
<1> HIDE DEF g
<1>2. \A k \in 1..1 : k = 1 /\ k - 1 = 0
  OBVIOUS
<1>3. Trace(x, <<e>>, g)
  BY <1>1, <1>2 DEF Trace
<1> QED BY <1>1, <1>3 DEF Leads

\* Some events, and then others.
LEMMA LeadsJoin ==
    ASSUME NEW S, NEW x, NEW p \in Seq(S), NEW q \in Seq(S), NEW a, NEW b, NEW c,
           Leads(x, p, a, b), Leads(x, q, b, c)
    PROVE  Leads(x, p \o q, a, c)
<1>1. PICK g : Trace(x, p, g) /\ g[0] = a /\ g[Len(p)] = b
  BY DEF Leads
<1>2. PICK h : Trace(x, q, h) /\ h[0] = b /\ h[Len(q)] = c
  BY DEF Leads
<1> DEFINE M == Len(p)
           N == Len(q)
           f == [k \in 0..(M + N) |-> IF k =< M THEN g[k] ELSE h[k - M]]
<1>3. /\ M \in Nat /\ N \in Nat /\ Len(p \o q) = M + N
      /\ \A k \in 1..M : (p \o q)[k] = p[k]
      /\ \A k \in 1..N : (p \o q)[M + k] = q[k]
  OBVIOUS
<1>4. g \in [0..M -> State] /\ h \in [0..N -> State]
  BY <1>1, <1>2 DEF Trace
<1>5. \A k \in 0..N : f[M + k] = h[k]
  <2> SUFFICES ASSUME NEW k \in 0..N PROVE f[M + k] = h[k]
    OBVIOUS
  <2>1. CASE k = 0
    BY <1>1, <1>2, <1>3, <2>1
  <2>2. CASE k # 0
    BY <1>3, <2>2
  <2> QED BY <2>1, <2>2
<1>6. \A k \in 0..M : f[k] = g[k]
  BY <1>3
<1>7. f \in [0..(M + N) -> State]
  BY <1>3, <1>4
<1> HIDE DEF f, M, N
<1>8. ASSUME NEW k \in 1..(M + N) PROVE Moves(x, f[k - 1], (p \o q)[k], f[k])
  <2>1. CASE k \in 1..M
    <3>1. k \in 0..M /\ k - 1 \in 0..M
      BY <1>3, <2>1
    <3>2. Moves(x, g[k - 1], p[k], g[k])
      BY <1>1, <2>1 DEF Trace, M
    <3> QED BY <1>3, <1>6, <2>1, <3>1, <3>2
  <2>2. CASE k \notin 1..M
    <3> DEFINE j == k - M
    <3>1. j \in 1..N /\ j \in 0..N /\ j - 1 \in 0..N /\ k = M + j /\ k - 1 = M + (j - 1)
      BY <1>3, <2>2
    <3> HIDE DEF j
    <3>2. Moves(x, h[j - 1], q[j], h[j])
      BY <1>2, <3>1 DEF Trace, N
    <3> QED BY <1>3, <1>5, <3>1, <3>2
  <2> QED BY <2>1, <2>2
<1>9. Trace(x, p \o q, f)
  BY <1>3, <1>7, <1>8 DEF Trace
<1>10. f[0] = a
  BY <1>1, <1>3, <1>6
<1>11. f[M + N] = c
  BY <1>2, <1>3, <1>5 DEF N
<1> QED BY <1>3, <1>9, <1>10, <1>11 DEF Leads

\* The first of the events, and the others.
LEMMA LeadsOn ==
    ASSUME NEW S, NEW x, NEW q \in Seq(S), q # <<>>, NEW a, NEW b, Leads(x, q, a, b)
    PROVE  \E c \in State : Moves(x, a, Head(q), c) /\ Leads(x, Tail(q), c, b)
<1>1. PICK g : Trace(x, q, g) /\ g[0] = a /\ g[Len(q)] = b
  BY DEF Leads
<1> DEFINE N == Len(q)
           h == [k \in 0..(N - 1) |-> g[k + 1]]
<1>2. /\ N \in Nat \ {0} /\ Len(Tail(q)) = N - 1 /\ Head(q) = q[1]
      /\ \A k \in 1..(N - 1) : Tail(q)[k] = q[k + 1]
  OBVIOUS
<1>3. g \in [0..N -> State] /\ \A k \in 1..N : Moves(x, g[k - 1], q[k], g[k])
  BY <1>1 DEF Trace
<1>4. h \in [0..(N - 1) -> State]
  BY <1>2, <1>3
<1>5. \A k \in 0..(N - 1) : h[k] = g[k + 1]
  OBVIOUS
<1> HIDE DEF h, N
<1>6. ASSUME NEW k \in 1..(N - 1) PROVE Moves(x, h[k - 1], Tail(q)[k], h[k])
  <2>1. /\ k - 1 \in 0..(N - 1) /\ k \in 0..(N - 1) /\ (k - 1) + 1 = k /\ k + 1 \in 1..N
        /\ (k + 1) - 1 = k
    BY <1>2
  <2>2. Moves(x, g[k], q[k + 1], g[k + 1])
    BY <1>3, <2>1
  <2> QED BY <1>2, <1>5, <2>1, <2>2
<1>7. Trace(x, Tail(q), h)
  BY <1>2, <1>4, <1>6 DEF Trace
<1>8. h[0] = g[1] /\ h[N - 1] = g[N] /\ g[1] \in State
  BY <1>2, <1>3, <1>5
<1>9. Moves(x, g[0], q[1], g[1])
  BY <1>2, <1>3
<1>10. Leads(x, Tail(q), g[1], b)
  BY <1>1, <1>2, <1>7, <1>8 DEF Leads, N
<1> QED BY <1>1, <1>2, <1>8, <1>9, <1>10

\* Events about something else.
Aside(x, e) == ~OfTable(e) /\ e.name # x

Fine == {a \in State : a.lost => a = Gone}

\* One of the events is about x.
LEMMA LeadsOnce ==
    ASSUME NEW S, NEW x, NEW q \in Seq(S), NEW a \in Fine, NEW b \in Fine, NEW i \in DOMAIN q,
           Moves(x, a, q[i], b), \A k \in DOMAIN q : k # i => Aside(x, q[k])
    PROVE  Leads(x, q, a, b)
<1> DEFINE N == Len(q)
           g == [k \in 0..N |-> IF k < i THEN a ELSE b]
<1>1. N \in Nat /\ DOMAIN q = 1..N /\ i \in 1..N
  OBVIOUS
<1>2. g \in [0..N -> State]
  BY DEF Fine
<1>3. ASSUME NEW k \in 1..N PROVE Moves(x, g[k - 1], q[k], g[k])
  <2>1. g[k - 1] = (IF k - 1 < i THEN a ELSE b) /\ g[k] = IF k < i THEN a ELSE b
    BY <1>1
  <2> HIDE DEF g
  <2>2. CASE k = i
    BY <1>1, <2>1, <2>2
  <2>3. CASE k # i
    <3>1. g[k - 1] = g[k] /\ g[k] \in Fine
      BY <1>1, <2>1, <2>3
    <3> QED BY <1>1, <2>3, <3>1 DEF Moves, Aside, Fine
  <2> QED BY <2>2, <2>3
<1>4. g[0] = a /\ g[N] = b
  BY <1>1
<1> HIDE DEF g
<1> QED BY <1>2, <1>3, <1>4 DEF Trace, Leads

\* None of them is.
LEMMA LeadsAside ==
    ASSUME NEW S, NEW x, NEW q \in Seq(S), NEW a \in Fine, \A k \in DOMAIN q : Aside(x, q[k])
    PROVE  Leads(x, q, a, a)
<1> DEFINE N == Len(q)
           g == [k \in 0..N |-> a]
<1>1. N \in Nat /\ DOMAIN q = 1..N
  OBVIOUS
<1>2. g \in [0..N -> State] /\ g[0] = a /\ g[N] = a
  BY <1>1 DEF Fine
<1>3. ASSUME NEW k \in 1..N PROVE Moves(x, g[k - 1], q[k], g[k])
  <2>1. g[k - 1] = a /\ g[k] = a
    BY <1>1
  <2> HIDE DEF g
  <2> QED BY <1>1, <2>1 DEF Moves, Aside, Fine
<1> HIDE DEF g
<1> QED BY <1>2, <1>3 DEF Trace, Leads

\* They leave x as it is.
LEMMA StaysAside ==
    ASSUME NEW S, NEW x, NEW q \in Seq(S), NEW a, NEW b, Leads(x, q, a, b), \A k \in DOMAIN q : Aside(x, q[k])
    PROVE  b = a
<1>1. PICK g : Trace(x, q, g) /\ g[0] = a /\ g[Len(q)] = b
  BY DEF Leads
<1> DEFINE N == Len(q)
           T == {k \in 0..N : g[k] = a}
<1>2. N \in Nat /\ DOMAIN q = 1..N
  OBVIOUS
<1>3. 0 \in T
  BY <1>1, <1>2
<1>4. ASSUME NEW k \in 0..(N - 1), k \in T PROVE k + 1 \in T
  <2>1. k + 1 \in 1..N /\ (k + 1) - 1 = k /\ k + 1 \in 0..N
    BY <1>2
  <2>2. Moves(x, g[k], q[k + 1], g[k + 1]) /\ Aside(x, q[k + 1])
    BY <1>1, <1>2, <2>1 DEF Trace
  <2>3. g[k + 1] = g[k]
    BY <2>2 DEF Moves, Aside, OfTable
  <2> QED BY <1>4, <2>1, <2>3
<1>5. 0..N \subseteq T
  <2> HIDE DEF T, N
  <2> QED BY <1>2, <1>3, <1>4, Upto
<1> QED BY <1>1, <1>2, <1>5

\* Each of several lists of events leads from P to P.
LEMMA LeadsFlat ==
    ASSUME NEW S, NEW x, NEW ss \in Seq(Seq(S)), NEW P \in SUBSET State, NEW a \in P,
           \A i \in DOMAIN ss : \A c \in P : \E d \in P : Leads(x, ss[i], c, d)
    PROVE  \E b \in P : Leads(x, FlattenSeq(ss), a, b)
<1>1. CASE ss = <<>>
  <2>1. FlattenSeq(ss) = <<>>
    BY <1>1 DEF FlattenSeq
  <2> QED BY <2>1, LeadsNone
<1>2. CASE ss # <<>>
  <2> DEFINE n == Len(ss)
  <2>1. PICK f : Flattens(f, ss, S)
    BY <1>2, FlattenSteps
  <2>2. /\ f \in [1..n -> Seq(S)] /\ FlattenSeq(ss) = f[n]
        /\ f = [i \in 1..n |-> IF i = 1 THEN ss[i] ELSE f[i - 1] \o ss[i]]
    BY <2>1 DEF Flattens
  <2>3. n \in Nat \ {0} /\ DOMAIN ss = 1..n /\ \A i \in 1..n : ss[i] \in Seq(S)
    BY <1>2
  <2>4. \A i \in 1..n : f[i] = IF i = 1 THEN ss[i] ELSE f[i - 1] \o ss[i]
    BY <2>2
  <2> DEFINE T == {k \in 0..n : k # 0 => \E b \in P : Leads(x, f[k], a, b)}
  <2> HIDE DEF n
  <2>5. ASSUME NEW k \in 0..(n - 1), k \in T PROVE k + 1 \in T
    <3>1. k + 1 \in 1..n /\ (k + 1) - 1 = k /\ k + 1 \in 0..n /\ (k + 1 = 1 <=> k = 0)
      BY <2>3
    <3>2. f[k + 1] = IF k = 0 THEN ss[k + 1] ELSE f[k] \o ss[k + 1]
      BY <2>4, <3>1
    <3>3. CASE k = 0
      <4>1. \E b \in P : Leads(x, f[k + 1], a, b)
        BY <2>3, <3>1, <3>2, <3>3
      <4> QED BY <3>1, <4>1
    <3>4. CASE k # 0
      <4>1. PICK c \in P : Leads(x, f[k], a, c)
        BY <2>5, <3>4
      <4>2. PICK d \in P : Leads(x, ss[k + 1], c, d)
        BY <2>3, <3>1
      <4>3. f[k] \in Seq(S) /\ ss[k + 1] \in Seq(S)
        BY <2>2, <2>3, <3>1, <3>4
      <4>4. Leads(x, f[k] \o ss[k + 1], a, d)
        BY ONLY <4>1, <4>2, <4>3, LeadsJoin
      <4> QED BY <3>1, <3>2, <3>4, <4>4
    <3> QED BY <3>3, <3>4
  <2>6. 0 \in T
    BY <2>3
  <2>7. 0..n \subseteq T
    <3> HIDE DEF T
    <3> QED BY <2>3, <2>5, <2>6, Upto
  <2>8. n \in T /\ n # 0
    BY <2>3, <2>7
  <2> QED BY <2>2, <2>8
<1> QED BY <1>1, <1>2

\* Elements of a set without a name, one event after the other.
LEMMA LeadsElements ==
    ASSUME NEW x, x \notin Named, NEW q \in Seq(Message), NEW a \in State, ~a.lost, a.has,
           \A k \in DOMAIN q : q[k].type = "newelem" /\ q[k].name = x
    PROVE  Leads(x, q, a, Now(a.table, TRUE, a.obj, a.els \cup UNION {q[k].el : k \in DOMAIN q}, a.half))
<1> DEFINE N == Len(q)
           Els(k) == a.els \cup UNION {q[j].el : j \in 1..k}
           g == [k \in 0..N |-> Now(a.table, TRUE, a.obj, Els(k), a.half)]
<1>1. N \in Nat /\ DOMAIN q = 1..N /\ \A k \in 1..N : q[k] \in Message
  OBVIOUS
<1>2. \A k \in 1..N : q[k].el \in SUBSET Mark
  BY <1>1 DEF Message
<1>3. \A k \in 0..N : Els(k) \in SUBSET Mark
  BY <1>1, <1>2 DEF State
<1>4. \A k \in 1..N : Els(k) = Els(k - 1) \cup q[k].el
  <2> SUFFICES ASSUME NEW k \in 1..N PROVE Els(k) = Els(k - 1) \cup q[k].el
    OBVIOUS
  <2>1. 1..k = (1..(k - 1)) \cup {k}
    OBVIOUS
  <2> QED BY <2>1
<1> HIDE DEF Els
<1>5. \A k \in 0..N : g[k] = Now(a.table, TRUE, a.obj, Els(k), a.half)
  OBVIOUS
<1>6. g \in [0..N -> State]
  BY <1>3 DEF Now, State
<1> HIDE DEF g
<1>7. ASSUME NEW k \in 1..N PROVE Moves(x, g[k - 1], q[k], g[k])
  <2> DEFINE c == g[k - 1]
  <2>1. k - 1 \in 0..N /\ k \in 0..N
    BY <1>1
  <2>2. c = Now(a.table, TRUE, a.obj, Els(k - 1), a.half) /\ g[k] = Now(a.table, TRUE, a.obj, Els(k), a.half)
    BY <1>5, <2>1
  <2>3. ~c.lost /\ c.has /\ c.table = a.table /\ c.obj = a.obj /\ c.els = Els(k - 1) /\ c.half = a.half
    BY <2>2 DEF Now
  <2>4. x \notin Ranged /\ q[k].type = "newelem" /\ q[k].name = x
    BY <1>1, NamesAssumption
  <2>5. ElsAfter(c, q[k]) = Els(k) /\ HalfAfter(x, c, q[k]) = a.half
    BY <1>4, <2>3, <2>4 DEF ElsAfter, HalfAfter
  <2>6. PrintedRight(x, c, q[k])
    BY <2>4 DEF PrintedRight
  <2>7. g[k] = Now(c.table, TRUE, c.obj, ElsAfter(c, q[k]), HalfAfter(x, c, q[k]))
    BY <2>2, <2>3, <2>5
  <2> HIDE DEF c
  <2>8. Told(x, c, q[k], g[k])
    BY <2>3, <2>4, <2>6, <2>7 DEF Told
  <2> QED BY <2>3, <2>4, <2>8 DEF Moves, OfTable, c
<1>8. g[0] = a
  <2>1. Els(0) = a.els
    BY DEF Els
  <2>2. a = [table |-> a.table, has |-> a.has, obj |-> a.obj, els |-> a.els, half |-> a.half, lost |-> a.lost]
    BY DEF State
  <2>3. a.has = TRUE /\ a.lost = FALSE
    BY DEF State
  <2> QED BY <1>1, <1>5, <2>1, <2>2, <2>3 DEF Now
<1>9. g[N] = Now(a.table, TRUE, a.obj, a.els \cup UNION {q[k].el : k \in DOMAIN q}, a.half)
  <2>1. N \in 0..N /\ Els(N) = a.els \cup UNION {q[k].el : k \in DOMAIN q}
    BY <1>1 DEF Els
  <2> QED BY <1>5, <2>1
<1>10. Trace(x, q, g)
  BY <1>6, <1>7 DEF Trace
<1> HIDE DEF N
<1> QED BY <1>8, <1>9, <1>10 DEF Leads, N

-----------------------------------------------------------------------------
(***************************************************************************)
(* What the copy shows of a name, and what is done to it.                  *)
(***************************************************************************)
SetEntry == [name : Names, els : SUBSET Mark, half : SUBSET Mark]
TableEntry == [sets : Seq(SetEntry), objects : SUBSET Objects]
Empty == [sets |-> <<>>, objects |-> {}]

\* The first set of the name x.
First(sets, x, i) ==
    i \in DOMAIN sets /\ sets[i].name = x /\ \A j \in DOMAIN sets : j < i => sets[j].name # x

\* Of several sets of one name, the first is the one that is used: no half of
\* a range waits in another, and names the kernel gives are given once.
ShownIn(sets, x, a) ==
    /\ a.has => \E i : /\ First(sets, x, i) /\ sets[i].els = a.els /\ sets[i].half = a.half
                       /\ \A j \in DOMAIN sets : j # i /\ sets[j].name = x =>
                              sets[j].half = {} /\ x \notin Anonymous
    /\ ~a.has => \A j \in DOMAIN sets : sets[j].name # x

\* The copy may have a table the kernel has no longer: an empty one.
Displays(c, x, a) ==
    /\ a.table \/ a.has \/ a.obj => c # <<>>
    /\ c # <<>> => ShownIn(c[1].sets, x, a) /\ (a.obj <=> x \in c[1].objects)

CopyOK(c) == c \in Seq(TableEntry) /\ \A i \in DOMAIN c : i # 1 => c[i] = Empty

\* The place Find finds.
Where(sets, x) ==
    LET I == {i \in 1..Len(sets) : sets[i].name = x} IN IF I # {} THEN Min(I) ELSE 0

\* It is the first place of the name.
LEMMA WhereFirst ==
    ASSUME NEW sets \in Seq(SetEntry), NEW x
    PROVE  \/ Where(sets, x) = 0 /\ \A j \in DOMAIN sets : sets[j].name # x
           \/ First(sets, x, Where(sets, x))
<1> DEFINE I == {i \in 1..Len(sets) : sets[i].name = x}
<1>1. I \in SUBSET Nat /\ DOMAIN sets = 1..Len(sets)
  OBVIOUS
<1>2. Where(sets, x) = IF I # {} THEN Min(I) ELSE 0
  BY DEF Where
<1>3. CASE I = {}
  BY <1>1, <1>2, <1>3
<1>4. CASE I # {}
  <2>1. \E i \in I : \A j \in I : i =< j
    BY <1>1, <1>4, Least
  <2>2. Min(I) \in I /\ \A j \in I : Min(I) =< j
    BY <2>1 DEF Min
  <2>3. ASSUME NEW j \in DOMAIN sets, j < Min(I) PROVE sets[j].name # x
    BY <1>1, <2>2, <2>3
  <2> QED BY <1>1, <1>2, <1>4, <2>2, <2>3 DEF First
<1> QED BY <1>3, <1>4

\* What is done to another name does not show: a set is appended, ...
LEMMA AppendAside ==
    ASSUME NEW sets \in Seq(SetEntry), NEW s \in SetEntry, NEW x, s.name # x, NEW a, ShownIn(sets, x, a)
    PROVE  ShownIn(Append(sets, s), x, a)
<1> DEFINE t == Append(sets, s)
           N == Len(sets)
<1>1. /\ N \in Nat /\ DOMAIN sets = 1..N /\ DOMAIN t = 1..(N + 1)
      /\ \A j \in 1..N : t[j] = sets[j]
      /\ t[N + 1] = s
  OBVIOUS
<1> HIDE DEF t, N
<1>2. ASSUME ~a.has PROVE \A j \in DOMAIN t : t[j].name # x
  <2>1. \A j \in 1..N : sets[j].name # x
    BY <1>1, <1>2 DEF ShownIn
  <2>2. \A j \in 1..(N + 1) : j \in 1..N \/ j = N + 1
    BY <1>1
  <2> QED BY <1>1, <2>1, <2>2
<1>3. ASSUME NEW i, First(sets, x, i) PROVE First(t, x, i) /\ t[i] = sets[i] /\ i \in 1..N
  <2>1. i \in 1..N /\ sets[i].name = x /\ \A j \in 1..N : j < i => sets[j].name # x
    BY <1>1, <1>3 DEF First
  <2>2. \A j \in 1..(N + 1) : j < i => j \in 1..N
    BY <1>1, <2>1
  <2>3. i \in 1..(N + 1)
    BY <1>1, <2>1
  <2> QED BY <1>1, <2>1, <2>2, <2>3 DEF First
<1>4. ASSUME a.has
      PROVE  \E i : /\ First(t, x, i) /\ t[i].els = a.els /\ t[i].half = a.half
                    /\ \A j \in DOMAIN t : j # i /\ t[j].name = x => t[j].half = {} /\ x \notin Anonymous
  <2>1. PICK i : /\ First(sets, x, i) /\ sets[i].els = a.els /\ sets[i].half = a.half
                 /\ \A j \in DOMAIN sets : j # i /\ sets[j].name = x =>
                        sets[j].half = {} /\ x \notin Anonymous
    BY <1>4 DEF ShownIn
  <2>2. \A j \in 1..(N + 1) : j \in 1..N \/ j = N + 1
    BY <1>1
  <2>3. \A j \in DOMAIN t : j # i /\ t[j].name = x => t[j].half = {} /\ x \notin Anonymous
    BY <1>1, <2>1, <2>2
  <2> QED BY <1>3, <2>1, <2>3
<1> QED BY <1>2, <1>4 DEF ShownIn, t

\* ... one is changed ...
LEMMA ChangeAside ==
    ASSUME NEW sets \in Seq(SetEntry), NEW s \in SetEntry, NEW i \in DOMAIN sets, s.name = sets[i].name,
           NEW x, s.name # x, NEW a, ShownIn(sets, x, a)
    PROVE  ShownIn([sets EXCEPT ![i] = s], x, a)
<1> DEFINE t == [sets EXCEPT ![i] = s]
<1>1. DOMAIN t = DOMAIN sets /\ \A j \in DOMAIN sets : j # i => t[j] = sets[j]
  OBVIOUS
<1>2. t[i] = s
  OBVIOUS
<1> HIDE DEF t
<1>3. \A j \in DOMAIN sets : t[j].name = sets[j].name
  BY <1>1, <1>2
<1>4. \A j \in DOMAIN sets : sets[j].name = x => t[j] = sets[j]
  BY <1>1
<1>5. \A j : First(sets, x, j) => First(t, x, j) /\ t[j] = sets[j]
  BY <1>1, <1>3, <1>4 DEF First
<1>6. ASSUME a.has
      PROVE  \E j : /\ First(t, x, j) /\ t[j].els = a.els /\ t[j].half = a.half
                    /\ \A k \in DOMAIN t : k # j /\ t[k].name = x => t[k].half = {} /\ x \notin Anonymous
  <2>1. PICK j : /\ First(sets, x, j) /\ sets[j].els = a.els /\ sets[j].half = a.half
                 /\ \A k \in DOMAIN sets : k # j /\ sets[k].name = x =>
                        sets[k].half = {} /\ x \notin Anonymous
    BY <1>6 DEF ShownIn
  <2>2. \A k \in DOMAIN t : k # j /\ t[k].name = x => t[k].half = {} /\ x \notin Anonymous
    BY <1>1, <1>3, <1>4, <2>1
  <2> QED BY <1>5, <2>1, <2>2
<1>7. ~a.has => \A j \in DOMAIN t : t[j].name # x
  BY <1>1, <1>3 DEF ShownIn
<1> QED BY <1>6, <1>7 DEF ShownIn, t

\* ... or one is removed.
LEMMA RemoveAside ==
    ASSUME NEW sets \in Seq(SetEntry), NEW i \in DOMAIN sets, NEW x, sets[i].name # x,
           NEW a, ShownIn(sets, x, a)
    PROVE  ShownIn(RemoveAt(sets, i), x, a)
<1> DEFINE t == RemoveAt(sets, i)
           N == Len(sets)
           P(j) == IF j < i THEN j ELSE j - 1
<1>1. N \in Nat /\ DOMAIN sets = 1..N /\ i \in 1..N
  OBVIOUS
<1>2. DOMAIN t = 1..(N - 1) /\ \A j \in 1..(N - 1) : t[j] = IF j < i THEN sets[j] ELSE sets[j + 1]
  <2>1. /\ t \in Seq(SetEntry) /\ Len(t) = Len(sets) - 1
        /\ \A j \in 1..(Len(sets) - 1) : t[j] = IF j < i THEN sets[j] ELSE sets[j + 1]
    BY <1>1, Removed
  <2> HIDE DEF t
  <2>2. DOMAIN t = 1..Len(t)
    BY ONLY <2>1
  <2> QED BY ONLY <2>1, <2>2, ZenonT(30)
<1> HIDE DEF t, N
<1>3. \A j \in 1..N : sets[j].name = x => P(j) \in 1..(N - 1) /\ t[P(j)] = sets[j]
  BY <1>1, <1>2
<1>4. \A k \in 1..(N - 1) : \E j \in 1..N : t[k] = sets[j] /\ P(j) = k /\ j # i
  <2> SUFFICES ASSUME NEW k \in 1..(N - 1) PROVE \E j \in 1..N : t[k] = sets[j] /\ P(j) = k /\ j # i
    OBVIOUS
  <2>1. CASE k < i
    BY <1>1, <1>2, <2>1
  <2>2. CASE ~(k < i)
    <3>1. k + 1 \in 1..N /\ t[k] = sets[k + 1] /\ P(k + 1) = k /\ k + 1 # i
      BY <1>1, <1>2, <2>2
    <3> QED BY <3>1
  <2> QED BY <2>1, <2>2
<1>5. \A j, k \in 1..N : j # i /\ k # i /\ P(j) < P(k) => j < k
  BY <1>1
<1> HIDE DEF P
<1>6. ASSUME ~a.has PROVE \A k \in DOMAIN t : t[k].name # x
  BY <1>1, <1>2, <1>4, <1>6 DEF ShownIn
<1>7. ASSUME NEW j, First(sets, x, j) PROVE First(t, x, P(j)) /\ t[P(j)] = sets[j]
  <2>1. j \in 1..N /\ sets[j].name = x /\ j # i /\ \A k \in 1..N : k < j => sets[k].name # x
    BY <1>1, <1>7 DEF First
  <2>2. P(j) \in 1..(N - 1) /\ t[P(j)] = sets[j]
    BY <1>3, <2>1
  <2>3. ASSUME NEW k \in 1..(N - 1), k < P(j) PROVE t[k].name # x
    <3>1. PICK m \in 1..N : t[k] = sets[m] /\ P(m) = k /\ m # i
      BY <1>4
    <3>2. m < j
      BY <1>5, <2>1, <2>3, <3>1
    <3> QED BY <2>1, <3>1, <3>2
  <2> QED BY <1>2, <2>1, <2>2, <2>3 DEF First
<1>8. ASSUME a.has
      PROVE  \E j : /\ First(t, x, j) /\ t[j].els = a.els /\ t[j].half = a.half
                    /\ \A k \in DOMAIN t : k # j /\ t[k].name = x => t[k].half = {} /\ x \notin Anonymous
  <2>1. PICK j : /\ First(sets, x, j) /\ sets[j].els = a.els /\ sets[j].half = a.half
                 /\ \A k \in DOMAIN sets : k # j /\ sets[k].name = x =>
                        sets[k].half = {} /\ x \notin Anonymous
    BY <1>8 DEF ShownIn
  <2>2. ASSUME NEW k \in DOMAIN t, k # P(j), t[k].name = x PROVE t[k].half = {} /\ x \notin Anonymous
    <3>1. PICK m \in 1..N : t[k] = sets[m] /\ P(m) = k /\ m # i
      BY <1>2, <1>4
    <3>2. m # j
      BY <2>2, <3>1
    <3> QED BY <1>1, <2>1, <2>2, <3>1, <3>2
  <2> QED BY <1>7, <2>1, <2>2
<1> QED BY <1>6, <1>8 DEF ShownIn, t

\* What is done to the name itself shows: its set is appended, ...
LEMMA AppendShown ==
    ASSUME NEW sets \in Seq(SetEntry), NEW s \in SetEntry, s.els = {}, s.half = {}, NEW x, s.name = x,
           NEW a, ShownIn(sets, x, a), a.has => x \notin Anonymous,
           NEW b, b.has, IF a.has THEN b.els = a.els /\ b.half = a.half ELSE b.els = {} /\ b.half = {}
    PROVE  ShownIn(Append(sets, s), x, b)
<1> DEFINE t == Append(sets, s)
           N == Len(sets)
<1>1. /\ N \in Nat /\ DOMAIN sets = 1..N /\ DOMAIN t = 1..(N + 1)
      /\ \A j \in 1..N : t[j] = sets[j]
      /\ t[N + 1] = s
  OBVIOUS
<1> HIDE DEF t, N
<1>2. \A j \in 1..(N + 1) : j \in 1..N \/ j = N + 1
  BY <1>1
<1>3. N + 1 \in 1..(N + 1)
  BY <1>1
<1>4. CASE ~a.has
  <2>1. \A j \in 1..N : sets[j].name # x
    BY <1>1, <1>4 DEF ShownIn
  <2>2. First(t, x, N + 1)
    <3>1. \A j \in 1..(N + 1) : j < N + 1 => j \in 1..N
      BY <1>1
    <3> QED BY <1>1, <1>3, <2>1, <3>1 DEF First
  <2>3. \A j \in DOMAIN t : ~(j # N + 1 /\ t[j].name = x)
    BY <1>1, <1>2, <2>1
  <2> QED BY <1>1, <1>4, <2>2, <2>3 DEF ShownIn, t
<1>5. CASE a.has
  <2>1. PICK i : /\ First(sets, x, i) /\ sets[i].els = a.els /\ sets[i].half = a.half
                 /\ \A j \in DOMAIN sets : j # i /\ sets[j].name = x =>
                        sets[j].half = {} /\ x \notin Anonymous
    BY <1>5 DEF ShownIn
  <2>2. i \in 1..N /\ i \in 1..(N + 1) /\ sets[i].name = x /\ \A j \in 1..N : j < i => sets[j].name # x
    BY <1>1, <2>1 DEF First
  <2>3. \A j \in 1..(N + 1) : j < i => j \in 1..N
    BY <1>1, <2>2
  <2>4. First(t, x, i)
    BY <1>1, <2>2, <2>3 DEF First
  <2>5. \A j \in DOMAIN t : j # i /\ t[j].name = x => t[j].half = {} /\ x \notin Anonymous
    BY <1>1, <1>2, <1>5, <2>1
  <2>6. t[i].els = b.els /\ t[i].half = b.half
    BY <1>1, <1>5, <2>1, <2>2
  <2> QED BY <2>4, <2>5, <2>6 DEF ShownIn, t
<1> QED BY <1>4, <1>5

\* ... it is changed ...
LEMMA ChangeShown ==
    ASSUME NEW sets \in Seq(SetEntry), NEW s \in SetEntry, NEW x, s.name = x, NEW i, First(sets, x, i),
           NEW a, a.has, ShownIn(sets, x, a), NEW b, b.has, b.els = s.els, b.half = s.half
    PROVE  ShownIn([sets EXCEPT ![i] = s], x, b)
<1> DEFINE t == [sets EXCEPT ![i] = s]
<1>1. i \in DOMAIN sets /\ sets[i].name = x /\ \A j \in DOMAIN sets : j < i => sets[j].name # x
  BY DEF First
<1>2. DOMAIN t = DOMAIN sets /\ t[i] = s /\ \A j \in DOMAIN sets : j # i => t[j] = sets[j]
  BY <1>1
<1> HIDE DEF t
<1>3. i \in Nat /\ DOMAIN sets = 1..Len(sets) /\ Len(sets) \in Nat
  BY <1>1
<1>4. First(t, x, i)
  BY <1>1, <1>2, <1>3 DEF First
<1>5. PICK k : /\ First(sets, x, k)
               /\ \A j \in DOMAIN sets : j # k /\ sets[j].name = x => sets[j].half = {} /\ x \notin Anonymous
  BY DEF ShownIn
<1>6. k = i
  <2>1. k \in DOMAIN sets /\ ~(k < i) /\ ~(i < k)
    BY <1>1, <1>5 DEF First
  <2> QED BY <1>1, <1>3, <2>1
<1>7. \A j \in DOMAIN t : j # i /\ t[j].name = x => t[j].half = {} /\ x \notin Anonymous
  BY <1>2, <1>5, <1>6
<1>8. t[i].els = b.els /\ t[i].half = b.half
  BY <1>2
<1> QED BY <1>4, <1>7, <1>8 DEF ShownIn, t

\* ... or removed.
LEMMA RemoveShown ==
    ASSUME NEW sets \in Seq(SetEntry), NEW x \in Anonymous, NEW i, First(sets, x, i),
           NEW a, a.has, ShownIn(sets, x, a), NEW b, ~b.has
    PROVE  ShownIn(RemoveAt(sets, i), x, b)
<1> DEFINE t == RemoveAt(sets, i)
           N == Len(sets)
<1>1. N \in Nat /\ DOMAIN sets = 1..N /\ i \in 1..N /\ sets[i].name = x /\ \A j \in 1..N : j < i => sets[j].name # x
  BY DEF First
<1>2. DOMAIN t = 1..(N - 1) /\ \A j \in 1..(N - 1) : t[j] = IF j < i THEN sets[j] ELSE sets[j + 1]
  <2>1. /\ t \in Seq(SetEntry) /\ Len(t) = Len(sets) - 1
        /\ \A j \in 1..(Len(sets) - 1) : t[j] = IF j < i THEN sets[j] ELSE sets[j + 1]
    BY <1>1, Removed
  <2> HIDE DEF t
  <2>2. DOMAIN t = 1..Len(t)
    BY ONLY <2>1
  <2> QED BY ONLY <2>1, <2>2, ZenonT(30)
<1> HIDE DEF t, N
<1>3. \A j \in 1..N : j # i => sets[j].name # x
  <2>1. PICK k : First(sets, x, k) /\ \A j \in DOMAIN sets : j # k => sets[j].name # x
    BY DEF ShownIn
  <2>2. k = i
    BY <1>1, <2>1
  <2> QED BY <1>1, <2>1, <2>2
<1>4. ASSUME NEW j \in 1..(N - 1) PROVE t[j].name # x
  <2>1. CASE j < i
    BY <1>1, <1>2, <1>3, <2>1
  <2>2. CASE ~(j < i)
    <3>1. j + 1 \in 1..N /\ j + 1 # i
      BY <1>1, <2>2
    <3> QED BY <1>2, <1>3, <2>2, <3>1
  <2> QED BY <2>1, <2>2
<1> QED BY <1>2, <1>4 DEF ShownIn, t

-----------------------------------------------------------------------------
(***************************************************************************)
(* What is read from the socket, done to the copy: a name it displays as   *)
(* it should is displayed as it should afterwards.                         *)
(***************************************************************************)
Put(c, t) == IF c = <<>> THEN c ELSE [c EXCEPT ![1] = t]
Table(sets, objects) == [sets |-> sets, objects |-> objects]

Claimed(x, a, e, b) == a \in Fine /\ ~a.lost /\ b \in State /\ Moves(x, a, e, b)

\* What an event does to a name something is claimed of.
LEMMA ClaimedMoves ==
    ASSUME NEW x, NEW a, NEW e, NEW b, Claimed(x, a, e, b)
    PROVE  \/ e.type = "newtable" /\ b = Now(TRUE, a.has, a.obj, a.els, a.half)
           \/ e.type = "deltable" /\ b = Now(FALSE, FALSE, FALSE, {}, {})
           \/ ~OfTable(e) /\ e.name # x /\ b = a
           \/ ~OfTable(e) /\ e.name = x /\ Told(x, a, e, b)
<1>1. a # Gone
  <2>1. Gone.lost
    BY DEF Gone
  <2> QED BY <2>1 DEF Claimed
<1> QED BY <1>1 DEF Claimed, Moves

\* An empty table.
LEMMA EmptyShows == Empty.sets = <<>> /\ Empty.objects = {} /\ Empty \in TableEntry
<1>1. Empty.sets = <<>>
  BY DEF Empty
<1>2. Empty.objects = {}
  BY DEF Empty
<1>3. Empty \in TableEntry
  BY DEF Empty, TableEntry
<1> QED BY <1>1, <1>2, <1>3

\* A table with other sets, or with other objects.
LEMMA OtherTable ==
    ASSUME NEW t \in TableEntry, NEW y
    PROVE  /\ [t EXCEPT !.sets = y] = Table(y, t.objects) /\ [t EXCEPT !.objects = y] = Table(t.sets, y)
           /\ t.sets \in Seq(SetEntry) /\ t.objects \in SUBSET Objects
<1>1. [t EXCEPT !.sets = y] = Table(y, t.objects)
  BY DEF TableEntry, Table
<1>2. [t EXCEPT !.objects = y] = Table(t.sets, y)
  BY DEF TableEntry, Table
<1>3. t.sets \in Seq(SetEntry) /\ t.objects \in SUBSET Objects
  BY DEF TableEntry
<1> QED BY <1>1, <1>2, <1>3

\* The first table of the copy is replaced.
LEMMA PutOK ==
    ASSUME NEW c, CopyOK(c), c # <<>>, NEW sets \in Seq(SetEntry), NEW objects \in SUBSET Objects
    PROVE  /\ c[1] \in TableEntry /\ CopyOK(Put(c, Table(sets, objects)))
           /\ Put(c, Table(sets, objects)) # <<>> /\ Put(c, Table(sets, objects))[1] = Table(sets, objects)
<1> DEFINE t == Table(sets, objects)
<1>1. t \in TableEntry
  BY DEF Table, TableEntry
<1>2. c \in Seq(TableEntry) /\ 1 \in DOMAIN c /\ \A i \in DOMAIN c : i # 1 => c[i] = Empty
  BY DEF CopyOK
<1>3. Put(c, t) = [c EXCEPT ![1] = t]
  BY DEF Put
<1> HIDE DEF t
<1>4. [c EXCEPT ![1] = t] \in Seq(TableEntry) /\ DOMAIN [c EXCEPT ![1] = t] = DOMAIN c /\ [c EXCEPT ![1] = t][1] = t
  BY <1>1, <1>2
<1>5. \A i \in DOMAIN c : i # 1 => [c EXCEPT ![1] = t][i] = Empty
  BY <1>2
<1> QED BY <1>2, <1>3, <1>4, <1>5 DEF CopyOK, t

\* So is what it displays.
LEMMA PutShows ==
    ASSUME NEW c, CopyOK(c), c # <<>>, NEW sets \in Seq(SetEntry), NEW objects \in SUBSET Objects,
           NEW x, NEW b, ShownIn(sets, x, b), b.obj <=> x \in objects
    PROVE  Displays(Put(c, Table(sets, objects)), x, b)
<1>1. /\ Put(c, Table(sets, objects)) # <<>>
      /\ Put(c, Table(sets, objects))[1].sets = sets /\ Put(c, Table(sets, objects))[1].objects = objects
  BY PutOK DEF Table
<1> QED BY <1>1 DEF Displays

\* A table is added, ...
LEMMA AddTableKeeps ==
    ASSUME NEW c, CopyOK(c), NEW e, e.type = "newtable"
    PROVE  /\ CopyOK(Append(c, Empty))
           /\ \A x, a, b : Claimed(x, a, e, b) /\ Displays(c, x, a) => ~b.lost /\ Displays(Append(c, Empty), x, b)
<1> DEFINE d == Append(c, Empty)
           N == Len(c)
<1>1. Empty \in TableEntry
  BY EmptyShows
<1>2. c \in Seq(TableEntry) /\ \A i \in DOMAIN c : i # 1 => c[i] = Empty
  BY DEF CopyOK
<1>3. /\ N \in Nat /\ DOMAIN c = 1..N /\ d \in Seq(TableEntry) /\ DOMAIN d = 1..(N + 1)
      /\ \A i \in 1..N : d[i] = c[i]
      /\ d[N + 1] = Empty /\ d # <<>> /\ (c = <<>> <=> N = 0)
  BY <1>1, <1>2
<1> HIDE DEF d, N
<1>4. CopyOK(d)
  <2>1. \A i \in 1..(N + 1) : i \in 1..N \/ i = N + 1
    BY <1>3
  <2> QED BY <1>2, <1>3, <2>1 DEF CopyOK
<1>5. ASSUME NEW x, NEW a, NEW b, Claimed(x, a, e, b), Displays(c, x, a)
      PROVE  ~b.lost /\ Displays(d, x, b)
  <2>1. b = Now(TRUE, a.has, a.obj, a.els, a.half)
    BY <1>5, ClaimedMoves DEF OfTable
  <2>2. ~b.lost /\ b.has = a.has /\ b.obj = a.obj /\ b.els = a.els /\ b.half = a.half
    BY <2>1 DEF Now
  <2>3. CASE N = 0
    <3>1. d[1] = Empty /\ ~a.has /\ ~a.obj
      BY <1>3, <1>5, <2>3 DEF Displays
    <3>2. ShownIn(d[1].sets, x, b) /\ d[1].objects = {}
      BY <2>2, <3>1 DEF ShownIn, Empty
    <3> QED BY <1>3, <2>2, <3>1, <3>2 DEF Displays
  <2>4. CASE N # 0
    <3>1. d[1] = c[1] /\ c # <<>>
      BY <1>3, <2>4
    <3>2. ShownIn(c[1].sets, x, b)
      BY <1>5, <2>2, <3>1 DEF Displays, ShownIn
    <3> QED BY <1>3, <1>5, <2>2, <3>1, <3>2 DEF Displays
  <2> QED BY <2>2, <2>3, <2>4
<1> QED BY <1>4, <1>5 DEF d

\* ... or one is deleted.
LEMMA RemoveTableKeeps ==
    ASSUME NEW c, CopyOK(c), NEW d, d = IF c = <<>> THEN c ELSE Tail(c), NEW e, e.type = "deltable"
    PROVE  /\ CopyOK(d)
           /\ \A x, a, b : Claimed(x, a, e, b) /\ Displays(c, x, a) => ~b.lost /\ Displays(d, x, b)
<1> DEFINE N == Len(c)
<1>1. c \in Seq(TableEntry) /\ \A i \in DOMAIN c : i # 1 => c[i] = Empty
  BY DEF CopyOK
<1>2. N \in Nat /\ DOMAIN c = 1..N
  BY <1>1
<1>3. d \in Seq(TableEntry) /\ \A i \in DOMAIN d : d[i] = Empty
  <2>1. CASE c = <<>>
    BY <1>1, <2>1
  <2>2. CASE c # <<>>
    <3>1. N > 0 /\ d \in Seq(TableEntry) /\ DOMAIN d = 1..(N - 1) /\ \A i \in 1..(N - 1) : d[i] = c[i + 1]
      BY <1>1, <2>2
    <3>2. \A i \in 1..(N - 1) : i + 1 \in 1..N /\ i + 1 # 1
      BY <1>2
    <3> QED BY <1>1, <1>2, <3>1, <3>2
  <2> QED BY <2>1, <2>2
<1>4. CopyOK(d)
  BY <1>3 DEF CopyOK
<1>5. ASSUME NEW x, NEW a, NEW b, Claimed(x, a, e, b) PROVE ~b.lost /\ Displays(d, x, b)
  <2>1. b = Now(FALSE, FALSE, FALSE, {}, {})
    BY <1>5, ClaimedMoves DEF OfTable
  <2>2. ~b.lost /\ ~b.table /\ ~b.has /\ ~b.obj
    BY <2>1 DEF Now
  <2>3. ASSUME d # <<>> PROVE ShownIn(d[1].sets, x, b) /\ d[1].objects = {}
    <3>1. d[1] = Empty
      BY <1>3, <2>3
    <3>2. d[1].sets = <<>> /\ d[1].objects = {}
      BY <3>1, EmptyShows
    <3>3. DOMAIN <<>> = {}
      OBVIOUS
    <3> QED BY <2>2, <3>2, <3>3 DEF ShownIn
  <2> QED BY <2>2, <2>3 DEF Displays
<1> QED BY <1>4, <1>5

\* A set is added; where there is no table, nothing is.
LEMMA AddSetKeeps ==
    ASSUME NEW c, CopyOK(c), NEW e \in Message, e.type = "newset",
           NEW d, d = Put(c, [c[1] EXCEPT !.sets = Append(@, CachedSet(e.name, {}))])
    PROVE  /\ CopyOK(d)
           /\ \A x, a, b : Claimed(x, a, e, b) /\ Displays(c, x, a) => ~b.lost /\ Displays(d, x, b)
<1> DEFINE s == CachedSet(e.name, {})
<1>1. s \in SetEntry /\ s.name = e.name /\ s.els = {} /\ s.half = {}
  BY DEF Message, CachedSet, SetEntry, OfTable
<1>2. c # <<>> => c[1] \in TableEntry
  BY DEF CopyOK
<1> HIDE DEF s
<1> DEFINE sets == Append(c[1].sets, s)
<1>3. ASSUME c # <<>>
      PROVE  /\ c[1].sets \in Seq(SetEntry) /\ sets \in Seq(SetEntry) /\ c[1].objects \in SUBSET Objects
             /\ d = Put(c, Table(sets, c[1].objects))
  <2>1. c[1].sets \in Seq(SetEntry) /\ c[1].objects \in SUBSET Objects
    BY <1>2, <1>3, OtherTable
  <2>2. [c[1] EXCEPT !.sets = sets] = Table(sets, c[1].objects)
    <3> HIDE DEF sets
    <3> QED BY <1>2, <1>3, OtherTable
  <2> QED BY <1>1, <2>1, <2>2 DEF s
<1> HIDE DEF sets
<1>4. CopyOK(d)
  <2>1. CASE c = <<>>
    BY <2>1 DEF Put
  <2>2. CASE c # <<>>
    BY <1>3, <2>2, PutOK
  <2> QED BY <2>1, <2>2
<1>5. ASSUME NEW x, NEW a, NEW b, Claimed(x, a, e, b), Displays(c, x, a)
      PROVE  ~b.lost /\ Displays(d, x, b)
  <2>1. ~a.lost
    BY <1>5 DEF Claimed
  <2>2. \/ e.name # x /\ b = a
        \/ e.name = x /\ a.table /\ ~a.has /\ b = Now(TRUE, TRUE, a.obj, {}, {})
        \/ e.name = x /\ a.has /\ x \notin Anonymous /\ b = a
    <3>1. (e.name # x /\ b = a) \/ (e.name = x /\ Told(x, a, e, b))
      BY <1>5, ClaimedMoves
    <3> QED BY <3>1 DEF Told
  <2>3. CASE c = <<>>
    <3>1. ~a.table /\ ~a.has
      BY <1>5, <2>3 DEF Displays
    <3>2. b = a /\ d = c
      BY <2>2, <2>3, <3>1 DEF Put
    <3> QED BY <1>5, <2>1, <3>2
  <2>4. CASE c # <<>>
    <3>1. ShownIn(c[1].sets, x, a) /\ (a.obj <=> x \in c[1].objects)
      BY <1>5, <2>4 DEF Displays
    <3>2. CASE e.name # x /\ b = a
      <4>1. ShownIn(sets, x, b)
        BY <1>1, <1>3, <2>4, <3>1, <3>2, AppendAside DEF sets
      <4> QED BY <1>3, <2>1, <2>4, <3>1, <3>2, <4>1, PutShows
    <3>3. CASE e.name = x /\ (a.has => x \notin Anonymous /\ b = a) /\ (~a.has => b = Now(TRUE, TRUE, a.obj, {}, {}))
      <4>1. /\ b.has /\ b.obj = a.obj /\ ~b.lost
            /\ IF a.has THEN b.els = a.els /\ b.half = a.half ELSE b.els = {} /\ b.half = {}
        BY <2>1, <3>3 DEF Now
      <4>2. ShownIn(sets, x, b)
        BY <1>1, <1>3, <2>4, <3>1, <3>3, <4>1, AppendShown DEF sets
      <4> QED BY <1>3, <2>4, <3>1, <4>1, <4>2, PutShows
    <3> QED BY <2>2, <3>2, <3>3
  <2> QED BY <2>3, <2>4
<1> QED BY <1>4, <1>5

\* An object is added or deleted.
LEMMA ObjKeeps ==
    ASSUME NEW c, CopyOK(c), NEW e \in Message, e.type \in {"newobj", "delobj"},
           NEW f, f = (IF e.type = "newobj" THEN c[1].objects \cup {e.name} ELSE c[1].objects \ {e.name}),
           NEW d, d = Put(c, [c[1] EXCEPT !.objects = f])
    PROVE  /\ CopyOK(d)
           /\ \A x, a, b : Claimed(x, a, e, b) /\ Displays(c, x, a) => ~b.lost /\ Displays(d, x, b)
<1>1. c # <<>> => c[1] \in TableEntry
  BY DEF CopyOK
<1>2. e.name \in Objects
  BY DEF Message
<1>3. ASSUME c # <<>>
      PROVE  c[1].sets \in Seq(SetEntry) /\ f \in SUBSET Objects /\ d = Put(c, Table(c[1].sets, f))
  <2>1. c[1].sets \in Seq(SetEntry) /\ c[1].objects \in SUBSET Objects
    BY <1>1, <1>3, OtherTable
  <2>2. [c[1] EXCEPT !.objects = f] = Table(c[1].sets, f)
    <3> HIDE DEF CopyOK
    <3> QED BY ONLY <1>1, <1>3, OtherTable
  <2> QED BY <1>2, <2>1, <2>2
<1>4. CopyOK(d)
  <2>1. CASE c = <<>>
    BY <2>1 DEF Put
  <2>2. CASE c # <<>>
    BY <1>3, <2>2, PutOK
  <2> QED BY <2>1, <2>2
<1>5. ASSUME NEW x, NEW a, NEW b, Claimed(x, a, e, b), Displays(c, x, a)
      PROVE  ~b.lost /\ Displays(d, x, b)
  <2>1. ~a.lost /\ a \in State
    BY <1>5 DEF Claimed, Fine
  <2>2. \/ e.name # x /\ b = a
        \/ e.name = x /\ e.type = "newobj" /\ a.table /\ b = Now(a.table, a.has, TRUE, a.els, a.half)
        \/ e.name = x /\ e.type = "delobj" /\ b = Now(a.table, a.has, FALSE, a.els, a.half)
    <3>1. (e.name # x /\ b = a) \/ (e.name = x /\ Told(x, a, e, b))
      BY <1>5, ClaimedMoves
    <3> QED BY <3>1 DEF Told
  <2>3. ~b.lost /\ b.table = a.table /\ b.has = a.has /\ b.els = a.els /\ b.half = a.half
    <3>1. CASE b = a
      BY <2>1, <3>1
    <3>2. ASSUME NEW o, b = Now(a.table, a.has, o, a.els, a.half)
          PROVE  ~b.lost /\ b.table = a.table /\ b.has = a.has /\ b.els = a.els /\ b.half = a.half
      BY <3>2 DEF Now
    <3> QED BY <2>2, <3>1, <3>2
  <2>4. /\ e.name # x => b.obj = a.obj
        /\ e.name = x => (b.obj <=> e.type = "newobj")
    <3>1. CASE e.type = "newobj" /\ b = Now(a.table, a.has, TRUE, a.els, a.half)
      BY <2>2, <3>1 DEF Now
    <3>2. CASE e.type = "delobj" /\ b = Now(a.table, a.has, FALSE, a.els, a.half)
      BY <2>2, <3>2 DEF Now
    <3> QED BY <2>2, <3>1, <3>2
  <2>5. CASE c = <<>>
    <3>1. ~a.table /\ ~a.has /\ ~a.obj /\ d = c
      BY <1>5, <2>5 DEF Displays, Put
    <3>2. ~b.obj
      BY <2>2, <2>4, <3>1
    <3> QED BY <2>3, <2>5, <3>1, <3>2 DEF Displays
  <2>6. CASE c # <<>>
    <3>1. ShownIn(c[1].sets, x, a) /\ (a.obj <=> x \in c[1].objects)
      BY <1>5, <2>6 DEF Displays
    <3>2. ShownIn(c[1].sets, x, b)
      BY <2>3, <3>1 DEF ShownIn
    <3>3. b.obj <=> x \in f
      BY <2>4, <3>1
    <3> QED BY <1>3, <2>3, <2>6, <3>2, <3>3, PutShows
  <2> QED BY <2>5, <2>6
<1> QED BY <1>4, <1>5

\* A rule is deleted, and the set it looks up with it.
LEMMA RemoveRuleKeeps ==
    ASSUME NEW c, CopyOK(c), NEW e \in Message, e.type = "delrule",
           NEW d, d = Put(c, [c[1] EXCEPT !.sets = SetsWithout(@, e.name)])
    PROVE  /\ CopyOK(d)
           /\ \A x, a, b : Claimed(x, a, e, b) /\ Displays(c, x, a) =>
                  IF b.lost THEN x = e.name /\ x \in Named ELSE Displays(d, x, b)
<1> DEFINE n == e.name
<1>1. n \in Names
  BY DEF Message, OfTable
<1>2. c # <<>> => c[1] \in TableEntry
  BY DEF CopyOK
<1> HIDE DEF n
<1> DEFINE sets == SetsWithout(c[1].sets, n)
<1>3. ASSUME c # <<>>
      PROVE  c[1].sets \in Seq(SetEntry) /\ c[1].objects \in SUBSET Objects /\ d = Put(c, Table(sets, c[1].objects))
  <2>1. c[1].sets \in Seq(SetEntry) /\ c[1].objects \in SUBSET Objects
    BY <1>2, <1>3, OtherTable
  <2> HIDE DEF sets
  <2>2. [c[1] EXCEPT !.sets = sets] = Table(sets, c[1].objects)
    BY <1>2, <1>3, OtherTable
  <2> QED BY <2>1, <2>2 DEF sets, n
<1>4. ASSUME c # <<>>
      PROVE  \/ sets = c[1].sets /\ \A j \in DOMAIN c[1].sets : c[1].sets[j].name # n
             \/ \E i : First(c[1].sets, n, i) /\ sets = RemoveAt(c[1].sets, i)
  <2> DEFINE i == Where(c[1].sets, n)
  <2>1. sets = IF i = 0 THEN c[1].sets ELSE RemoveAt(c[1].sets, i)
    BY DEF SetsWithout, SelectInSeq, Where
  <2>2. \/ i = 0 /\ \A j \in DOMAIN c[1].sets : c[1].sets[j].name # n
        \/ First(c[1].sets, n, i)
    BY <1>3, <1>4, WhereFirst
  <2> HIDE DEF i, sets
  <2>3. First(c[1].sets, n, i) => i # 0
    BY <1>3, <1>4 DEF First
  <2> QED BY <2>1, <2>2, <2>3
<1> HIDE DEF sets
<1>5. c # <<>> => sets \in Seq(SetEntry)
  <2> SUFFICES ASSUME c # <<>> PROVE sets \in Seq(SetEntry)
    OBVIOUS
  <2>1. ASSUME NEW i, First(c[1].sets, n, i), sets = RemoveAt(c[1].sets, i) PROVE sets \in Seq(SetEntry)
    <3>1. i \in 1..Len(c[1].sets)
      BY <1>3, <2>1 DEF First
    <3> QED BY <1>3, <2>1, <3>1, Removed
  <2> QED BY <1>3, <1>4, <2>1
<1>6. CopyOK(d)
  <2>1. CASE c = <<>>
    BY <2>1 DEF Put
  <2>2. CASE c # <<>>
    BY <1>3, <1>5, <2>2, PutOK
  <2> QED BY <2>1, <2>2
<1>7. ASSUME NEW x, NEW a, NEW b, Claimed(x, a, e, b), Displays(c, x, a)
      PROVE  IF b.lost THEN x = n /\ x \in Named ELSE Displays(d, x, b)
  <2>1. ~a.lost
    BY <1>7 DEF Claimed
  <2>2. \/ n # x /\ b = a
        \/ n = x /\ x \in Named /\ b = Gone
        \/ n = x /\ x \notin Named /\ a.has /\ b = Now(a.table, FALSE, a.obj, {}, {})
    <3>1. (n # x /\ b = a) \/ (n = x /\ Told(x, a, e, b))
      BY <1>7, ClaimedMoves DEF n
    <3> QED BY <3>1 DEF Told
  <2>3. CASE n = x /\ x \in Named /\ b = Gone
    BY <2>3 DEF Gone
  <2>4. CASE n # x /\ b = a
    <3>1. CASE c = <<>>
      <4>1. d = c
        BY <3>1 DEF Put
      <4> QED BY <1>7, <2>1, <2>4, <4>1
    <3>2. CASE c # <<>>
      <4>1. ShownIn(c[1].sets, x, a) /\ (a.obj <=> x \in c[1].objects)
        BY <1>7, <3>2 DEF Displays
      <4>2. ASSUME NEW i, First(c[1].sets, n, i), sets = RemoveAt(c[1].sets, i) PROVE ShownIn(sets, x, a)
        <5>1. i \in DOMAIN c[1].sets /\ c[1].sets[i].name # x
          BY <2>4, <4>2 DEF First
        <5> QED BY <1>3, <3>2, <4>1, <4>2, <5>1, RemoveAside
      <4>3. ShownIn(sets, x, b)
        BY <1>4, <2>4, <3>2, <4>1, <4>2
      <4>4. Displays(d, x, b)
        BY <1>3, <1>5, <2>4, <3>2, <4>1, <4>3, PutShows
      <4> QED BY <2>1, <2>4, <4>4
    <3> QED BY <3>1, <3>2
  <2>5. CASE n = x /\ x \notin Named /\ a.has /\ b = Now(a.table, FALSE, a.obj, {}, {})
    <3>1. x \in Anonymous
      BY <1>1, <2>5 DEF Names
    <3>2. ~b.lost /\ ~b.has /\ (b.obj <=> a.obj)
      BY <2>5 DEF Now
    <3>3. c # <<>> /\ ShownIn(c[1].sets, x, a) /\ (a.obj <=> x \in c[1].objects)
      BY <1>7, <2>5 DEF Displays
    <3>4. PICK i : First(c[1].sets, x, i) /\ sets = RemoveAt(c[1].sets, i)
      <4>1. \E i : First(c[1].sets, x, i)
        BY <2>5, <3>3 DEF ShownIn
      <4> QED BY <1>4, <2>5, <3>3, <4>1 DEF First
    <3>5. ShownIn(sets, x, b)
      BY <1>3, <2>5, <3>1, <3>2, <3>3, <3>4, RemoveShown
    <3>6. b.obj <=> x \in c[1].objects
      BY <3>2, <3>3
    <3>7. Displays(d, x, b)
      BY <1>3, <1>5, <3>3, <3>5, <3>6, PutShows
    <3> QED BY <3>2, <3>7
  <2> QED BY <2>2, <2>3, <2>4, <2>5
<1> QED BY <1>6, <1>7 DEF n

\* What an event of elements makes of a set.
ElemAfter(s, e) == [name |-> s.name, els |-> ElsAfter(s, e), half |-> HalfAfter(s.name, s, e)]

Altered(c, e, i) == Put(c, Table([c[1].sets EXCEPT ![i] = ElemAfter(c[1].sets[i], e)], c[1].objects))

ElemKept(c, e, d) ==
    /\ CopyOK(d)
    /\ \A x, a, b : Claimed(x, a, e, b) /\ Displays(c, x, a) =>
           IF b.lost THEN x = e.name /\ x \in Ranged /\ e.el # {End(0)} /\ CatchAll \in e.about
           ELSE Displays(d, x, b)

\* Elements are added to the first set of the name, or deleted.
LEMMA SetElemKeeps ==
    ASSUME NEW c, CopyOK(c), c # <<>>, NEW e \in Message, e.type \in {"newelem", "delelem"},
           NEW i, First(c[1].sets, e.name, i), NEW d, d = Altered(c, e, i)
    PROVE  ElemKept(c, e, d)
<1> DEFINE n == e.name
           s == ElemAfter(c[1].sets[i], e)
           sets == [c[1].sets EXCEPT ![i] = s]
<1>1. c[1].sets \in Seq(SetEntry) /\ c[1].objects \in SUBSET Objects
  <2>1. c[1] \in TableEntry
    BY DEF CopyOK
  <2> QED BY <2>1, OtherTable
<1>2. i \in DOMAIN c[1].sets /\ c[1].sets[i].name = n /\ c[1].sets[i] \in SetEntry
  BY <1>1 DEF First
<1>3. s \in SetEntry /\ s.name = n /\ s.els = ElsAfter(c[1].sets[i], e) /\ s.half = HalfAfter(n, c[1].sets[i], e)
  <2>1. e.el \in SUBSET Mark
    BY DEF Message
  <2>2. ElsAfter(c[1].sets[i], e) \in SUBSET Mark
    BY <1>2, <2>1 DEF ElsAfter, SetEntry
  <2>3. HalfAfter(n, c[1].sets[i], e) \in SUBSET Mark
    BY <1>2, <2>1 DEF HalfAfter, SetEntry
  <2>4. n \in Names
    BY <1>2 DEF SetEntry
  <2> HIDE DEF n
  <2> QED BY <1>2, <2>2, <2>3, <2>4 DEF ElemAfter, SetEntry
<1> HIDE DEF s, n
<1>4. sets \in Seq(SetEntry)
  BY <1>1, <1>2, <1>3
<1>5. d = Put(c, Table(sets, c[1].objects))
  BY DEF s, Altered
<1> HIDE DEF sets
<1>6. CopyOK(d)
  BY <1>1, <1>4, <1>5, PutOK
<1>7. ASSUME NEW x, NEW a, NEW b, Claimed(x, a, e, b), Displays(c, x, a)
      PROVE  IF b.lost THEN x = n /\ x \in Ranged /\ e.el # {End(0)} /\ CatchAll \in e.about
             ELSE Displays(d, x, b)
  <2>1. ~a.lost
    BY <1>7 DEF Claimed
  <2>2. ShownIn(c[1].sets, x, a) /\ (a.obj <=> x \in c[1].objects)
    BY <1>7 DEF Displays
  <2>3. \/ n # x /\ b = a
        \/ n = x /\ x \in Ranged /\ e.el # {End(0)} /\ CatchAll \in e.about /\ b = Gone
        \/ n = x /\ a.has /\ b = Now(a.table, TRUE, a.obj, ElsAfter(a, e), HalfAfter(x, a, e))
    <3>1. (n # x /\ b = a) \/ (n = x /\ Told(x, a, e, b))
      BY <1>7, ClaimedMoves DEF n
    <3> QED BY <3>1 DEF Told
  <2>4. CASE n # x /\ b = a
    <3>1. ShownIn(sets, x, b)
      BY <1>1, <1>2, <1>3, <2>2, <2>4, ChangeAside DEF sets
    <3>2. Displays(d, x, b)
      BY <1>1, <1>4, <1>5, <2>2, <2>4, <3>1, PutShows
    <3> QED BY <2>1, <2>4, <3>2
  <2>5. CASE n = x /\ x \in Ranged /\ e.el # {End(0)} /\ CatchAll \in e.about /\ b = Gone
    BY <2>5 DEF Gone
  <2>6. CASE n = x /\ a.has /\ b = Now(a.table, TRUE, a.obj, ElsAfter(a, e), HalfAfter(x, a, e))
    <3>1. ~b.lost /\ b.has /\ (b.obj <=> a.obj)
      BY <2>6 DEF Now
    <3>2. b.els = ElsAfter(a, e) /\ b.half = HalfAfter(x, a, e)
      BY <2>6 DEF Now
    <3>3. c[1].sets[i].els = a.els /\ c[1].sets[i].half = a.half
      <4>1. PICK j : First(c[1].sets, x, j) /\ c[1].sets[j].els = a.els /\ c[1].sets[j].half = a.half
        BY <2>2, <2>6 DEF ShownIn
      <4>2. j = i
        <5>1. First(c[1].sets, x, i)
          BY <2>6 DEF n
        <5>2. i \in Nat /\ j \in Nat /\ ~(i < j) /\ ~(j < i)
          BY <1>1, <4>1, <5>1 DEF First
        <5> QED BY <5>2
      <4> QED BY <4>1, <4>2
    <3>4. b.els = s.els /\ b.half = s.half
      BY <1>3, <2>6, <3>2, <3>3 DEF ElsAfter, HalfAfter
    <3>5. First(c[1].sets, x, i)
      BY <2>6 DEF n
    <3>6. ShownIn(sets, x, b)
      BY <1>1, <1>3, <2>2, <2>6, <3>1, <3>4, <3>5, ChangeShown DEF sets
    <3>7. Displays(d, x, b)
      BY <1>1, <1>4, <1>5, <2>2, <3>1, <3>6, PutShows
    <3> QED BY <3>1, <3>7
  <2> QED BY <2>3, <2>4, <2>5, <2>6
<1> QED BY <1>6, <1>7 DEF n, ElemKept

-----------------------------------------------------------------------------
(***************************************************************************)
(* The inductive invariant: what the copy displays of a name nothing was   *)
(* lost of is what the events that are not read yet lead from to what the  *)
(* kernel has.                                                             *)
(***************************************************************************)
Elements == Spans \cup {CatchAll}

Kern(table, sets, rules, objects) == [table |-> table, sets |-> sets, rules |-> rules, objects |-> objects]

Shape(table, sets, rules, objects) ==
    /\ table \in BOOLEAN /\ sets = [n \in DOMAIN sets |-> sets[n]] /\ DOMAIN sets \subseteq Names
    /\ \A n \in DOMAIN sets : sets[n] \subseteq Elements
    /\ \A n \in DOMAIN sets : ~HasRanges(n) => \A el \in sets[n] : el.lo = el.hi
    /\ rules \subseteq DOMAIN sets /\ objects \subseteq Objects

KernOK(k) ==
    k = Kern(k.table, k.sets, k.rules, k.objects) /\ Shape(k.table, k.sets, k.rules, k.objects)

\* The copy that has a name x in state b is up to date with a kernel that has
\* these sets and objects; sets with a name stay in it when they are deleted.
Shows(table, names, objects, x, b) ==
    /\ ~b.lost /\ b.half = {} /\ (b.table <=> table)
    /\ x \in Named \cap names => b.has
    /\ x \in Anonymous => (b.has <=> x \in names)
    /\ b.obj <=> x \in objects

Current(k, x, b) == Shows(k.table, DOMAIN k.sets, k.objects, x, b)

Tracks(c, q, k, x) ==
    \E a, b \in Fine : ~a.lost /\ Displays(c, x, a) /\ Leads(x, q, a, b) /\ (b.lost \/ Current(k, x, b))

Unspoilt == (Names \cup Objects) \ spoilt

StateInv == KernOK(kern) /\ events \in Seq(Message) /\ CopyOK(copy) /\ (~joined => events = <<>>)
TracksInv == \A x \in Unspoilt : Tracks(copy, events, kern, x)
PrintedInv ==
    /\ RulesShowTheirSets
    /\ out.type \in {"newelem", "delelem"} /\ out.name \notin spoilt => out.known /\ out.said = out.about

MonitorInv == StateInv /\ TracksInv /\ PrintedInv

\* An event read by the monitor: what it found, and what that leads to.
LEMMA ReadTracks ==
    ASSUME NEW q \in Seq(Message), q # <<>>, NEW c, NEW k, NEW x, Tracks(c, q, k, x), NEW d,
           \A a, b : Claimed(x, a, Head(q), b) /\ Displays(c, x, a) => ~b.lost /\ Displays(d, x, b)
    PROVE  /\ Tracks(d, Tail(q), k, x)
           /\ \E a, b : Claimed(x, a, Head(q), b) /\ Displays(c, x, a) /\ ~b.lost
<1>1. PICK a \in Fine, z \in Fine :
          ~a.lost /\ Displays(c, x, a) /\ Leads(x, q, a, z) /\ (z.lost \/ Current(k, x, z))
  BY DEF Tracks
<1>2. PICK b \in State : Moves(x, a, Head(q), b) /\ Leads(x, Tail(q), b, z)
  BY <1>1, LeadsOn
<1>3. Claimed(x, a, Head(q), b)
  BY <1>1, <1>2 DEF Claimed
<1>4. ~b.lost /\ Displays(d, x, b) /\ b \in Fine
  BY <1>1, <1>3 DEF Fine
<1> QED BY <1>1, <1>2, <1>3, <1>4 DEF Tracks

\* What all of them have in common.
LEMMA ReadKeeps ==
    ASSUME StateInv, TracksInv, NEW types, Read(types), CopyOK(copy'), spoilt \subseteq spoilt',
           \A x \in (Names \cup Objects) \ spoilt' : \A a, b :
               Claimed(x, a, Ev, b) /\ Displays(copy, x, a) => ~b.lost /\ Displays(copy', x, b)
    PROVE  /\ StateInv' /\ TracksInv'
           /\ \A x \in (Names \cup Objects) \ spoilt' :
                  \E a, b : Claimed(x, a, Ev, b) /\ Displays(copy, x, a) /\ ~b.lost
<1>1. /\ events \in Seq(Message) /\ events # <<>> /\ events' = Tail(events) /\ joined
      /\ joined' = joined /\ kern' = kern
  BY DEF Read, StateInv
<1>2. StateInv'
  <2>1. events' \in Seq(Message)
    BY <1>1
  <2> QED BY <1>1, <2>1 DEF StateInv
<1>3. ASSUME NEW x \in (Names \cup Objects) \ spoilt'
      PROVE  /\ Tracks(copy', events', kern', x)
             /\ \E a, b : Claimed(x, a, Ev, b) /\ Displays(copy, x, a) /\ ~b.lost
  <2>1. Tracks(copy, events, kern, x)
    BY <1>3 DEF TracksInv, Unspoilt
  <2>2. \A a, b : Claimed(x, a, Head(events), b) /\ Displays(copy, x, a) => ~b.lost /\ Displays(copy', x, b)
    BY <1>3 DEF Ev
  <2>3. /\ Tracks(copy', Tail(events), kern, x)
        /\ \E a, b : Claimed(x, a, Head(events), b) /\ Displays(copy, x, a) /\ ~b.lost
    BY ONLY <1>1, <2>1, <2>2, ReadTracks
  <2> QED BY <1>1, <2>3 DEF Ev
<1>4. TracksInv'
  BY <1>3 DEF TracksInv, Unspoilt
<1> QED BY <1>2, <1>3, <1>4

\* Nothing is printed, or nothing that is claimed about.
LEMMA QuietPrinted == ASSUME out' = Quiet PROVE PrintedInv'
<1>1. out'.type = "none"
  BY DEF Quiet
<1> QED BY <1>1 DEF PrintedInv, RulesShowTheirSets

\* The event that is read.
LEMMA EventRead ==
    ASSUME StateInv, NEW types, Read(types)
    PROVE  /\ Ev \in Message /\ Ev.type \in types
           /\ Ev.type \notin {"newtable", "deltable"} => Ev.name \in Names \cup Objects
<1>1. events \in Seq(Message) /\ events # <<>> /\ Ev.type \in types
  BY DEF Read, StateInv
<1>2. Ev \in Message
  BY <1>1 DEF Ev
<1> HIDE DEF Ev
<1>3. Ev.type \notin {"newtable", "deltable"} => Ev.name \in Names \cup Objects
  BY <1>2 DEF Message, OfTable
<1> QED BY <1>1, <1>2, <1>3

\* Events of tables.
LEMMA TableStep ==
    ASSUME MonitorInv, AddTable \/ RemoveTable PROVE MonitorInv'
<1> USE DEF MonitorInv
<1>1. CASE AddTable
  <2>1. Read({"newtable"}) /\ copy' = Append(copy, Empty) /\ out' = Quiet /\ spoilt' = spoilt
    BY <1>1 DEF AddTable, Empty
  <2>2. CopyOK(copy) /\ Ev.type = "newtable"
    BY <2>1, EventRead DEF StateInv
  <2>3. /\ CopyOK(copy')
        /\ \A x, a, b : Claimed(x, a, Ev, b) /\ Displays(copy, x, a) => ~b.lost /\ Displays(copy', x, b)
    BY <2>1, <2>2, AddTableKeeps
  <2>4. StateInv' /\ TracksInv'
    BY <2>1, <2>3, ReadKeeps
  <2> QED BY <2>1, <2>4, QuietPrinted
<1>2. CASE RemoveTable
  <2>1. Read({"deltable"}) /\ copy' = (IF copy = <<>> THEN copy ELSE Tail(copy)) /\ out' = Quiet /\ spoilt' = spoilt
    BY <1>2 DEF RemoveTable
  <2>2. CopyOK(copy) /\ Ev.type = "deltable"
    BY <2>1, EventRead DEF StateInv
  <2>3. /\ CopyOK(copy')
        /\ \A x, a, b : Claimed(x, a, Ev, b) /\ Displays(copy, x, a) => ~b.lost /\ Displays(copy', x, b)
    BY <2>1, <2>2, RemoveTableKeeps
  <2>4. StateInv' /\ TracksInv'
    BY <2>1, <2>3, ReadKeeps
  <2> QED BY <2>1, <2>4, QuietPrinted
<1> QED BY <1>1, <1>2

\* Events that change nothing of what is claimed.
LEMMA PassKeeps ==
    ASSUME NEW e, e.type \in {"delset", "newrule"}, NEW x, NEW a, NEW b, Claimed(x, a, e, b)
    PROVE  b = a /\ ~b.lost
<1>1. ~a.lost
  BY DEF Claimed
<1>2. (e.name # x /\ b = a) \/ (e.name = x /\ Told(x, a, e, b))
  BY ClaimedMoves
<1> QED BY <1>1, <1>2 DEF Told

\* Events of sets and objects.
LEMMA SetStep ==
    ASSUME MonitorInv, AddSet \/ PassSet \/ Obj PROVE MonitorInv'
<1> USE DEF MonitorInv
<1>1. CASE AddSet
  <2>1. /\ Read({"newset"}) /\ out' = Quiet /\ spoilt' = spoilt
        /\ copy' = Put(copy, [copy[1] EXCEPT !.sets = Append(@, CachedSet(Ev.name, {}))])
    BY <1>1 DEF AddSet, InTable, Put
  <2>2. CopyOK(copy) /\ Ev \in Message /\ Ev.type = "newset"
    BY <2>1, EventRead DEF StateInv
  <2>3. /\ CopyOK(copy')
        /\ \A x, a, b : Claimed(x, a, Ev, b) /\ Displays(copy, x, a) => ~b.lost /\ Displays(copy', x, b)
    BY <2>1, <2>2, AddSetKeeps
  <2>4. StateInv' /\ TracksInv'
    BY <2>1, <2>3, ReadKeeps
  <2> QED BY <2>1, <2>4, QuietPrinted
<1>2. CASE PassSet
  <2>1. Read({"delset"}) /\ out' = Quiet /\ spoilt' = spoilt /\ copy' = copy
    BY <1>2 DEF PassSet
  <2>2. CopyOK(copy) /\ Ev.type = "delset"
    BY <2>1, EventRead DEF StateInv
  <2>3. \A x, a, b : Claimed(x, a, Ev, b) /\ Displays(copy, x, a) => ~b.lost /\ Displays(copy', x, b)
    <3> SUFFICES ASSUME NEW x, NEW a, NEW b, Claimed(x, a, Ev, b), Displays(copy, x, a)
                 PROVE  ~b.lost /\ Displays(copy, x, b)
      BY <2>1
    <3>1. b = a /\ ~b.lost
      BY <2>2, PassKeeps
    <3> QED BY <3>1
  <2>4. StateInv' /\ TracksInv'
    BY <2>1, <2>2, <2>3, ReadKeeps
  <2> QED BY <2>1, <2>4, QuietPrinted
<1>3. CASE Obj
  <2> DEFINE f == IF Ev.type = "newobj" THEN copy[1].objects \cup {Ev.name} ELSE copy[1].objects \ {Ev.name}
  <2>1. /\ Read({"newobj", "delobj"}) /\ out' = Quiet /\ spoilt' = spoilt
        /\ copy' = Put(copy, [copy[1] EXCEPT !.objects = f])
    BY <1>3 DEF Obj, InTable, Put, ObjectsAfter
  <2>2. CopyOK(copy) /\ Ev \in Message /\ Ev.type \in {"newobj", "delobj"}
    BY <2>1, EventRead DEF StateInv
  <2>3. /\ CopyOK(copy')
        /\ \A x, a, b : Claimed(x, a, Ev, b) /\ Displays(copy, x, a) => ~b.lost /\ Displays(copy', x, b)
    <3>1. f = (IF Ev.type = "newobj" THEN copy[1].objects \cup {Ev.name} ELSE copy[1].objects \ {Ev.name})
      OBVIOUS
    <3> HIDE DEF f
    <3> QED BY ONLY <2>1, <2>2, <3>1, ObjKeeps
  <2>4. StateInv' /\ TracksInv'
    BY <2>1, <2>3, ReadKeeps
  <2> QED BY <2>1, <2>4, QuietPrinted
<1> QED BY <1>1, <1>2, <1>3

\* What Find finds in the copy.
LEMMA FindIs ==
    ASSUME CopyOK(copy), NEW n
    PROVE  \/ Find(n) = 0 /\ (copy # <<>> => \A j \in DOMAIN copy[1].sets : copy[1].sets[j].name # n)
           \/ Find(n) # 0 /\ copy # <<>> /\ First(copy[1].sets, n, Find(n))
<1>1. CASE copy = <<>>
  BY <1>1 DEF Find
<1>2. CASE copy # <<>>
  <2>1. copy[1].sets \in Seq(SetEntry)
    <3>1. copy[1] \in TableEntry
      BY <1>2 DEF CopyOK
    <3> QED BY <3>1, OtherTable
  <2>2. Find(n) = Where(copy[1].sets, n)
    BY <1>2 DEF Find, SelectInSeq, Where
  <2>3. First(copy[1].sets, n, Find(n)) => Find(n) # 0
    BY <2>1 DEF First
  <2> QED BY <1>2, <2>1, <2>2, <2>3, WhereFirst
<1> QED BY <1>1, <1>2

\* A set something is claimed of and that should be in the copy is found.
LEMMA HasIsFound ==
    ASSUME CopyOK(copy), NEW x, NEW a, a.has, Displays(copy, x, a)
    PROVE  /\ Find(x) # 0 /\ copy # <<>> /\ First(copy[1].sets, x, Find(x))
           /\ copy[1].sets[Find(x)].els = a.els /\ copy[1].sets[Find(x)].half = a.half
<1>1. copy # <<>> /\ ShownIn(copy[1].sets, x, a)
  BY DEF Displays
<1>2. PICK j : First(copy[1].sets, x, j) /\ copy[1].sets[j].els = a.els /\ copy[1].sets[j].half = a.half
  BY <1>1 DEF ShownIn
<1>3. Find(x) # 0 /\ First(copy[1].sets, x, Find(x))
  BY <1>1, <1>2, FindIs DEF First
<1>4. j = Find(x)
  <2>1. copy[1].sets \in Seq(SetEntry)
    <3>1. copy[1] \in TableEntry
      BY <1>1 DEF CopyOK
    <3> QED BY <3>1, OtherTable
  <2>2. j \in Nat /\ Find(x) \in Nat /\ ~(j < Find(x)) /\ ~(Find(x) < j)
    BY <1>2, <1>3, <2>1 DEF First
  <2> QED BY <2>2
<1> QED BY <1>1, <1>2, <1>3, <1>4

\* Events of rules.
LEMMA RuleStep ==
    ASSUME MonitorInv, AddRule \/ RemoveRule PROVE MonitorInv'
<1> USE DEF MonitorInv
<1>1. CASE AddRule
  <2>1. Read({"newrule"}) /\ spoilt' = spoilt /\ copy' = copy
    BY <1>1 DEF AddRule
  <2>2. CopyOK(copy) /\ Ev \in Message /\ Ev.type = "newrule"
    BY <2>1, EventRead DEF StateInv
  <2>3. \A x, a, b : Claimed(x, a, Ev, b) /\ Displays(copy, x, a) => ~b.lost /\ Displays(copy', x, b)
    <3> SUFFICES ASSUME NEW x, NEW a, NEW b, Claimed(x, a, Ev, b), Displays(copy, x, a)
                 PROVE  ~b.lost /\ Displays(copy, x, b)
      BY <2>1
    <3>1. b = a /\ ~b.lost
      BY <2>2, PassKeeps
    <3> QED BY <3>1
  <2>4. /\ StateInv' /\ TracksInv'
        /\ \A x \in (Names \cup Objects) \ spoilt' :
               \E a, b : Claimed(x, a, Ev, b) /\ Displays(copy, x, a) /\ ~b.lost
    BY <2>1, <2>2, <2>3, ReadKeeps
  <2>5. ASSUME Ev.name \in Anonymous \ spoilt
        PROVE  Find(Ev.name) # 0 /\ Decompose(copy[1].sets[Find(Ev.name)].els) = Ev.about
    <3> DEFINE x == Ev.name
    <3>1. PICK a, b : Claimed(x, a, Ev, b) /\ Displays(copy, x, a)
      BY <2>1, <2>4, <2>5 DEF Names
    <3>2. Told(x, a, Ev, b)
      BY <2>2, <3>1, ClaimedMoves
    <3>3. a.has /\ Decompose(a.els) = Ev.about
      BY <2>2, <2>5, <3>2 DEF Told
    <3> QED BY <2>2, <3>1, <3>3, HasIsFound
  <2>6. out' = IF Find(Ev.name) = 0 THEN [known |-> FALSE, type |-> Ev.type, name |-> Ev.name, about |-> Ev.about, said |-> {}]
               ELSE [known |-> TRUE, type |-> Ev.type, name |-> Ev.name, about |-> Ev.about,
                     said |-> Decompose(copy[1].sets[Find(Ev.name)].els)]
    BY <1>1 DEF AddRule, Say
  <2>7. /\ out'.type = "newrule" /\ out'.name = Ev.name /\ out'.about = Ev.about
        /\ Find(Ev.name) # 0 => out'.known = TRUE /\ out'.said = Decompose(copy[1].sets[Find(Ev.name)].els)
    BY <2>2, <2>6
  <2>8. PrintedInv'
    BY <2>1, <2>5, <2>7 DEF PrintedInv, RulesShowTheirSets
  <2> QED BY <2>4, <2>8
<1>2. CASE RemoveRule
  <2>1. /\ Read({"delrule"}) /\ out' = Quiet /\ spoilt' = spoilt \cup ({Ev.name} \cap Named)
        /\ copy' = Put(copy, [copy[1] EXCEPT !.sets = SetsWithout(@, Ev.name)])
    BY <1>2 DEF RemoveRule, InTable, Put
  <2>2. CopyOK(copy) /\ Ev \in Message /\ Ev.type = "delrule"
    BY <2>1, EventRead DEF StateInv
  <2>3. /\ CopyOK(copy')
        /\ \A x, a, b : Claimed(x, a, Ev, b) /\ Displays(copy, x, a) =>
               IF b.lost THEN x = Ev.name /\ x \in Named ELSE Displays(copy', x, b)
    BY <2>1, <2>2, RemoveRuleKeeps
  <2>4. StateInv' /\ TracksInv'
    BY <2>1, <2>3, ReadKeeps
  <2> QED BY <2>1, <2>4, QuietPrinted
<1> QED BY <1>1, <1>2

\* What SetElem does to a set.
LEMMA StoredIs ==
    ASSUME NEW s \in SetEntry PROVE [Stored(s) EXCEPT !.half = Waiting(s)] = ElemAfter(s, Ev)
<1>1. Waiting(s) = HalfAfter(s.name, s, Ev)
  BY DEF Waiting, HalfAfter, NullElement, Open, OpenAt
<1>2. ASSUME NEW h, NEW t, t = [name |-> s.name, els |-> s.els \cup Ev.el, half |-> h]
      PROVE  [[s EXCEPT !.els = @ \cup Ev.el] EXCEPT !.half = h] = t
  <2> DEFINE els == s.els \cup Ev.el
             r == [s EXCEPT !.els = els]
  <2>1. t = [name |-> s.name, els |-> els, half |-> h]
    BY <1>2
  <2> HIDE DEF els
  <2>2. r = [name |-> s.name, els |-> els, half |-> s.half]
    BY DEF SetEntry
  <2> HIDE DEF r
  <2>3. [r EXCEPT !.half = h] = t
    BY <2>1, <2>2
  <2> QED BY <2>3 DEF r, els
<1>3. ASSUME NEW h, NEW t, t = [name |-> s.name, els |-> s.els, half |-> h]
      PROVE  [s EXCEPT !.half = h] = t
  BY <1>3 DEF SetEntry
<1> DEFINE h == HalfAfter(s.name, s, Ev)
<1> HIDE DEF h
<1>4. CASE Ev.type = "newelem"
  <2>1. ElemAfter(s, Ev) = [name |-> s.name, els |-> s.els \cup Ev.el, half |-> h]
    BY <1>4 DEF ElemAfter, ElsAfter, h
  <2>2. Stored(s) = [s EXCEPT !.els = @ \cup Ev.el]
    BY <1>4 DEF Stored
  <2> QED BY <1>1, <1>2, <2>1, <2>2 DEF h
<1>5. CASE Ev.type # "newelem"
  <2>1. ElemAfter(s, Ev) = [name |-> s.name, els |-> s.els, half |-> h]
    BY <1>5 DEF ElemAfter, ElsAfter, h
  <2>2. Stored(s) = s
    BY <1>5 DEF Stored
  <2> QED BY <1>1, <1>3, <2>1, <2>2 DEF h
<1> QED BY <1>4, <1>5

\* Events of elements.
LEMMA ElemStep == ASSUME MonitorInv, SetElem PROVE MonitorInv'
<1> USE DEF MonitorInv
<1> DEFINE n == Ev.name
           i == Find(n)
           s == copy[1].sets[i]
<1>1. Read({"newelem", "delelem"})
  BY DEF SetElem
<1>2. CopyOK(copy) /\ Ev \in Message /\ Ev.type \in {"newelem", "delelem"} /\ n \in Names
  <2>1. CopyOK(copy) /\ Ev \in Message /\ Ev.type \in {"newelem", "delelem"}
    BY <1>1, EventRead DEF StateInv
  <2> QED BY <2>1 DEF Message, OfTable
<1>3. ASSUME NEW x \in Names \cup Objects, NEW a, NEW b, Claimed(x, a, Ev, b), Displays(copy, x, a)
      PROVE  \/ n # x /\ b = a /\ ~b.lost
             \/ n = x /\ Told(x, a, Ev, b) /\ a.has /\ PrintedRight(x, a, Ev)
  <2>1. ~a.lost
    BY <1>3 DEF Claimed
  <2>2. (n # x /\ b = a) \/ (n = x /\ Told(x, a, Ev, b))
    BY <1>2, <1>3, ClaimedMoves
  <2>3. Told(x, a, Ev, b) => a.has /\ PrintedRight(x, a, Ev)
    BY <1>2 DEF Told
  <2> QED BY <2>1, <2>2, <2>3
<1>4. CASE i = 0
  <2>1. out' = [known |-> FALSE, type |-> Ev.type, name |-> n, about |-> Ev.about, said |-> {}] /\ UNCHANGED <<copy, spoilt>>
    BY <1>4 DEF SetElem, Say
  <2>2. ASSUME NEW x \in Names \cup Objects, NEW a, NEW b, Claimed(x, a, Ev, b), Displays(copy, x, a)
        PROVE  n # x /\ ~b.lost /\ Displays(copy', x, b)
    <3>1. a.has => Find(x) # 0
      BY <1>2, <2>2, HasIsFound
    <3> QED BY <1>3, <1>4, <2>1, <2>2, <3>1
  <2>3. /\ StateInv' /\ TracksInv'
        /\ \A x \in (Names \cup Objects) \ spoilt' :
               \E a, b : Claimed(x, a, Ev, b) /\ Displays(copy, x, a) /\ ~b.lost
    BY <1>1, <1>2, <2>1, <2>2, ReadKeeps
  <2>4. n \in spoilt
    BY <1>2, <2>1, <2>2, <2>3
  <2>5. out'.type # "newrule" /\ out'.name = n
    BY <1>2, <2>1
  <2>6. PrintedInv'
    BY <2>1, <2>4, <2>5 DEF PrintedInv, RulesShowTheirSets
  <2> QED BY <2>3, <2>6
<1>5. CASE i # 0
  <2>1. copy # <<>> /\ First(copy[1].sets, n, i)
    BY <1>2, <1>5, FindIs
  <2>2. copy[1] \in TableEntry /\ copy[1].sets \in Seq(SetEntry) /\ copy[1].objects \in SUBSET Objects
    <3>1. copy[1] \in TableEntry
      BY <1>2, <2>1 DEF CopyOK
    <3> QED BY <3>1, OtherTable
  <2>3. s \in SetEntry /\ s.name = n /\ i \in DOMAIN copy[1].sets
    BY <2>1, <2>2 DEF First
  <2>4. copy' = [copy EXCEPT ![1].sets[i] = ElemAfter(s, Ev)]
    <3>1. copy' = [copy EXCEPT ![1].sets[i] = [Stored(s) EXCEPT !.half = Waiting(s)]]
      BY <1>5 DEF SetElem
    <3> QED BY <2>3, <3>1, StoredIs
  <2>5. copy' = Put(copy, Table([copy[1].sets EXCEPT ![i] = ElemAfter(s, Ev)], copy[1].objects))
    <3> DEFINE r == ElemAfter(s, Ev)
               new == [copy[1].sets EXCEPT ![i] = r]
    <3>1. copy' = [copy EXCEPT ![1] = [copy[1] EXCEPT !.sets = new]]
      BY <2>4
    <3> HIDE DEF new
    <3>2. [copy[1] EXCEPT !.sets = new] = Table(new, copy[1].objects)
      BY <2>2, OtherTable
    <3> QED BY <2>1, <3>1, <3>2 DEF Put, new
  <2>6. IF n \in Anonymous THEN out' = Quiet /\ spoilt' = spoilt ELSE Halved(s)
    BY <1>5 DEF SetElem
  <2> HIDE DEF s
  <2>7. /\ spoilt \subseteq spoilt'
        /\ n \in Ranged /\ Ev.el # {End(0)} /\ CatchAll \in Ev.about => n \in spoilt'
    BY <2>3, <2>6, NamesAssumption DEF Halved, NullElement
  <2>8. /\ CopyOK(copy')
        /\ \A x, a, b : Claimed(x, a, Ev, b) /\ Displays(copy, x, a) =>
               IF b.lost THEN x = n /\ x \in Ranged /\ Ev.el # {End(0)} /\ CatchAll \in Ev.about
               ELSE Displays(copy', x, b)
    <3>1. copy' = Altered(copy, Ev, i)
      BY <2>5 DEF s, Altered
    <3>2. ElemKept(copy, Ev, copy')
      <4> HIDE DEF i
      <4> QED BY <1>2, <2>1, <3>1, SetElemKeeps
    <3> QED BY <3>2 DEF ElemKept
  <2>9. /\ StateInv' /\ TracksInv'
        /\ \A x \in (Names \cup Objects) \ spoilt' :
               \E a, b : Claimed(x, a, Ev, b) /\ Displays(copy, x, a) /\ ~b.lost
    BY <1>1, <2>7, <2>8, ReadKeeps
  <2>10. ASSUME n \notin spoilt', n \notin Anonymous PROVE PrintedInv'
    <3>1. PICK a, b : Claimed(n, a, Ev, b) /\ Displays(copy, n, a) /\ ~b.lost
      BY <1>2, <2>9, <2>10
    <3>2. PrintedRight(n, a, Ev) /\ a.has
      BY <1>2, <1>3, <3>1
    <3>3. s.half = a.half
      BY <1>2, <3>1, <3>2, HasIsFound DEF s
    <3>4. n \in Named /\ Halved(s)
      BY <1>2, <2>6, <2>10 DEF Names
    <3>5. CASE out' = Quiet
      BY <3>5, QuietPrinted
    <3>6. CASE out' # Quiet
      <4>1. Ev.el # {End(0)} /\ \E said : Say(TRUE, said)
        BY <3>4, <3>6 DEF Halved, NullElement
      <4>2. out'.type # "newrule" /\ out'.about = Ev.about /\ out'.known = TRUE
        BY <1>2, <4>1 DEF Say
      <4>3. CASE n \notin Ranged
        <5>1. Say(TRUE, {[lo |-> e.key, hi |-> e.key] : e \in Ev.el})
          BY <2>3, <3>4, <4>1, <4>3 DEF Halved, NullElement
        <5>2. {[lo |-> e.key, hi |-> e.key] : e \in Ev.el} = Ev.about
          BY <3>2, <3>4, <4>1, <4>3 DEF PrintedRight
        <5>3. out'.said = Ev.about
          BY <5>1, <5>2 DEF Say
        <5> QED BY <4>2, <5>3 DEF PrintedInv, RulesShowTheirSets
      <4>4. CASE n \in Ranged
        <5>1. CatchAll \notin Ev.about
          BY <2>7, <2>10, <4>1, <4>4
        <5>2. (s.half # {} \/ OpenAt(Ev)) /\ Say(TRUE, Decompose(s.half \cup Ev.el))
          BY <2>3, <3>4, <3>6, <4>1, <4>4 DEF Halved, NullElement, Open, OpenAt
        <5>3. Decompose(s.half \cup Ev.el) = Ev.about
          BY <3>2, <3>3, <4>1, <4>4, <5>1, <5>2 DEF PrintedRight
        <5>4. out'.said = Ev.about
          BY <5>2, <5>3 DEF Say
        <5> QED BY <4>2, <5>4 DEF PrintedInv, RulesShowTheirSets
      <4> QED BY <4>3, <4>4
    <3> QED BY <3>5, <3>6
  <2>11. ASSUME n \in spoilt', n \notin Anonymous PROVE PrintedInv'
    <3>1. out' = Quiet \/ \E known, said : Say(known, said)
      BY <2>6, <2>11 DEF Halved
    <3>2. CASE out' = Quiet
      BY <3>2, QuietPrinted
    <3>3. ASSUME NEW known, NEW said, Say(known, said) PROVE PrintedInv'
      <4>1. out'.type # "newrule" /\ out'.name = n
        BY <1>2, <3>3 DEF Say
      <4> QED BY <2>11, <4>1 DEF PrintedInv, RulesShowTheirSets
    <3> QED BY <3>1, <3>2, <3>3
  <2>12. n \in Anonymous => PrintedInv'
    BY <2>6, QuietPrinted
  <2> QED BY <2>9, <2>10, <2>11, <2>12
<1> QED BY <1>4, <1>5

\* The monitor starts to listen; an event is lost.
LEMMA SocketStep == ASSUME MonitorInv, Join \/ Lose PROVE MonitorInv'
<1> USE DEF MonitorInv
<1>1. CASE Join
  <2>1. UNCHANGED <<kern, events, copy, out, spoilt>> /\ joined' = TRUE
    BY <1>1 DEF Join
  <2>2. StateInv'
    BY <2>1 DEF StateInv
  <2>3. TracksInv'
    BY <2>1 DEF TracksInv, Unspoilt
  <2>4. PrintedInv'
    BY <2>1 DEF PrintedInv, RulesShowTheirSets
  <2> QED BY <2>2, <2>3, <2>4
<1>2. CASE Lose
  <2>1. /\ joined /\ events # <<>> /\ events' = Tail(events) /\ UNCHANGED <<kern, joined, copy, out>>
        /\ spoilt' = spoilt \cup Spoils(Head(events)) /\ events \in Seq(Message)
    BY <1>2 DEF Lose, StateInv
  <2>2. StateInv'
    <3>1. events' \in Seq(Message)
      BY <2>1
    <3> QED BY <2>1, <3>1 DEF StateInv
  <2>3. ASSUME NEW x \in (Names \cup Objects) \ spoilt' PROVE Tracks(copy, Tail(events), kern, x)
    <3>1. Aside(x, Head(events))
      BY <2>1, <2>3 DEF Spoils, Aside, OfTable
    <3>2. PICK a \in Fine, z \in Fine :
              ~a.lost /\ Displays(copy, x, a) /\ Leads(x, events, a, z) /\ (z.lost \/ Current(kern, x, z))
      BY <2>1, <2>3 DEF TracksInv, Unspoilt, Tracks
    <3>3. PICK b \in State : Moves(x, a, Head(events), b) /\ Leads(x, Tail(events), b, z)
      BY <2>1, <3>2, LeadsOn
    <3>4. b = a
      BY <3>1, <3>3 DEF Moves, Aside, OfTable
    <3> QED BY <3>2, <3>3, <3>4 DEF Tracks
  <2>4. TracksInv'
    BY <2>1, <2>3 DEF TracksInv, Unspoilt
  <2>5. PrintedInv'
    BY <2>1 DEF PrintedInv, RulesShowTheirSets
  <2> QED BY <2>2, <2>4, <2>5
<1> QED BY <1>1, <1>2

-----------------------------------------------------------------------------
(***************************************************************************)
(* What others commit: the events that are sent lead a copy that was up to *)
(* date to one that is.                                                    *)
(***************************************************************************)
Follows(k, l, sent) ==
    \A x \in Names \cup Objects : \A b \in Fine : Current(k, x, b) =>
        \E d \in Fine : Leads(x, sent, b, d) /\ (d.lost \/ Current(l, x, d))

\* What is lost stays lost.
LEMMA LeadsGone == ASSUME NEW S, NEW x, NEW q \in Seq(S) PROVE Leads(x, q, Gone, Gone)
<1> DEFINE N == Len(q)
           g == [k \in 0..N |-> Gone]
<1>1. N \in Nat /\ Gone \in State
  BY DEF Gone, State
<1>2. g \in [0..N -> State] /\ g[0] = Gone /\ g[N] = Gone /\ \A k \in 1..N : g[k - 1] = Gone /\ g[k] = Gone
  BY <1>1
<1> HIDE DEF g
<1>3. Trace(x, q, g)
  BY <1>2 DEF Trace, Moves
<1> QED BY <1>2, <1>3 DEF Leads

\* What all commits have in common.
LEMMA CommitStep ==
    ASSUME MonitorInv, NEW k, KernOK(k), NEW sent \in Seq(Message), Commit(k, sent), Follows(kern, k, sent)
    PROVE  MonitorInv'
<1> USE DEF MonitorInv
<1>1. kern' = k /\ UNCHANGED <<joined, copy, out>> /\ spoilt \subseteq spoilt' /\ events \in Seq(Message)
  BY DEF Commit, StateInv
<1>2. StateInv'
  <2>1. CASE joined
    <3>1. events' \in Seq(Message)
      <4>1. events' = events \o sent
        BY <2>1 DEF Commit
      <4> QED BY <1>1, <4>1
    <3> QED BY <1>1, <2>1, <3>1 DEF StateInv
  <2>2. CASE ~joined
    BY <1>1, <2>2 DEF StateInv, Commit
  <2> QED BY <2>1, <2>2
<1>3. ASSUME NEW x \in (Names \cup Objects) \ spoilt' PROVE Tracks(copy, events', k, x)
  <2>1. PICK a \in Fine, b \in Fine :
            ~a.lost /\ Displays(copy, x, a) /\ Leads(x, events, a, b) /\ (b.lost \/ Current(kern, x, b))
    BY <1>1, <1>3 DEF TracksInv, Unspoilt, Tracks
  <2>2. PICK d \in Fine : Leads(x, sent, b, d) /\ (d.lost \/ Current(k, x, d))
    <3>1. CASE b.lost
      <4>1. b = Gone /\ Leads(x, sent, Gone, Gone)
        BY <3>1, LeadsGone DEF Fine
      <4> QED BY <3>1, <4>1
    <3>2. CASE Current(kern, x, b)
      BY <3>2 DEF Follows
    <3> QED BY <2>1, <3>1, <3>2
  <2>3. CASE joined
    <3>1. events' = events \o sent
      BY <2>3 DEF Commit
    <3>2. Leads(x, events \o sent, a, d)
      BY <1>1, <2>1, <2>2, LeadsJoin
    <3> QED BY <2>1, <2>2, <3>1, <3>2 DEF Tracks
  <2>4. CASE ~joined
    <3>1. events' = events /\ spoilt' = spoilt \cup UNION {Spoils(sent[i]) : i \in DOMAIN sent}
      BY <2>4 DEF Commit
    <3>2. ASSUME NEW i \in DOMAIN sent PROVE Aside(x, sent[i])
      <4>1. x \notin Spoils(sent[i])
        BY <1>3, <3>1
      <4> QED BY <1>3, <4>1 DEF Spoils, Aside, OfTable
    <3>3. d = b
      BY <2>2, <3>2, StaysAside
    <3> QED BY <2>1, <2>2, <3>1, <3>3 DEF Tracks
  <2> QED BY <2>3, <2>4
<1>4. TracksInv'
  BY <1>1, <1>3 DEF TracksInv, Unspoilt
<1>5. PrintedInv'
  BY <1>1 DEF PrintedInv, RulesShowTheirSets
<1> QED BY <1>2, <1>4, <1>5

\* A commit that one event tells of.
LEMMA FollowsOne ==
    ASSUME NEW k, NEW l, NEW e,
           \A x \in Names \cup Objects : \A b \in Fine : Current(k, x, b) =>
               \E d \in Fine : Moves(x, b, e, d) /\ (d.lost \/ Current(l, x, d))
    PROVE  Follows(k, l, <<e>>)
<1> SUFFICES ASSUME NEW x \in Names \cup Objects, NEW b \in Fine, Current(k, x, b)
             PROVE  \E d \in Fine : Leads(x, <<e>>, b, d) /\ (d.lost \/ Current(l, x, d))
  BY DEF Follows
<1>1. PICK d \in Fine : Moves(x, b, e, d) /\ (d.lost \/ Current(l, x, d))
  OBVIOUS
<1>2. Leads(x, <<e>>, b, d)
  BY <1>1, LeadsOne DEF Fine
<1> QED BY <1>1, <1>2

\* The kernel with something changed.
LEMMA KernExcept ==
    ASSUME NEW k, KernOK(k), NEW v, NEW w
    PROVE  /\ [k EXCEPT !.table = v] = Kern(v, k.sets, k.rules, k.objects)
           /\ [k EXCEPT !.sets = v] = Kern(k.table, v, k.rules, k.objects)
           /\ [k EXCEPT !.rules = v] = Kern(k.table, k.sets, v, k.objects)
           /\ [k EXCEPT !.objects = v] = Kern(k.table, k.sets, k.rules, v)
           /\ [k EXCEPT !.sets = v, !.rules = w] = Kern(k.table, v, w, k.objects)
           /\ [k EXCEPT !.rules = w, !.sets = v] = Kern(k.table, v, w, k.objects)
<1>1. k = Kern(k.table, k.sets, k.rules, k.objects)
  BY DEF KernOK
<1> USE DEF Kern
<1>2. [k EXCEPT !.table = v] = Kern(v, k.sets, k.rules, k.objects)
  BY <1>1
<1>3. [k EXCEPT !.sets = v] = Kern(k.table, v, k.rules, k.objects)
  BY <1>1
<1>4. [k EXCEPT !.rules = v] = Kern(k.table, k.sets, v, k.objects)
  BY <1>1
<1>5. [k EXCEPT !.objects = v] = Kern(k.table, k.sets, k.rules, v)
  BY <1>1
<1>6. [k EXCEPT !.sets = v, !.rules = w] = Kern(k.table, v, w, k.objects)
  <2> DEFINE m == [k EXCEPT !.sets = v]
  <2>1. m = [table |-> k.table, sets |-> v, rules |-> k.rules, objects |-> k.objects]
    BY <1>3
  <2> HIDE DEF m
  <2>2. [m EXCEPT !.rules = w] = Kern(k.table, v, w, k.objects)
    BY <2>1
  <2> QED BY <2>2 DEF m
<1>7. [k EXCEPT !.rules = w, !.sets = v] = Kern(k.table, v, w, k.objects)
  <2> DEFINE m == [k EXCEPT !.rules = w]
  <2>1. m = [table |-> k.table, sets |-> k.sets, rules |-> w, objects |-> k.objects]
    BY <1>1
  <2> HIDE DEF m
  <2>2. [m EXCEPT !.sets = v] = Kern(k.table, v, w, k.objects)
    BY <2>1
  <2> QED BY <2>2 DEF m
<1> HIDE DEF Kern
<1> QED BY <1>2, <1>3, <1>4, <1>5, <1>6, <1>7

\* The kernel, part by part.
LEMMA KernIs ==
    ASSUME NEW t, NEW s, NEW r, NEW o
    PROVE  /\ Shape(t, s, r, o) => KernOK(Kern(t, s, r, o))
           /\ \A x, b : Current(Kern(t, s, r, o), x, b) <=> Shows(t, DOMAIN s, o, x, b)
<1>1. Kern(t, s, r, o).table = t /\ Kern(t, s, r, o).sets = s
  BY DEF Kern
<1>2. Kern(t, s, r, o).rules = r /\ Kern(t, s, r, o).objects = o
  BY DEF Kern
<1>3. Shape(t, s, r, o) => KernOK(Kern(t, s, r, o))
  BY <1>1, <1>2 DEF KernOK
<1>4. \A x, b : Current(Kern(t, s, r, o), x, b) <=> Shows(t, DOMAIN s, o, x, b)
  BY <1>1, <1>2 DEF Current
<1> QED BY <1>3, <1>4

\* A message.
LEMMA EventIs ==
    ASSUME NEW type \in Types, NEW name, NEW el \in SUBSET Mark, NEW about \in SUBSET Elements,
           IF type \in {"newtable", "deltable"} THEN name = "t"
           ELSE IF type \in {"newobj", "delobj"} THEN name \in Objects ELSE name \in Names
    PROVE  /\ Event(type, name, el, about) \in Message
           /\ Event(type, name, el, about).type = type /\ Event(type, name, el, about).name = name
           /\ Event(type, name, el, about).el = el /\ Event(type, name, el, about).about = about
<1> DEFINE e == Event(type, name, el, about)
<1>1. e.type = type /\ e.name = name /\ e.el = el /\ e.about = about
  BY DEF Event
<1>2. e \in [type : Types, name : Names \cup Objects \cup {"t"}, el : SUBSET Mark,
             about : SUBSET (Spans \cup {CatchAll})]
  BY DEF Event, Elements
<1> HIDE DEF e
<1>3. e \in Message
  BY <1>1, <1>2 DEF Message, OfTable
<1> QED BY <1>1, <1>3 DEF e

\* A commit that one event tells of, and what it tells.
LEMMA PlainStep ==
    ASSUME MonitorInv, NEW t, NEW s, NEW r, NEW o, Shape(t, s, r, o), NEW e \in Message,
           NEW k, k = Kern(t, s, r, o), Commit(k, <<e>>),
           \A x \in Names \cup Objects : \A b \in Fine : Shows(kern.table, DOMAIN kern.sets, kern.objects, x, b) =>
               \E d \in Fine : Moves(x, b, e, d) /\ (d.lost \/ Shows(t, DOMAIN s, o, x, d))
    PROVE  MonitorInv'
<1>1. KernOK(k) /\ \A x, d : Shows(t, DOMAIN s, o, x, d) <=> Current(k, x, d)
  BY KernIs
<1>2. \A x \in Names \cup Objects : \A b \in Fine : Current(kern, x, b) =>
          \E d \in Fine : Moves(x, b, e, d) /\ (d.lost \/ Current(k, x, d))
  BY <1>1 DEF Current
<1>3. Follows(kern, k, <<e>>)
  BY <1>2, FollowsOne
<1>4. <<e>> \in Seq(Message)
  OBVIOUS
<1> QED BY <1>1, <1>3, <1>4, CommitStep

\* A state that is not lost, field by field.
IsNow(d, t, h, o, els, half) ==
    /\ d \in Fine /\ ~d.lost /\ (d.table <=> t) /\ (d.has <=> h) /\ (d.obj <=> o)
    /\ d.els = els /\ d.half = half

\* What Now makes.
LEMMA NowIs ==
    ASSUME NEW t \in BOOLEAN, NEW h \in BOOLEAN, NEW o \in BOOLEAN, NEW els \in SUBSET Mark, NEW half \in SUBSET Mark
    PROVE  IsNow(Now(t, h, o, els, half), t, h, o, els, half)
<1> DEFINE d == Now(t, h, o, els, half)
<1>1. d \in State
  BY DEF Now, State
<1>2. d.lost = FALSE /\ d.table = t /\ d.has = h /\ d.obj = o
  BY DEF Now
<1>3. d.els = els /\ d.half = half
  BY DEF Now
<1> HIDE DEF d
<1> QED BY <1>1, <1>2, <1>3 DEF Fine, IsNow, d

\* The fields of a state.
LEMMA FineIs ==
    ASSUME NEW b \in Fine
    PROVE  /\ b.table \in BOOLEAN /\ b.has \in BOOLEAN /\ b.obj \in BOOLEAN
           /\ b.els \in SUBSET Mark /\ b.half \in SUBSET Mark /\ b \in State
<1>1. b \in State
  BY DEF Fine
<1>2. b.table \in BOOLEAN /\ b.has \in BOOLEAN /\ b.obj \in BOOLEAN
  BY <1>1 DEF State
<1>3. b.els \in SUBSET Mark /\ b.half \in SUBSET Mark
  BY <1>1 DEF State
<1> QED BY <1>1, <1>2, <1>3

\* Flags of a table, and objects.
LEMMA ObjCommits ==
    ASSUME MonitorInv, NewTable \/ \E o \in Objects : NewObj(o) \/ DelObj(o) PROVE MonitorInv'
<1>1. /\ KernOK(kern) /\ Shape(kern.table, kern.sets, kern.rules, kern.objects)
  BY DEF MonitorInv, StateInv, KernOK
<1>2. CASE NewTable
  <2> DEFINE e == Plain("newtable", "t")
             k == Kern(TRUE, kern.sets, kern.rules, kern.objects)
  <2>1. Commit(k, <<e>>)
    BY <1>1, <1>2, KernExcept DEF NewTable
  <2>2. e \in Message /\ e.type = "newtable"
    BY EventIs DEF Plain, Types
  <2>3. Shape(TRUE, kern.sets, kern.rules, kern.objects)
    BY <1>1 DEF Shape
  <2> HIDE DEF e, k
  <2>4. ASSUME NEW x \in Names \cup Objects, NEW b \in Fine,
               Shows(kern.table, DOMAIN kern.sets, kern.objects, x, b)
        PROVE  \E d \in Fine : Moves(x, b, e, d) /\ (d.lost \/ Shows(TRUE, DOMAIN kern.sets, kern.objects, x, d))
    <3> DEFINE d == Now(TRUE, b.has, b.obj, b.els, b.half)
    <3>1. IsNow(d, TRUE, b.has, b.obj, b.els, b.half)
      <4>1. b.has \in BOOLEAN /\ b.obj \in BOOLEAN /\ b.els \in SUBSET Mark /\ b.half \in SUBSET Mark /\ TRUE \in BOOLEAN
        BY FineIs
      <4> QED BY ONLY <4>1, NowIs
    <3>2. Moves(x, b, e, d)
      BY <2>2, <2>4 DEF Moves, Shows
    <3> HIDE DEF d
    <3>3. d \in Fine /\ Shows(TRUE, DOMAIN kern.sets, kern.objects, x, d)
      BY <2>4, <3>1 DEF Shows, IsNow
    <3> QED BY <3>2, <3>3
  <2> QED BY <2>1, <2>2, <2>3, <2>4, PlainStep DEF k
<1>3. ASSUME NEW n \in Objects, NewObj(n) \/ DelObj(n) PROVE MonitorInv'
  <2> DEFINE type == IF NewObj(n) THEN "newobj" ELSE "delobj"
             o == IF NewObj(n) THEN kern.objects \cup {n} ELSE kern.objects \ {n}
             e == Plain(type, n)
             k == Kern(kern.table, kern.sets, kern.rules, o)
  <2>1. Commit(k, <<e>>) /\ (NewObj(n) => kern.table)
    <3>1. CASE NewObj(n)
      <4>1. Commit([kern EXCEPT !.objects = @ \cup {n}], <<Plain("newobj", n)>>) /\ kern.table
        BY <3>1 DEF NewObj
      <4>2. o = kern.objects \cup {n} /\ type = "newobj"
        BY <3>1
      <4> DEFINE v == kern.objects \cup {n}
      <4>3. [kern EXCEPT !.objects = v] = Kern(kern.table, kern.sets, kern.rules, v)
        <5> HIDE DEF v
        <5> QED BY <1>1, KernExcept
      <4>4. o = v
        BY <4>2
      <4> HIDE DEF o, type
      <4> QED BY <1>1, <4>1, <4>2, <4>3, <4>4
    <3>2. CASE ~NewObj(n)
      <4>1. Commit([kern EXCEPT !.objects = @ \ {n}], <<Plain("delobj", n)>>)
        BY <1>3, <3>2 DEF DelObj
      <4>2. o = kern.objects \ {n} /\ type = "delobj"
        BY <3>2
      <4> DEFINE v == kern.objects \ {n}
      <4>3. [kern EXCEPT !.objects = v] = Kern(kern.table, kern.sets, kern.rules, v)
        <5> HIDE DEF v
        <5> QED BY <1>1, KernExcept
      <4>4. o = v
        BY <4>2
      <4> HIDE DEF o, type
      <4> QED BY <1>1, <3>2, <4>1, <4>2, <4>3, <4>4
    <3> QED BY <3>1, <3>2
  <2>2. type \in {"newobj", "delobj"} /\ (type = "newobj" <=> NewObj(n))
    OBVIOUS
  <2>3. n \in o <=> type = "newobj"
    BY <2>2
  <2>4. Shape(kern.table, kern.sets, kern.rules, o) /\ \A m : m # n => (m \in o <=> m \in kern.objects)
    BY <1>1 DEF Shape
  <2> HIDE DEF type, o
  <2>5. e \in Message /\ e.type = type /\ e.name = n
    BY <2>2, EventIs DEF Plain, Types
  <2> HIDE DEF e, k
  <2>6. ASSUME NEW x \in Names \cup Objects, NEW b \in Fine,
               Shows(kern.table, DOMAIN kern.sets, kern.objects, x, b)
        PROVE  \E d \in Fine : Moves(x, b, e, d) /\ (d.lost \/ Shows(kern.table, DOMAIN kern.sets, o, x, d))
    <3>1. CASE x # n
      <4>1. Moves(x, b, e, b)
        BY <2>2, <2>5, <2>6, <3>1 DEF Moves, OfTable, Shows
      <4>2. Shows(kern.table, DOMAIN kern.sets, o, x, b)
        BY <2>4, <2>6, <3>1 DEF Shows
      <4> QED BY <4>1, <4>2
    <3>2. ASSUME x = n, NEW v \in BOOLEAN, v <=> type = "newobj"
          PROVE  \E d \in Fine : Moves(x, b, e, d) /\ (d.lost \/ Shows(kern.table, DOMAIN kern.sets, o, x, d))
      <4> DEFINE d == Now(b.table, b.has, v, b.els, b.half)
      <4>1. IsNow(d, b.table, b.has, v, b.els, b.half)
        <5>1. b.table \in BOOLEAN /\ b.has \in BOOLEAN /\ b.els \in SUBSET Mark /\ b.half \in SUBSET Mark
          BY FineIs
        <5> QED BY ONLY <5>1, v \in BOOLEAN, NowIs
      <4>2. b.table <=> kern.table
        BY <2>6 DEF Shows
      <4>3. Told(x, b, e, d)
        BY <2>1, <2>2, <2>5, <3>2, <4>2 DEF Told
      <4>4. Moves(x, b, e, d)
        BY <2>2, <2>5, <2>6, <3>2, <4>3 DEF Moves, OfTable, Shows
      <4> HIDE DEF d
      <4>5. d \in Fine /\ Shows(kern.table, DOMAIN kern.sets, o, x, d)
        BY <2>3, <2>6, <3>2, <4>1 DEF Shows, IsNow
      <4> QED BY <4>4, <4>5
    <3>3. \E v \in BOOLEAN : v <=> type = "newobj"
      OBVIOUS
    <3> QED BY <3>1, <3>2, <3>3
  <2> QED BY <2>1, <2>4, <2>5, <2>6, PlainStep DEF k
<1> QED BY <1>2, <1>3

\* The sets of the kernel with one more, or with other elements, or with less.
Wider(s, n, els) == [m \in DOMAIN s \cup {n} |-> IF m = n THEN els ELSE s[m]]
Narrower(s, N) == [m \in DOMAIN s \ N |-> s[m]]

\* A set without ranges has keys only.
KeysOnly(n, els) == ~HasRanges(n) => \A el \in els : el.lo = el.hi

LEMMA WiderShape ==
    ASSUME NEW t, NEW s, NEW r, NEW o, Shape(t, s, r, o), NEW n \in Names, NEW els \in SUBSET Elements, KeysOnly(n, els)
    PROVE  Shape(t, Wider(s, n, els), r, o) /\ DOMAIN Wider(s, n, els) = DOMAIN s \cup {n}
<1> DEFINE w == Wider(s, n, els)
<1>1. /\ DOMAIN w = DOMAIN s \cup {n} /\ w = [m \in DOMAIN w |-> w[m]]
      /\ \A m \in DOMAIN w : w[m] = IF m = n THEN els ELSE s[m]
  BY DEF Wider
<1> HIDE DEF w
<1>2. DOMAIN w \subseteq Names /\ r \subseteq DOMAIN w /\ t \in BOOLEAN /\ o \subseteq Objects
  BY <1>1 DEF Shape
<1>3. \A m \in DOMAIN w : w[m] \subseteq Elements
  BY <1>1 DEF Shape
<1>4. \A m \in DOMAIN w : ~HasRanges(m) => \A el \in w[m] : el.lo = el.hi
  BY <1>1 DEF Shape, KeysOnly
<1>5. Shape(t, w, r, o)
  BY <1>1, <1>2, <1>3, <1>4 DEF Shape
<1> QED BY <1>1, <1>5 DEF w

\* With less.
LEMMA NarrowerShape ==
    ASSUME NEW t, NEW s, NEW r, NEW o, Shape(t, s, r, o), NEW N, NEW q \in SUBSET (DOMAIN s \ N)
    PROVE  Shape(t, Narrower(s, N), q, o) /\ DOMAIN Narrower(s, N) = DOMAIN s \ N
<1> DEFINE w == Narrower(s, N)
<1>1. /\ DOMAIN w = DOMAIN s \ N /\ w = [m \in DOMAIN w |-> w[m]]
      /\ \A m \in DOMAIN w : w[m] = s[m]
  BY DEF Narrower
<1> HIDE DEF w
<1>2. DOMAIN w \subseteq Names /\ q \subseteq DOMAIN w /\ t \in BOOLEAN /\ o \subseteq Objects
  BY <1>1 DEF Shape
<1>3. \A m \in DOMAIN w : w[m] \subseteq Elements
  BY <1>1 DEF Shape
<1>4. \A m \in DOMAIN w : ~HasRanges(m) => \A el \in w[m] : el.lo = el.hi
  BY <1>1 DEF Shape
<1>5. Shape(t, w, q, o)
  BY <1>1, <1>2, <1>3, <1>4 DEF Shape
<1> QED BY <1>1, <1>5 DEF w

\* An event about another name.
LEMMA OtherMoves ==
    ASSUME NEW x, NEW e, ~OfTable(e), e.name # x, NEW b, ~b.lost PROVE Moves(x, b, e, b)
BY DEF Moves

\* An event about the name.
LEMMA ToldMoves ==
    ASSUME NEW x, NEW e, ~OfTable(e), e.name = x, NEW b, ~b.lost, NEW d, Told(x, b, e, d) PROVE Moves(x, b, e, d)
BY DEF Moves

\* Sets with a name, and rules that look one up, come and go.
LEMMA SetCommits ==
    ASSUME MonitorInv, NEW n \in Named, NewSet(n) \/ DelSet(n) \/ NewRule(n) PROVE MonitorInv'
<1> DEFINE T == kern.table
           S == kern.sets
           R == kern.rules
           O == kern.objects
<1>1. KernOK(kern) /\ Shape(T, S, R, O)
  BY DEF MonitorInv, StateInv, KernOK
<1>2. n \in Names /\ n \notin Anonymous
  BY NamesAssumption DEF Names
<1>3. CASE NewSet(n)
  <2> DEFINE w == Wider(S, n, {})
             e == Plain("newset", n)
  <2>1. T /\ Commit([kern EXCEPT !.sets = w], <<e>>)
    BY <1>3 DEF NewSet, With, Wider
  <2>2. Shape(T, w, R, O) /\ DOMAIN w = DOMAIN S \cup {n}
    <3>1. KeysOnly(n, {})
      BY DEF KeysOnly
    <3> QED BY <1>1, <1>2, <3>1, WiderShape
  <2>3. e \in Message /\ e.type = "newset" /\ e.name = n /\ ~OfTable(e)
    BY <1>2, EventIs DEF Plain, Types, OfTable
  <2> HIDE DEF w, e
  <2>4. [kern EXCEPT !.sets = w] = Kern(T, w, R, O)
    BY <1>1, KernExcept
  <2>5. ASSUME NEW x \in Names \cup Objects, NEW b \in Fine, Shows(T, DOMAIN S, O, x, b)
        PROVE  \E d \in Fine : Moves(x, b, e, d) /\ (d.lost \/ Shows(T, DOMAIN w, O, x, d))
    <3>1. ~b.lost /\ b.table
      BY <2>1, <2>5 DEF Shows
    <3>2. CASE x # n
      <4>1. Shows(T, DOMAIN w, O, x, b)
        BY <2>2, <2>5, <3>2 DEF Shows
      <4> QED BY <2>3, <3>1, <3>2, <4>1, OtherMoves
    <3>3. CASE x = n /\ b.has
      <4>1. Told(x, b, e, b)
        BY <1>2, <2>3, <3>3 DEF Told
      <4>2. Shows(T, DOMAIN w, O, x, b)
        BY <1>2, <2>2, <2>5, <3>3 DEF Shows
      <4> QED BY <2>3, <3>1, <3>3, <4>1, <4>2, ToldMoves
    <3>4. ASSUME x = n, ~b.has, NEW v \in BOOLEAN, v = TRUE
          PROVE  \E d \in Fine : Moves(x, b, e, d) /\ (d.lost \/ Shows(T, DOMAIN w, O, x, d))
      <4> DEFINE d == Now(TRUE, TRUE, b.obj, {}, {})
      <4>1. IsNow(d, v, v, b.obj, {}, {})
        <5>1. b.obj \in BOOLEAN /\ {} \in SUBSET Mark /\ d = Now(v, v, b.obj, {}, {})
          BY <3>4, FineIs
        <5> QED BY <5>1, NowIs
      <4>2. Told(x, b, e, d)
        BY <2>3, <3>1, <3>4 DEF Told
      <4> HIDE DEF d
      <4>3. d \in Fine /\ Shows(T, DOMAIN w, O, x, d)
        BY <1>2, <2>1, <2>5, <3>4, <4>1 DEF Shows, IsNow
      <4> QED BY <2>3, <3>1, <3>4, <4>2, <4>3, ToldMoves
    <3> QED BY <3>2, <3>3, <3>4
  <2> QED BY <2>1, <2>2, <2>3, <2>4, <2>5, PlainStep
<1>4. CASE DelSet(n)
  <2> DEFINE w == Narrower(S, {n})
             e == Plain("delset", n)
  <2>1. n \notin R /\ Commit([kern EXCEPT !.sets = w], <<e>>)
    BY <1>4 DEF DelSet, Without, Narrower
  <2>2. Shape(T, w, R, O) /\ DOMAIN w = DOMAIN S \ {n}
    <3>1. R \in SUBSET (DOMAIN S \ {n})
      BY <1>1, <2>1 DEF Shape
    <3> QED BY <1>1, <3>1, NarrowerShape
  <2>3. e \in Message /\ e.type = "delset" /\ e.name = n /\ ~OfTable(e)
    BY <1>2, EventIs DEF Plain, Types, OfTable
  <2> HIDE DEF w, e
  <2>4. [kern EXCEPT !.sets = w] = Kern(T, w, R, O)
    BY <1>1, KernExcept
  <2>5. ASSUME NEW x \in Names \cup Objects, NEW b \in Fine, Shows(T, DOMAIN S, O, x, b)
        PROVE  \E d \in Fine : Moves(x, b, e, d) /\ (d.lost \/ Shows(T, DOMAIN w, O, x, d))
    <3>1. ~b.lost
      BY <2>5 DEF Shows
    <3>2. Shows(T, DOMAIN w, O, x, b)
      BY <1>2, <2>2, <2>5 DEF Shows
    <3>3. Told(x, b, e, b)
      BY <2>3 DEF Told
    <3> QED BY <2>3, <3>1, <3>2, <3>3, OtherMoves, ToldMoves
  <2> QED BY <2>1, <2>2, <2>3, <2>4, <2>5, PlainStep
<1>5. CASE NewRule(n)
  <2> DEFINE r == R \cup {n}
             e == Event("newrule", n, {}, S[n])
  <2>1. n \in DOMAIN S /\ Commit([kern EXCEPT !.rules = r], <<e>>)
    BY <1>5 DEF NewRule, Has
  <2>2. Shape(T, S, r, O) /\ S[n] \in SUBSET Elements
    BY <1>1, <2>1 DEF Shape
  <2>3. e \in Message /\ e.type = "newrule" /\ e.name = n /\ ~OfTable(e)
    BY <1>2, <2>2, EventIs DEF Types, OfTable
  <2> HIDE DEF r, e
  <2>4. [kern EXCEPT !.rules = r] = Kern(T, S, r, O)
    BY <1>1, KernExcept
  <2>5. ASSUME NEW x \in Names \cup Objects, NEW b \in Fine, Shows(T, DOMAIN S, O, x, b)
        PROVE  \E d \in Fine : Moves(x, b, e, d) /\ (d.lost \/ Shows(T, DOMAIN S, O, x, d))
    <3>1. ~b.lost
      BY <2>5 DEF Shows
    <3>2. x = n => Told(x, b, e, b)
      BY <1>2, <2>3 DEF Told
    <3> QED BY <2>3, <2>5, <3>1, <3>2, OtherMoves, ToldMoves
  <2> QED BY <2>1, <2>2, <2>3, <2>4, <2>5, PlainStep
<1> QED BY <1>3, <1>4, <1>5

\* Rules are deleted, and the sets they brought with them.
LEMMA RuleCommits == ASSUME MonitorInv, NEW n \in Names, DelRule(n) PROVE MonitorInv'
<1> DEFINE T == kern.table
           S == kern.sets
           R == kern.rules
           O == kern.objects
           N == {n} \cap Anonymous
           w == Narrower(S, N)
           r == R \ {n}
           e == Plain("delrule", n)
<1>1. KernOK(kern) /\ Shape(T, S, R, O)
  BY DEF MonitorInv, StateInv, KernOK
<1>2. n \in R /\ Commit([kern EXCEPT !.rules = r, !.sets = w], <<e>>)
  BY DEF DelRule, Without, Narrower
<1>3. Shape(T, w, r, O) /\ DOMAIN w = DOMAIN S \ N /\ n \in DOMAIN S
  <2>1. r \in SUBSET (DOMAIN S \ N) /\ n \in DOMAIN S
    BY <1>1, <1>2 DEF Shape
  <2> QED BY <1>1, <2>1, NarrowerShape
<1>4. e \in Message /\ e.type = "delrule" /\ e.name = n /\ ~OfTable(e)
  BY EventIs DEF Plain, Types, OfTable
<1> HIDE DEF w, r, e
<1>5. [kern EXCEPT !.rules = r, !.sets = w] = Kern(T, w, r, O)
  BY <1>1, KernExcept
<1>6. ASSUME NEW x \in Names \cup Objects, NEW b \in Fine, Shows(T, DOMAIN S, O, x, b)
      PROVE  \E d \in Fine : Moves(x, b, e, d) /\ (d.lost \/ Shows(T, DOMAIN w, O, x, d))
  <2>1. ~b.lost
    BY <1>6 DEF Shows
  <2>2. CASE x # n
    <3>1. Shows(T, DOMAIN w, O, x, b)
      BY <1>3, <1>6, <2>2 DEF Shows
    <3> QED BY <1>4, <2>1, <2>2, <3>1, OtherMoves
  <2>3. CASE x = n /\ n \in Named
    <3>1. Told(x, b, e, Gone)
      BY <1>4, <2>3 DEF Told
    <3>2. Gone \in Fine /\ Gone.lost
      BY DEF Gone, Fine, State
    <3> QED BY <1>4, <2>1, <2>3, <3>1, <3>2, ToldMoves
  <2>4. ASSUME x = n, n \notin Named, NEW v \in BOOLEAN, v = FALSE
        PROVE  \E d \in Fine : Moves(x, b, e, d) /\ (d.lost \/ Shows(T, DOMAIN w, O, x, d))
    <3> DEFINE d == Now(b.table, FALSE, b.obj, {}, {})
    <3>1. n \in Anonymous /\ b.has
      BY <1>3, <1>6, <2>4 DEF Names, Shows
    <3>2. IsNow(d, b.table, v, b.obj, {}, {})
      <4>1. b.table \in BOOLEAN /\ b.obj \in BOOLEAN /\ {} \in SUBSET Mark /\ d = Now(b.table, v, b.obj, {}, {})
        BY <2>4, FineIs
      <4> QED BY <4>1, NowIs
    <3>3. Told(x, b, e, d)
      BY <1>4, <2>4, <3>1 DEF Told
    <3> HIDE DEF d
    <3>4. d \in Fine /\ Shows(T, DOMAIN w, O, x, d)
      BY <1>3, <1>6, <2>4, <3>1, <3>2 DEF Shows, IsNow
    <3> QED BY <1>4, <2>1, <2>4, <3>3, <3>4, ToldMoves
  <2> QED BY <2>2, <2>3, <2>4
<1> QED BY <1>2, <1>3, <1>4, <1>5, <1>6, PlainStep

-----------------------------------------------------------------------------
(***************************************************************************)
(* Elements.                                                               *)
(***************************************************************************)
\* One interval and its ends.
LEMMA OneSpan ==
    ASSUME NEW s \in Spans
    PROVE  /\ s.hi = MaxKey => Decompose({Start(s.lo)}) = {s}
           /\ s.hi < MaxKey => Decompose({Start(s.lo), End(s.hi + 1)}) = {s}
<1>1. {s} \in SUBSET Spans /\ Disjoint({s})
  BY DEF Disjoint
<1>2. s.hi \in 0..MaxKey /\ Start(s.lo) \in Ends({s}) /\ (s.hi < MaxKey => End(s.hi + 1) \in Ends({s}))
  BY DEF Spans, Ends
<1>3. ASSUME s.hi = MaxKey PROVE Decompose({Start(s.lo)}) = {s}
  <2> DEFINE E == {Start(s.lo)}
  <2>1. E \in SUBSET (Ends({s}) \cup {End(0)})
    BY <1>2
  <2>2. \A r \in {s} : Start(r.lo) \in E /\ (r.hi < MaxKey => {Start(r.hi + 1), End(r.hi + 1)} \cap E # {})
    BY <1>3, KeyAssumption
  <2> HIDE DEF E
  <2>3. Decompose(E) = {s}
    BY <1>1, <2>1, <2>2, DecomposesToItself
  <2> QED BY <2>3 DEF E
<1>4. ASSUME s.hi < MaxKey PROVE Decompose({Start(s.lo), End(s.hi + 1)}) = {s}
  <2> DEFINE E == {Start(s.lo), End(s.hi + 1)}
  <2>1. E \in SUBSET (Ends({s}) \cup {End(0)})
    BY <1>2, <1>4
  <2>2. \A r \in {s} : Start(r.lo) \in E /\ (r.hi < MaxKey => {Start(r.hi + 1), End(r.hi + 1)} \cap E # {})
    OBVIOUS
  <2> HIDE DEF E
  <2>3. Decompose(E) = {s}
    BY <1>1, <2>1, <2>2, DecomposesToItself
  <2> QED BY <2>3 DEF E
<1> QED BY <1>3, <1>4

ElemOf(type, n) == {e \in Message : e.type = type /\ e.name = n}

\* What may be an element.
LEMMA ElementIs ==
    ASSUME NEW el \in Elements
    PROVE  /\ el.lo \in Int /\ el.hi \in Int /\ Start(el.lo) \in Mark /\ End(el.hi + 1) \in Mark
           /\ el.hi + 1 # 0 \/ el = CatchAll
           /\ el.lo = el.hi => el = [lo |-> el.lo, hi |-> el.lo]
           /\ el # CatchAll => el \in Spans
<1>1. CASE el = CatchAll
  BY <1>1 DEF CatchAll, Start, End, Mark
<1>2. CASE el \in Spans
  BY <1>2, KeyAssumption DEF Spans, Start, End, Mark
<1> QED BY <1>1, <1>2 DEF Elements

\* The messages for one element: p for its start and q for its end.
Pair(type, n, list, i, p, q) ==
    /\ p \in ElemOf(type, n) /\ p.el = {Start(list[i].lo)} /\ p.about = {list[i]}
    /\ q \in ElemOf(type, n) /\ q.el = {End(list[i].hi + 1)} /\ q.about = {list[i]}
    /\ Halves(type, n, list, i) = IF HasEnd(n, list, i) THEN <<p>> \o <<q>> ELSE <<p>>

\* Those are the messages for one element.
LEMMA HalvesAre ==
    ASSUME NEW n \in Names, NEW type \in {"newelem", "delelem"}, NEW list \in Seq(Elements), NEW i \in DOMAIN list
    PROVE  /\ \E p, q : Pair(type, n, list, i, p, q)
           /\ Halves(type, n, list, i) \in Seq(ElemOf(type, n))
<1> DEFINE el == list[i]
           p == Event(type, n, {Start(el.lo)}, {el})
           q == Event(type, n, {End(el.hi + 1)}, {el})
<1>1. el \in Elements
  OBVIOUS
<1>2. {Start(el.lo)} \in SUBSET Mark /\ {End(el.hi + 1)} \in SUBSET Mark /\ {el} \in SUBSET Elements
  BY <1>1, ElementIs
<1> HIDE DEF el
<1>3. type \in Types /\ type \notin {"newtable", "deltable", "newobj", "delobj"}
  BY DEF Types
<1>4. /\ p \in Message /\ q \in Message /\ p.type = type /\ q.type = type /\ p.name = n /\ q.name = n
      /\ p.el = {Start(el.lo)} /\ p.about = {el} /\ q.el = {End(el.hi + 1)} /\ q.about = {el}
  BY <1>2, <1>3, EventIs
<1>5. Halves(type, n, list, i) = <<p>> \o (IF HasEnd(n, list, i) THEN <<q>> ELSE <<>>)
  BY DEF Halves, el
<1> HIDE DEF p, q
<1>6. p \in ElemOf(type, n) /\ q \in ElemOf(type, n)
  BY <1>4 DEF ElemOf
<1>7. Halves(type, n, list, i) = IF HasEnd(n, list, i) THEN <<p>> \o <<q>> ELSE <<p>>
  <2>1. <<p>> \o <<>> = <<p>>
    OBVIOUS
  <2> QED BY <1>5, <2>1
<1>8. Pair(type, n, list, i, p, q)
  BY <1>4, <1>6, <1>7 DEF Pair, el
<1>9. Halves(type, n, list, i) \in Seq(ElemOf(type, n))
  <2>1. <<p>> \in Seq(ElemOf(type, n)) /\ <<q>> \in Seq(ElemOf(type, n))
    BY <1>6
  <2>2. <<p>> \o <<q>> \in Seq(ElemOf(type, n))
    BY <2>1
  <2> QED BY <1>7, <2>1, <2>2
<1> QED BY <1>8, <1>9

\* The messages for all of them.
LEMMA MessagesAre ==
    ASSUME NEW n \in Names, NEW type \in {"newelem", "delelem"}, NEW list \in Seq(Elements), NEW first \in BOOLEAN
    PROVE  LET z == Event(type, n, {End(0)}, {})
               ss == [i \in DOMAIN list |-> Halves(type, n, list, i)]
           IN  /\ z \in ElemOf(type, n) /\ z.el = {End(0)} /\ z.about = {}
               /\ ss \in Seq(Seq(ElemOf(type, n))) /\ DOMAIN ss = DOMAIN list
               /\ FlattenSeq(ss) \in Seq(ElemOf(type, n))
               /\ Messages(type, n, list, first) = IF first THEN <<z>> \o FlattenSeq(ss) ELSE <<>> \o FlattenSeq(ss)
               /\ Messages(type, n, list, first) \in Seq(ElemOf(type, n))
<1> DEFINE z == Event(type, n, {End(0)}, {})
           ss == [i \in DOMAIN list |-> Halves(type, n, list, i)]
           E == ElemOf(type, n)
<1>1. {End(0)} \in SUBSET Mark /\ {} \in SUBSET Elements
  BY DEF End, Mark
<1>2. type \in Types /\ type \notin {"newtable", "deltable", "newobj", "delobj"}
  BY DEF Types
<1>3. z \in Message /\ z.type = type /\ z.name = n /\ z.el = {End(0)} /\ z.about = {}
  BY <1>1, <1>2, EventIs
<1> HIDE DEF z
<1>4. z \in E
  BY <1>3 DEF ElemOf
<1>5. ss \in Seq(Seq(E)) /\ DOMAIN ss = DOMAIN list
  <2>1. \A i \in DOMAIN list : Halves(type, n, list, i) \in Seq(E)
    BY HalvesAre
  <2> HIDE DEF E
  <2> QED BY <2>1
<1>6. Messages(type, n, list, first) = IF first THEN <<z>> \o FlattenSeq(ss) ELSE <<>> \o FlattenSeq(ss)
  BY DEF Messages, z
<1> HIDE DEF ss, E
<1>7. FlattenSeq(ss) \in Seq(E)
  BY <1>5, FlattenType
<1>8. Messages(type, n, list, first) \in Seq(E)
  BY <1>4, <1>6, <1>7
<1> QED BY <1>3, <1>4, <1>5, <1>6, <1>7, <1>8 DEF z, ss, E

\* No half of a range waits, and the rest is as it was.
Whole(t, o) == {c \in Fine : c.lost \/ (c.has /\ c.half = {} /\ (c.table <=> t) /\ (c.obj <=> o))}

\* An event of elements, read in such a state.
LEMMA ElemMoves ==
    ASSUME NEW n \in Named, NEW type \in {"newelem", "delelem"}, NEW e \in ElemOf(type, n),
           NEW c \in Fine, ~c.lost, c.has, PrintedRight(n, c, e)
    PROVE  \E d \in Fine :
               /\ Moves(n, c, e, d)
               /\ d.lost \/ (d.has /\ d.half = HalfAfter(n, c, e) /\ (d.table <=> c.table) /\ (d.obj <=> c.obj))
               /\ n \in Ranged /\ e.el # {End(0)} /\ CatchAll \in e.about => d.lost
<1> DEFINE d == IF n \in Ranged /\ e.el # {End(0)} /\ CatchAll \in e.about THEN Gone
                ELSE Now(c.table, TRUE, c.obj, ElsAfter(c, e), HalfAfter(n, c, e))
<1>1. e \in Message /\ e.type = type /\ e.name = n /\ ~OfTable(e)
  BY DEF ElemOf, OfTable
<1>2. Told(n, c, e, d)
  BY <1>1 DEF Told
<1> HIDE DEF d
<1>3. Moves(n, c, e, d)
  BY <1>1, <1>2, ToldMoves
<1>4. Gone \in Fine /\ Gone.lost
  BY DEF Gone, Fine, State
<1>5. ASSUME NEW v \in BOOLEAN, v = TRUE, d = Now(c.table, v, c.obj, ElsAfter(c, e), HalfAfter(n, c, e))
      PROVE  d \in Fine /\ d.has /\ d.half = HalfAfter(n, c, e) /\ (d.table <=> c.table) /\ (d.obj <=> c.obj)
  <2>1. c.table \in BOOLEAN /\ c.obj \in BOOLEAN /\ c.els \in SUBSET Mark /\ c.half \in SUBSET Mark
    BY FineIs
  <2>2. e.el \in SUBSET Mark
    BY <1>1 DEF Message
  <2>3. ElsAfter(c, e) \in SUBSET Mark /\ HalfAfter(n, c, e) \in SUBSET Mark
    BY <2>1, <2>2 DEF ElsAfter, HalfAfter
  <2>4. IsNow(d, c.table, v, c.obj, ElsAfter(c, e), HalfAfter(n, c, e))
    BY <1>5, <2>1, <2>3, NowIs
  <2> QED BY <1>5, <2>4 DEF IsNow
<1>6. IF n \in Ranged /\ e.el # {End(0)} /\ CatchAll \in e.about THEN d = Gone
      ELSE d = Now(c.table, TRUE, c.obj, ElsAfter(c, e), HalfAfter(n, c, e))
  BY DEF d
<1> QED BY <1>3, <1>4, <1>5, <1>6

\* The events of one element lead from such a state to such a state.
LEMMA HalvesLead ==
    ASSUME NEW n \in Named, NEW type \in {"newelem", "delelem"}, NEW list \in Seq(Elements), NEW i \in DOMAIN list,
           HasRanges(n) \/ list[i].lo = list[i].hi, NEW t, NEW o, NEW c \in Whole(t, o)
    PROVE  \E d \in Whole(t, o) : Leads(n, Halves(type, n, list, i), c, d)
<1> DEFINE el == list[i]
           hs == Halves(type, n, list, i)
<1>1. n \in Names /\ n \notin Anonymous /\ el \in Elements
  BY NamesAssumption DEF Names
<1>0. hs \in Seq(ElemOf(type, n)) /\ \E p, q : Pair(type, n, list, i, p, q)
  BY <1>1, HalvesAre
<1>00. PICK p, q : Pair(type, n, list, i, p, q)
  BY <1>0
<1>2. /\ p \in ElemOf(type, n) /\ q \in ElemOf(type, n)
      /\ p.el = {Start(el.lo)} /\ p.about = {el} /\ q.el = {End(el.hi + 1)} /\ q.about = {el}
      /\ hs = IF HasEnd(n, list, i) THEN <<p>> \o <<q>> ELSE <<p>>
  BY <1>00 DEF Pair
<1>3. HasEnd(n, list, i) <=> n \in Ranged /\ el # CatchAll /\ el.hi < MaxKey
  BY <1>1 DEF HasEnd, HasRanges
<1>4. p.el # {End(0)}
  <2>1. Start(el.lo).end = FALSE /\ End(0).end = TRUE
    BY DEF Start, End
  <2> QED BY <1>2, <2>1
<1>5. /\ el.lo \in Int /\ el.hi \in Int /\ (el.hi + 1 # 0 \/ el = CatchAll)
      /\ (el.lo = el.hi => el = [lo |-> el.lo, hi |-> el.lo])
      /\ (el # CatchAll => el \in Spans)
  BY <1>1, ElementIs
<1> HIDE DEF el, hs
<1>6. CASE c.lost
  <2>1. c = Gone
    BY <1>6 DEF Whole, Fine
  <2> QED BY <1>0, <2>1, LeadsGone DEF hs
<1>7. CASE ~c.lost
  <2>1. c \in Fine /\ c.has /\ c.half = {} /\ (c.table <=> t) /\ (c.obj <=> o)
    BY <1>7 DEF Whole
  <2>2. OpenAt(p) <=> el.hi = MaxKey
    BY <1>2 DEF OpenAt
  <2>3. PrintedRight(n, c, p)
    <3>1. ASSUME n \notin Ranged PROVE {[lo |-> m.key, hi |-> m.key] : m \in p.el} = p.about
      <4>1. el.lo = el.hi
        BY <1>1, <3>1 DEF HasRanges, el
      <4>2. Start(el.lo).key = el.lo
        BY DEF Start
      <4> QED BY <1>2, <1>5, <4>1, <4>2
    <3>2. ASSUME CatchAll \notin p.about, OpenAt(p) PROVE Decompose(c.half \cup p.el) = p.about
      <4>1. el \in Spans /\ el.hi = MaxKey
        BY <1>2, <1>5, <2>2, <3>2
      <4>2. Decompose({Start(el.lo)}) = {el}
        BY <4>1, OneSpan
      <4> QED BY <1>2, <2>1, <4>2
    <3> QED BY <1>4, <2>1, <3>1, <3>2 DEF PrintedRight
  <2>4. PICK d \in Fine :
            /\ Moves(n, c, p, d)
            /\ d.lost \/ (d.has /\ d.half = HalfAfter(n, c, p) /\ (d.table <=> c.table) /\ (d.obj <=> c.obj))
            /\ n \in Ranged /\ CatchAll \in p.about => d.lost
    <3>1. Gone.lost
      BY DEF Gone
    <3> QED BY <1>2, <1>4, <1>7, <2>1, <2>3, <3>1, ElemMoves
  <2>5. c \in State /\ d \in State
    BY <2>1, FineIs
  <2>6. Leads(n, <<p>>, c, d)
    BY <2>4, <2>5, LeadsOne
  <2>7. CASE ~HasEnd(n, list, i)
    <3>1. n \in Ranged => OpenAt(p) \/ d.lost
      <4>1. el \in Spans => el.hi \in 0..MaxKey
        BY DEF Spans
      <4>2. el \in Spans /\ ~(el.hi < MaxKey) => el.hi = MaxKey
        BY <4>1, KeyAssumption
      <4> QED BY <1>2, <1>3, <1>5, <2>2, <2>4, <2>7, <4>2
    <3>2. ~d.lost => d.half = {}
      BY <2>1, <2>4, <3>1 DEF HalfAfter
    <3>3. d \in Whole(t, o)
      BY <2>1, <2>4, <3>2 DEF Whole
    <3> QED BY <1>2, <2>6, <2>7, <3>3 DEF hs
  <2>8. CASE HasEnd(n, list, i)
    <3>1. n \in Ranged /\ el \in Spans /\ el.hi < MaxKey /\ ~OpenAt(p) /\ ~OpenAt(q)
      <4>1. n \in Ranged /\ el \in Spans /\ el.hi < MaxKey
        BY <1>3, <1>5, <2>8
      <4>2. el.hi # MaxKey
        BY <1>5, <4>1, KeyAssumption
      <4> QED BY <1>2, <2>2, <4>1, <4>2 DEF OpenAt
    <3>2. q.el # {End(0)}
      <4>1. End(el.hi + 1).key = el.hi + 1 /\ End(0).key = 0
        BY DEF End
      <4> QED BY <1>2, <1>3, <1>5, <2>8, <4>1
    <3>3. CASE d.lost
      <4>1. d = Gone /\ <<q>> \in Seq(ElemOf(type, n)) /\ <<p>> \in Seq(ElemOf(type, n))
        BY <1>2, <3>3 DEF Fine
      <4>2. Leads(n, <<q>>, d, d)
        BY <4>1, LeadsGone
      <4>3. Leads(n, <<p>> \o <<q>>, c, d)
        BY <2>6, <4>1, <4>2, LeadsJoin
      <4>4. <<p>> \o <<q>> = hs
        BY <1>2, <2>8
      <4> QED BY <3>3, <4>3, <4>4 DEF Whole, hs
    <3>4. CASE ~d.lost
      <4>1. d.has /\ d.half = {Start(el.lo)} /\ (d.table <=> t) /\ (d.obj <=> o)
        BY <1>2, <1>4, <2>1, <2>4, <3>1, <3>4 DEF HalfAfter
      <4>2. PrintedRight(n, d, q)
        <5>1. Decompose(d.half \cup q.el) = q.about
          <6>1. Decompose({Start(el.lo), End(el.hi + 1)}) = {el}
            BY <3>1, OneSpan
          <6>2. d.half \cup q.el = {Start(el.lo), End(el.hi + 1)}
            BY <1>2, <4>1
          <6> QED BY <1>2, <6>1, <6>2
        <5> QED BY <3>1, <5>1 DEF PrintedRight
      <4>3. HalfAfter(n, d, q) = {}
        BY <3>1, <3>2, <4>1 DEF HalfAfter
      <4>4. PICK f \in Fine :
                /\ Moves(n, d, q, f)
                /\ f.lost \/ (f.has /\ f.half = HalfAfter(n, d, q) /\ (f.table <=> d.table) /\ (f.obj <=> d.obj))
        BY <1>2, <3>4, <4>1, <4>2, ElemMoves
      <4>5. f \in Whole(t, o) /\ f \in State
        BY <4>1, <4>3, <4>4, FineIs DEF Whole
      <4>6. Leads(n, <<q>>, d, f)
        BY <2>5, <4>4, <4>5, LeadsOne
      <4>7. <<q>> \in Seq(ElemOf(type, n)) /\ <<p>> \in Seq(ElemOf(type, n))
        BY <1>2
      <4>8. Leads(n, <<p>> \o <<q>>, c, f)
        BY <2>6, <4>6, <4>7, LeadsJoin
      <4>9. <<p>> \o <<q>> = hs
        BY <1>2, <2>8
      <4> QED BY <4>5, <4>8, <4>9 DEF hs
    <3> QED BY <3>3, <3>4
  <2> QED BY <2>7, <2>8
<1> QED BY <1>6, <1>7

\* So do those of a list of them.
LEMMA MessagesLead ==
    ASSUME NEW n \in Named, NEW type \in {"newelem", "delelem"}, NEW list \in Seq(Elements), NEW first \in BOOLEAN,
           HasRanges(n) \/ \A i \in DOMAIN list : list[i].lo = list[i].hi, NEW t, NEW o, NEW c \in Whole(t, o)
    PROVE  \E d \in Whole(t, o) : Leads(n, Messages(type, n, list, first), c, d)
<1> DEFINE E == ElemOf(type, n)
           W == Whole(t, o)
           z == Event(type, n, {End(0)}, {})
           ss == [i \in DOMAIN list |-> Halves(type, n, list, i)]
<1>1. n \in Names
  BY DEF Names
<1>2. /\ z \in E /\ z.el = {End(0)} /\ z.about = {}
      /\ ss \in Seq(Seq(E)) /\ DOMAIN ss = DOMAIN list /\ FlattenSeq(ss) \in Seq(E)
      /\ Messages(type, n, list, first) = IF first THEN <<z>> \o FlattenSeq(ss) ELSE <<>> \o FlattenSeq(ss)
  BY <1>1, MessagesAre
<1>3. ASSUME NEW i \in DOMAIN ss, NEW b \in W PROVE \E d \in W : Leads(n, ss[i], b, d)
  <2>1. i \in DOMAIN list /\ (HasRanges(n) \/ list[i].lo = list[i].hi)
    BY <1>2
  <2>2. \E d \in Whole(t, o) : Leads(n, Halves(type, n, list, i), b, d)
    BY <2>1, HalvesLead
  <2> QED BY <2>1, <2>2
<1>4. W \in SUBSET State
  BY DEF Whole, Fine
<1> HIDE DEF z, ss, W, E
<1>5. ASSUME NEW b \in W PROVE \E d \in W : Leads(n, FlattenSeq(ss), b, d)
  BY <1>2, <1>3, <1>4, LeadsFlat
<1>6. CASE ~first
  <2>1. <<>> \o FlattenSeq(ss) = FlattenSeq(ss)
    BY <1>2
  <2> QED BY <1>2, <1>5, <1>6, <2>1 DEF W
<1>7. CASE first
  <2>1. \E b \in W : Leads(n, <<z>>, c, b)
    <3>1. CASE c.lost
      <4>1. c = Gone /\ <<z>> \in Seq(E)
        BY <1>2, <3>1 DEF Whole, Fine
      <4> QED BY <4>1, LeadsGone DEF W
    <3>2. CASE ~c.lost
      <4>1. c \in Fine /\ c.has /\ c.half = {} /\ (c.table <=> t) /\ (c.obj <=> o)
        BY <3>2 DEF Whole
      <4>2. PrintedRight(n, c, z) /\ HalfAfter(n, c, z) = {}
        BY <1>2, <4>1 DEF PrintedRight, HalfAfter
      <4>3. z \in ElemOf(type, n)
        BY <1>2 DEF E
      <4>4. PICK d \in Fine :
                /\ Moves(n, c, z, d)
                /\ d.lost \/ (d.has /\ d.half = HalfAfter(n, c, z) /\ (d.table <=> c.table) /\ (d.obj <=> c.obj))
        BY <3>2, <4>1, <4>2, <4>3, ElemMoves
      <4>5. d \in W /\ d \in State /\ c \in State
        BY <4>1, <4>2, <4>4, FineIs DEF W, Whole
      <4> QED BY <4>4, <4>5, LeadsOne
    <3> QED BY <3>1, <3>2
  <2>2. PICK b \in W : Leads(n, <<z>>, c, b)
    BY <2>1
  <2>3. PICK d \in W : Leads(n, FlattenSeq(ss), b, d)
    BY <1>5
  <2>4. <<z>> \in Seq(E)
    BY <1>2
  <2>5. Leads(n, <<z>> \o FlattenSeq(ss), c, d)
    BY <1>2, <2>2, <2>3, <2>4, LeadsJoin
  <2> QED BY <1>2, <1>7, <2>5 DEF W
<1> QED BY <1>6, <1>7

\* Elements of sets with a name are added and deleted.
LEMMA ElementCommits ==
    ASSUME MonitorInv, NEW n \in Named, NEW list \in Given, NewElements(n, list) \/ DelElements(n, list)
    PROVE  MonitorInv'
<1> DEFINE T == kern.table
           S == kern.sets
           R == kern.rules
           O == kern.objects
<1>1. KernOK(kern) /\ Shape(T, S, R, O)
  BY DEF MonitorInv, StateInv, KernOK
<1>2. n \in Names /\ n \notin Anonymous /\ list \in Seq(Elements) /\ n \in DOMAIN S
  BY NamesAssumption, GivenAssumption DEF Names, NewElements, DelElements, Has, Elements
<1>3. S[n] \in SUBSET Elements /\ (~HasRanges(n) => \A el \in S[n] : el.lo = el.hi)
  BY <1>1, <1>2 DEF Shape
<1>4. ToSet(list) \in SUBSET Elements /\ \A i \in DOMAIN list : list[i] \in ToSet(list)
  BY <1>2 DEF ToSet
<1>5. ASSUME NEW type \in {"newelem", "delelem"}, NEW first \in BOOLEAN, NEW els \in SUBSET Elements,
             ~HasRanges(n) => \A el \in els \cup ToSet(list) : el.lo = el.hi,
             Commit([kern EXCEPT !.sets = Wider(S, n, els)], Messages(type, n, list, first))
      PROVE  MonitorInv'
  <2> DEFINE w == Wider(S, n, els)
             k == Kern(T, w, R, O)
             sent == Messages(type, n, list, first)
  <2>1. Shape(T, w, R, O) /\ DOMAIN w = DOMAIN S
    <3>1. KeysOnly(n, els)
      BY <1>5 DEF KeysOnly
    <3>2. Shape(T, w, R, O) /\ DOMAIN w = DOMAIN S \cup {n}
      BY <1>1, <1>2, <3>1, WiderShape
    <3> QED BY <1>2, <3>2
  <2> HIDE DEF w
  <2>2. Commit(k, sent)
    <3>1. [kern EXCEPT !.sets = w] = k
      BY <1>1, KernExcept
    <3> QED BY <1>5, <3>1 DEF w
  <2>3. sent \in Seq(ElemOf(type, n))
    BY <1>2, MessagesAre
  <2>4. KernOK(k) /\ \A x, b : Current(k, x, b) <=> Shows(T, DOMAIN w, O, x, b)
    BY <2>1, KernIs
  <2>5. \A c \in Whole(T, n \in O) : \E d \in Whole(T, n \in O) : Leads(n, sent, c, d)
    <3>1. HasRanges(n) \/ \A i \in DOMAIN list : list[i].lo = list[i].hi
      BY <1>4, <1>5
    <3> QED BY <1>2, <3>1, MessagesLead
  <2> HIDE DEF k, sent
  <2>6. ASSUME NEW x \in Names \cup Objects, NEW b \in Fine, Current(kern, x, b)
        PROVE  \E d \in Fine : Leads(x, sent, b, d) /\ (d.lost \/ Current(k, x, d))
    <3>1. Shows(T, DOMAIN S, O, x, b)
      BY <2>6 DEF Current
    <3>2. CASE x # n
      <4>1. \A i \in DOMAIN sent : Aside(x, sent[i])
        <5>1. \A i \in DOMAIN sent : sent[i] \in ElemOf(type, n)
          BY <2>3
        <5> QED BY <3>2, <5>1 DEF ElemOf, Aside, OfTable
      <4>2. Leads(x, sent, b, b)
        BY <2>3, <4>1, LeadsAside
      <4> QED BY <2>1, <2>4, <3>1, <4>2
    <3>3. CASE x = n
      <4>1. b \in Whole(T, n \in O)
        BY <1>2, <3>1, <3>3 DEF Shows, Whole
      <4>2. PICK d \in Whole(T, n \in O) : Leads(n, sent, b, d)
        BY <2>5, <4>1
      <4>3. d \in Fine /\ (d.lost \/ Shows(T, DOMAIN w, O, x, d))
        BY <1>2, <3>3 DEF Whole, Shows
      <4> QED BY <2>4, <3>3, <4>2, <4>3
    <3> QED BY <3>2, <3>3
  <2>7. sent \in Seq(Message)
    <3>1. ElemOf(type, n) \subseteq Message
      BY DEF ElemOf
    <3> QED BY <2>3, <3>1
  <2>8. Follows(kern, k, sent)
    BY <2>6 DEF Follows
  <2> QED BY <2>2, <2>4, <2>7, <2>8, CommitStep
<1>6. CASE NewElements(n, list)
  <2> DEFINE els == S[n] \cup ToSet(list)
             first == n \in Ranged /\ kern.sets[n] = {} /\ list[1] # CatchAll /\ list[1].lo # 0
  <2>1. /\ HasRanges(n) \/ \A x \in ToSet(list) : x.lo = x.hi
        /\ Commit([kern EXCEPT !.sets = Wider(S, n, els)], Messages("newelem", n, list, first))
    BY <1>6 DEF NewElements, With, Wider
  <2>2. els \in SUBSET Elements /\ (~HasRanges(n) => \A el \in els \cup ToSet(list) : el.lo = el.hi)
    BY <1>3, <1>4, <2>1
  <2>3. first \in BOOLEAN
    OBVIOUS
  <2> HIDE DEF els, first
  <2> QED BY <1>5, <2>1, <2>2, <2>3
<1>7. CASE DelElements(n, list)
  <2> DEFINE els == S[n] \ ToSet(list)
  <2>1. /\ ToSet(list) \subseteq S[n]
        /\ Commit([kern EXCEPT !.sets = Wider(S, n, els)], Messages("delelem", n, list, FALSE))
    BY <1>7 DEF DelElements, With, Wider
  <2>2. els \in SUBSET Elements /\ (~HasRanges(n) => \A el \in els \cup ToSet(list) : el.lo = el.hi)
    BY <1>3, <1>4, <2>1
  <2>3. FALSE \in BOOLEAN
    OBVIOUS
  <2> HIDE DEF els
  <2> QED BY <1>5, <2>1, <2>2, <2>3
<1> QED BY <1>6, <1>7
-----------------------------------------------------------------------------
(***************************************************************************)
(* A rule and the set it brings.                                           *)
(***************************************************************************)
\* The events of the elements of a rule's own set have the ends of just these.
LEMMA OwnElements ==
    ASSUME NEW n \in Anonymous, NEW list \in Seq(Spans), Apart(ToSet(list)), NEW first \in BOOLEAN,
           NEW q, q = Messages("newelem", n, list, first)
    PROVE  q \in Seq(ElemOf("newelem", n)) /\ Decompose(UNION {q[k].el : k \in DOMAIN q}) = ToSet(list)
<1> DEFINE S == ToSet(list)
           M == Ends(S) \cup {End(0)}
           X == {e \in ElemOf("newelem", n) : e.el \subseteq M}
           z == Event("newelem", n, {End(0)}, {})
           ss == [i \in DOMAIN list |-> Halves("newelem", n, list, i)]
           E == UNION {q[k].el : k \in DOMAIN q}
<1>1. n \in Names /\ list \in Seq(Elements) /\ HasRanges(n) /\ "newelem" \in {"newelem", "delelem"}
  BY DEF Names, HasRanges, Elements
<1>2. /\ z \in ElemOf("newelem", n) /\ z.el = {End(0)} /\ DOMAIN ss = DOMAIN list
      /\ q = IF first THEN <<z>> \o FlattenSeq(ss) ELSE <<>> \o FlattenSeq(ss)
      /\ q \in Seq(ElemOf("newelem", n))
  BY <1>1, MessagesAre
<1>3. /\ S \in SUBSET Spans /\ S = {list[i] : i \in DOMAIN list} /\ Disjoint(S)
      /\ \A i \in DOMAIN list : list[i] \in S /\ list[i] \in Spans /\ list[i] # CatchAll
  <2>1. S = {list[i] : i \in DOMAIN list}
    BY DEF ToSet
  <2>2. CatchAll \notin Spans
    BY DEF CatchAll, Spans
  <2>3. Disjoint(S)
    BY DEF Disjoint, Apart
  <2>4. \A i \in DOMAIN list : list[i] \in Spans
    OBVIOUS
  <2> QED BY <2>1, <2>2, <2>3, <2>4
<1>4. ASSUME NEW i \in DOMAIN list
      PROVE  /\ ss[i] \in Seq(X)
             /\ \E e \in Range(ss[i]) : e.el = {Start(list[i].lo)}
             /\ HasEnd(n, list, i) => \E e \in Range(ss[i]) : e.el = {End(list[i].hi + 1)}
  <2>1. PICK p, r : Pair("newelem", n, list, i, p, r)
    BY <1>1, HalvesAre
  <2>2. /\ p \in ElemOf("newelem", n) /\ p.el = {Start(list[i].lo)}
        /\ r \in ElemOf("newelem", n) /\ r.el = {End(list[i].hi + 1)}
        /\ ss[i] = IF HasEnd(n, list, i) THEN <<p>> \o <<r>> ELSE <<p>>
    BY <2>1 DEF Pair
  <2>3. Start(list[i].lo) \in M /\ (HasEnd(n, list, i) => End(list[i].hi + 1) \in M)
    BY <1>3 DEF Ends, HasEnd
  <2> HIDE DEF M, ss
  <2>4. p \in X /\ (HasEnd(n, list, i) => r \in X)
    BY <2>2, <2>3
  <2> HIDE DEF X
  <2>5. CASE HasEnd(n, list, i)
    <3>1. ss[i] = <<p>> \o <<r>> /\ p \in X /\ r \in X
      BY <2>2, <2>4, <2>5
    <3>2. ss[i] \in Seq(X) /\ 1 \in DOMAIN ss[i] /\ 2 \in DOMAIN ss[i] /\ ss[i][1] = p /\ ss[i][2] = r
      BY <3>1
    <3>3. p \in Range(ss[i]) /\ r \in Range(ss[i])
      BY <3>2 DEF Range
    <3> QED BY <2>2, <3>2, <3>3
  <2>6. CASE ~HasEnd(n, list, i)
    <3>1. ss[i] = <<p>> /\ p \in X
      BY <2>2, <2>4, <2>6
    <3>2. ss[i] \in Seq(X) /\ 1 \in DOMAIN ss[i] /\ ss[i][1] = p
      BY <3>1
    <3>3. p \in Range(ss[i])
      BY <3>2 DEF Range
    <3> QED BY <2>2, <2>6, <3>2, <3>3
  <2> QED BY <2>5, <2>6
<1>5. ss \in Seq(Seq(X)) /\ FlattenSeq(ss) \in Seq(X) /\ Range(FlattenSeq(ss)) = UNION {Range(ss[i]) : i \in DOMAIN ss}
  <2>1. ss \in Seq(Seq(X))
    <3> HIDE DEF X
    <3>1. \A i \in DOMAIN list : Halves("newelem", n, list, i) \in Seq(X)
      BY <1>4
    <3> QED BY <3>1
  <2> HIDE DEF ss, X
  <2> QED BY <2>1, FlattenType, FlattenRange
<1>6. z \in X
  BY <1>2
<1>7. q \in Seq(X) /\ Range(FlattenSeq(ss)) \subseteq Range(q)
  <2> HIDE DEF z, ss, X
  <2> DEFINE F == FlattenSeq(ss)
  <2>1. F \in Seq(X) /\ q = IF first THEN <<z>> \o F ELSE <<>> \o F
    BY <1>2, <1>5
  <2> HIDE DEF F
  <2>2. <<z>> \in Seq(X) /\ Len(<<z>>) = 1 /\ <<>> \in Seq(X)
    BY ONLY <1>6
  <2>5. q \in Seq(X)
    <3>1. <<z>> \o F \in Seq(X) /\ <<>> \o F \in Seq(X)
      BY ONLY <2>1, <2>2
    <3> QED BY ONLY <2>1, <3>1
  <2>3. ASSUME NEW j \in DOMAIN F PROVE \E k \in DOMAIN q : q[k] = F[j]
    <3>1. CASE first
      <4> DEFINE y == <<z>>
      <4>1. q = y \o F
        BY ONLY <2>1, <3>1
      <4>2. y \in Seq(X) /\ Len(y) = 1 /\ F \in Seq(X) /\ j \in DOMAIN F
        BY <2>1, <2>2
      <4> HIDE DEF y
      <4>3. /\ y \o F \in Seq(X) /\ Len(y \o F) = Len(y) + Len(F)
            /\ \A k \in 1..Len(F) : (y \o F)[Len(y) + k] = F[k]
        <5>1. \A s, t \in Seq(X) : /\ s \o t \in Seq(X) /\ Len(s \o t) = Len(s) + Len(t)
                                   /\ \A k \in 1..Len(t) : (s \o t)[Len(s) + k] = t[k]
          BY ONLY TRUE
        <5> QED BY ONLY <4>2, <5>1
      <4>4. 1 + j \in DOMAIN q /\ q[1 + j] = F[j]
        BY <4>1, <4>2, <4>3
      <4> QED BY <4>4
    <3>2. CASE ~first
      <4>1. <<>> \o F = F
        BY ONLY <2>1
      <4>2. q = F
        BY ONLY <2>1, <3>2, <4>1
      <4> QED BY <4>2
    <3> QED BY <3>1, <3>2
  <2>4. Range(F) \subseteq Range(q)
    BY <2>3 DEF Range
  <2> QED BY <2>4, <2>5 DEF F
<1>8. E \in SUBSET M
  <2>1. \A k \in DOMAIN q : q[k].el \subseteq M
    BY <1>7
  <2> HIDE DEF M
  <2> QED BY <2>1
<1>9. \A i \in DOMAIN list : Start(list[i].lo) \in E /\ (HasEnd(n, list, i) => End(list[i].hi + 1) \in E)
  <2> SUFFICES ASSUME NEW i \in DOMAIN list
               PROVE  Start(list[i].lo) \in E /\ (HasEnd(n, list, i) => End(list[i].hi + 1) \in E)
    OBVIOUS
  <2>1. \A e \in Range(ss[i]) : \E k \in DOMAIN q : q[k] = e
    <3>1. Range(ss[i]) \subseteq Range(q)
      BY <1>2, <1>5, <1>7
    <3> HIDE DEF ss
    <3> QED BY <3>1 DEF Range
  <2> HIDE DEF ss
  <2>2. \A e \in Range(ss[i]) : e.el \subseteq E
    BY <2>1
  <2> QED BY <1>4, <2>2
<1>10. \A s \in S : Start(s.lo) \in E /\ (s.hi < MaxKey => {Start(s.hi + 1), End(s.hi + 1)} \cap E # {})
  <2> SUFFICES ASSUME NEW i \in DOMAIN list
               PROVE  /\ Start(list[i].lo) \in E
                      /\ list[i].hi < MaxKey => {Start(list[i].hi + 1), End(list[i].hi + 1)} \cap E # {}
    BY <1>3
  <2>1. CASE HasEnd(n, list, i)
    BY <1>9, <2>1
  <2>2. CASE ~HasEnd(n, list, i) /\ list[i].hi < MaxKey
    <3>1. i < Len(list) /\ list[i + 1].lo = list[i].hi + 1
      BY <1>1, <1>3, <2>2 DEF HasEnd
    <3>2. i + 1 \in DOMAIN list
      BY <3>1
    <3> HIDE DEF E
    <3>3. Start(list[i].hi + 1) \in E /\ Start(list[i].lo) \in E
      BY <1>9, <3>1, <3>2
    <3> QED BY <3>3
  <2>3. CASE ~(list[i].hi < MaxKey)
    BY <1>9, <2>3
  <2> QED BY <2>1, <2>2, <2>3
<1> HIDE DEF E, S
<1>11. Decompose(E) = S
  BY <1>3, <1>8, <1>10, DecomposesToItself
<1> QED BY <1>2, <1>11 DEF E, S
\* What they lead to: the copy has the set, with its elements, when the rule comes.
LEMMA OwnLeads ==
    ASSUME NEW n \in Anonymous, NEW list \in Seq(Spans), Apart(ToSet(list)), NEW first \in BOOLEAN,
           NEW e \in Message, e.type = "newset", e.name = n,
           NEW f \in Message, f.type = "newrule", f.name = n, f.about = ToSet(list),
           NEW b \in Fine, ~b.lost, b.table, ~b.has, b.half = {}
    PROVE  \E d \in Fine : /\ Leads(n, <<e>> \o Messages("newelem", n, list, first) \o <<f>>, b, d)
                           /\ ~d.lost /\ d.half = {} /\ d.table /\ d.has /\ (d.obj <=> b.obj)
<1> DEFINE q == Messages("newelem", n, list, first)
           U == UNION {q[k].el : k \in DOMAIN q}
           c == Now(TRUE, TRUE, b.obj, {}, {})
           d == Now(c.table, TRUE, c.obj, c.els \cup U, c.half)
<1>1. n \notin Named /\ n \in Names /\ ~OfTable(e) /\ ~OfTable(f)
  BY NamesAssumption DEF Names, OfTable
<1>2. q \in Seq(ElemOf("newelem", n)) /\ Decompose(U) = ToSet(list)
  BY OwnElements
<1> HIDE DEF q
<1>3. q \in Seq(Message) /\ \A k \in DOMAIN q : q[k] \in Message /\ q[k].type = "newelem" /\ q[k].name = n
  <2>1. \A m \in ElemOf("newelem", n) : m \in Message /\ m.type = "newelem" /\ m.name = n
    BY DEF ElemOf
  <2>2. \A k \in DOMAIN q : q[k] \in ElemOf("newelem", n)
    BY <1>2
  <2>3. ElemOf("newelem", n) \subseteq Message
    BY <2>1
  <2> HIDE DEF U
  <2>4. q \in Seq(Message)
    BY <1>2, <2>3
  <2> QED BY <2>1, <2>2, <2>4
<1>4. U \in SUBSET Mark
  <2>1. \A k \in DOMAIN q : q[k].el \subseteq Mark
    BY <1>3 DEF Message
  <2> QED BY <2>1
<1>5. b.obj \in BOOLEAN /\ b \in State
  BY FineIs
<1> HIDE DEF U
<1>6. ASSUME NEW v \in BOOLEAN, v = TRUE
      PROVE  IsNow(c, v, v, b.obj, {}, {})
  <2>1. c = Now(v, v, b.obj, {}, {}) /\ {} \in SUBSET Mark
    BY <1>6
  <2> HIDE DEF c
  <2> QED BY <1>5, <2>1, NowIs
<1>7. Told(n, b, e, c)
  BY DEF Told
<1> HIDE DEF c
<1>8. c \in Fine /\ c \in State /\ ~c.lost /\ c.table /\ c.has /\ (c.obj <=> b.obj) /\ c.els = {} /\ c.half = {}
  <2>1. IsNow(c, TRUE, TRUE, b.obj, {}, {})
    BY <1>6
  <2> QED BY <2>1, FineIs DEF IsNow
<1>9. Leads(n, <<e>>, b, c)
  <2>1. Moves(n, b, e, c)
    BY <1>1, <1>7, ToldMoves
  <2> QED BY <1>5, <1>8, <2>1, LeadsOne
<1>10. Leads(n, q, c, d)
  <2> HIDE DEF d
  <2>1. d = Now(c.table, TRUE, c.obj, c.els \cup UNION {q[k].el : k \in DOMAIN q}, c.half)
    BY DEF d, U
  <2> QED BY <1>1, <1>3, <1>8, <2>1, LeadsElements
<1>11. ASSUME NEW v \in BOOLEAN, v = TRUE
       PROVE  IsNow(d, c.table, v, c.obj, U, {})
  <2>1. d = Now(c.table, v, c.obj, U, {})
    <3>1. c.els \cup U = U
      BY <1>8
    <3> QED BY <1>8, <1>11, <3>1
  <2>2. c.table \in BOOLEAN /\ c.obj \in BOOLEAN /\ {} \in SUBSET Mark
    BY <1>8, FineIs
  <2> HIDE DEF d
  <2> QED BY <1>4, <2>1, <2>2, NowIs
<1> HIDE DEF d
<1>12. d \in Fine /\ d \in State /\ ~d.lost /\ d.table /\ d.has /\ (d.obj <=> b.obj) /\ d.els = U /\ d.half = {}
  <2>1. IsNow(d, c.table, TRUE, c.obj, U, {})
    BY <1>11
  <2> QED BY <1>8, <2>1, FineIs DEF IsNow
<1>13. Leads(n, <<f>>, d, d)
  <2>1. Told(n, d, f, d)
    BY <1>2, <1>12 DEF Told
  <2>2. Moves(n, d, f, d)
    BY <1>1, <1>12, <2>1, ToldMoves
  <2> QED BY <1>12, <2>2, LeadsOne
<1>14. Leads(n, <<e>> \o q \o <<f>>, b, d)
  <2>1. <<e>> \in Seq(Message) /\ <<f>> \in Seq(Message)
    OBVIOUS
  <2>2. Leads(n, <<e>> \o q, b, d)
    BY <1>3, <1>9, <1>10, <2>1, LeadsJoin
  <2>3. <<e>> \o q \in Seq(Message)
    BY <1>3, <2>1
  <2> QED BY <1>13, <2>1, <2>2, <2>3, LeadsJoin
<1> QED BY <1>12, <1>14 DEF q

\* A rule comes with a set of its own.
LEMMA RuleWithSetCommits ==
    ASSUME MonitorInv, NEW n \in Anonymous, NEW list \in Given, NewRuleWithSet(n, list) PROVE MonitorInv'
<1> DEFINE T == kern.table
           S == kern.sets
           R == kern.rules
           O == kern.objects
           first == list[1].lo # 0
           e == Plain("newset", n)
           q == Messages("newelem", n, list, first)
           f == Event("newrule", n, {}, ToSet(list))
           w == Wider(S, n, ToSet(list))
           r == R \cup {n}
           k == Kern(T, w, r, O)
           sent == <<e>> \o q \o <<f>>
<1>1. KernOK(kern) /\ Shape(T, S, R, O)
  BY DEF MonitorInv, StateInv, KernOK
<1>2. /\ T /\ n \notin DOMAIN S /\ Apart(ToSet(list)) /\ list \in Seq(Spans)
      /\ Commit([kern EXCEPT !.sets = w, !.rules = r], sent)
  <2>1. /\ T /\ n \notin DOMAIN S /\ Apart(ToSet(list)) /\ CatchAll \notin ToSet(list)
        /\ Commit([kern EXCEPT !.sets = w, !.rules = r], sent)
    BY DEF NewRuleWithSet, Has, With, Wider
  <2>2. list \in Seq(Spans \cup {CatchAll}) /\ \A i \in DOMAIN list : list[i] # CatchAll
    BY <2>1, GivenAssumption DEF ToSet
  <2>3. list \in Seq(Spans)
    BY ONLY <2>2
  <2> QED BY <2>1, <2>3
<1>3. n \in Names /\ n \notin Named /\ HasRanges(n) /\ ToSet(list) \in SUBSET Elements
  <2>1. ToSet(list) \in SUBSET Spans
    BY <1>2 DEF ToSet
  <2> QED BY <2>1, NamesAssumption DEF Names, HasRanges, Elements
<1>4. Shape(T, w, r, O) /\ DOMAIN w = DOMAIN S \cup {n}
  <2>1. KeysOnly(n, ToSet(list))
    BY <1>3 DEF KeysOnly
  <2>2. Shape(T, w, R, O) /\ DOMAIN w = DOMAIN S \cup {n}
    BY ONLY <1>1, <1>3, <2>1, WiderShape
  <2> HIDE DEF w
  <2>3. n \in DOMAIN w /\ R \subseteq DOMAIN w
    BY <2>2 DEF Shape
  <2>4. r \subseteq DOMAIN w
    BY <2>3
  <2> HIDE DEF r
  <2>5. Shape(T, w, r, O)
    BY ONLY <2>2, <2>4 DEF Shape
  <2> QED BY <2>2, <2>5
<1>5. /\ e \in Message /\ e.type = "newset" /\ e.name = n /\ ~OfTable(e)
      /\ f \in Message /\ f.type = "newrule" /\ f.name = n /\ ~OfTable(f) /\ f.about = ToSet(list)
  <2>1. e \in Message /\ e.type = "newset" /\ e.name = n
    BY <1>3, EventIs DEF Plain, Types
  <2>2. f \in Message /\ f.type = "newrule" /\ f.name = n /\ f.about = ToSet(list)
    BY <1>3, EventIs DEF Types
  <2> HIDE DEF e, f
  <2> QED BY <2>1, <2>2 DEF OfTable
<1>6. first \in BOOLEAN
  OBVIOUS
<1>7. q \in Seq(ElemOf("newelem", n))
  <2> HIDE DEF first
  <2> QED BY <1>2, <1>6, OwnElements
<1> HIDE DEF w, r, e, f, first
<1>8. [kern EXCEPT !.sets = w, !.rules = r] = k
  BY <1>1, KernExcept
<1>9. KernOK(k) /\ \A x, b : Current(k, x, b) <=> Shows(T, DOMAIN w, O, x, b)
  BY <1>4, KernIs
<1>10. ASSUME NEW x \in Names \cup Objects, NEW b \in Fine, Current(kern, x, b)
       PROVE  \E d \in Fine : Leads(x, sent, b, d) /\ (d.lost \/ Shows(T, DOMAIN w, O, x, d))
  <2>1. Shows(T, DOMAIN S, O, x, b)
    BY <1>10 DEF Current
  <2>2. CASE x = n
    <3>1. ~b.lost /\ b.table /\ ~b.has /\ b.half = {}
      BY <1>2, <2>1, <2>2 DEF Shows
    <3>2. PICK d \in Fine : /\ Leads(n, sent, b, d)
                            /\ ~d.lost /\ d.half = {} /\ d.table /\ d.has /\ (d.obj <=> b.obj)
      BY <1>2, <1>5, <1>6, <3>1, OwnLeads
    <3>3. Shows(T, DOMAIN w, O, x, d)
      BY <1>2, <1>3, <1>4, <2>1, <2>2, <3>2 DEF Shows
    <3> QED BY <2>2, <3>2, <3>3
  <2>3. CASE x # n
    <3>1. sent \in Seq({m \in Message : ~OfTable(m) /\ m.name = n})
      <4> DEFINE X == {m \in Message : ~OfTable(m) /\ m.name = n}
      <4>1. e \in X /\ f \in X /\ ElemOf("newelem", n) \subseteq X
        BY <1>5 DEF ElemOf, OfTable
      <4> HIDE DEF q, X
      <4>2. q \in Seq(X) /\ <<e>> \in Seq(X) /\ <<f>> \in Seq(X)
        BY <1>7, <4>1
      <4>3. sent \in Seq(X)
        BY ONLY <4>2
      <4> QED BY <4>3 DEF X
    <3> HIDE DEF sent
    <3>2. \A i \in DOMAIN sent : Aside(x, sent[i])
      BY <2>3, <3>1 DEF Aside
    <3>3. Leads(x, sent, b, b)
      BY <3>1, <3>2, LeadsAside
    <3>4. Shows(T, DOMAIN w, O, x, b)
      BY <1>4, <2>1, <2>3 DEF Shows
    <3> QED BY <3>3, <3>4
  <2> QED BY <2>2, <2>3
<1>11. sent \in Seq(Message)
  <2>1. ElemOf("newelem", n) \subseteq Message
    BY DEF ElemOf
  <2> HIDE DEF q
  <2>2. q \in Seq(Message) /\ <<e>> \in Seq(Message) /\ <<f>> \in Seq(Message)
    BY <1>5, <1>7, <2>1
  <2> QED BY ONLY <2>2
<1> HIDE DEF sent, k
<1>12. Follows(kern, k, sent)
  BY <1>9, <1>10 DEF Follows
<1> QED BY <1>2, <1>8, <1>9, <1>11, <1>12, CommitStep
-----------------------------------------------------------------------------
(***************************************************************************)
(* A table goes, with all it has.                                          *)
(***************************************************************************)
\* What is named by the items of a finite set is finite.
LEMMA ImageFinite ==
    ASSUME NEW N, IsFiniteSet(N), NEW T, NEW f \in [N -> T], \A t \in T : \E m \in N : f[m] = t
    PROVE  IsFiniteSet(T)
<1>1. f \in Surjection(N, T)
  BY DEF Surjection
<1> QED BY <1>1, FS_Surjection

\* A finite set in some order.
LEMMA SetToSeqIs ==
    ASSUME NEW S, IsFiniteSet(S)
    PROVE  /\ SetToSeq(S) \in Seq(S)
           /\ \A s \in S : \E k \in DOMAIN SetToSeq(S) : SetToSeq(S)[k] = s
           /\ \A j, k \in DOMAIN SetToSeq(S) : SetToSeq(S)[j] = SetToSeq(S)[k] => j = k
<1> DEFINE n == Cardinality(S)
           q == SetToSeq(S)
<1>1. n \in Nat /\ ExistsBijection(1..n, S)
  BY FS_CardinalityType
<1>2. PICK f : f \in Bijection(1..n, S)
  BY <1>1 DEF ExistsBijection
<1>3. f \in [1..n -> S] /\ IsInjective(f)
  BY <1>2 DEF Bijection, Injection
<1> HIDE DEF n
<1>4. q \in [1..n -> S] /\ IsInjective(q)
  BY <1>3 DEF SetToSeq, n
<1> HIDE DEF q
<1>5. q \in Injection(1..n, S)
  BY <1>4 DEF Injection
<1>6. Cardinality(1..n) = n
  BY <1>1, FS_Interval
<1>7. q \in Surjection(1..n, S)
  BY <1>5, <1>6, FS_Injection DEF n
<1>8. \A s \in S : \E k \in DOMAIN q : q[k] = s
  BY <1>4, <1>7 DEF Surjection
<1>9. q \in Seq(S)
  BY <1>1, <1>4
<1> QED BY <1>4, <1>8, <1>9 DEF q, IsInjective

\* Names are finitely many.
LEMMA NamesFinite == ASSUME NEW N \in SUBSET (Names \cup Objects) PROVE IsFiniteSet(N)
BY NamesAssumption, FS_Subset DEF Names

\* One event for each of some names.
EachOf(type, N, q) ==
    /\ q \in Seq({e \in Message : e.type = type /\ e.name \in N})
    /\ \A m \in N : \E k \in DOMAIN q : q[k].name = m
    /\ \A j, k \in DOMAIN q : q[j].name = q[k].name => j = k

LEMMA EachIs ==
    ASSUME NEW type \in {"delrule", "delset", "delobj"},
           NEW N \in SUBSET (IF type = "delobj" THEN Objects ELSE Names)
    PROVE  EachOf(type, N, SetToSeq({Plain(type, n) : n \in N}))
<1> DEFINE P == {Plain(type, n) : n \in N}
           q == SetToSeq(P)
           X == {e \in Message : e.type = type /\ e.name \in N}
<1>1. \A n \in N : Plain(type, n) \in X /\ Plain(type, n).name = n
  <2> SUFFICES ASSUME NEW n \in N PROVE Plain(type, n) \in X /\ Plain(type, n).name = n
    OBVIOUS
  <2>1. /\ type \in Types /\ type \notin {"newtable", "deltable", "newobj"}
        /\ IF type = "delobj" THEN n \in Objects ELSE n \in Names
    BY DEF Types
  <2>2. {} \in SUBSET Mark /\ {} \in SUBSET Elements
    OBVIOUS
  <2>3. Plain(type, n) \in Message /\ Plain(type, n).type = type /\ Plain(type, n).name = n
    BY <2>1, <2>2, EventIs DEF Plain
  <2> QED BY <2>3
<1>2. IsFiniteSet(P)
  <2> DEFINE f == [n \in N |-> Plain(type, n)]
  <2>1. f \in [N -> P] /\ \A t \in P : \E n \in N : f[n] = t
    OBVIOUS
  <2>2. IsFiniteSet(N)
    BY NamesFinite
  <2> HIDE DEF f, P
  <2> QED BY <2>1, <2>2, ImageFinite
<1>3. \A p \in P : p \in X /\ p = Plain(type, p.name) /\ p.name \in N
  BY <1>1
<1>4. \A n \in N : Plain(type, n) \in P
  OBVIOUS
<1> HIDE DEF P, X
<1>5. /\ q \in Seq(P) /\ \A s \in P : \E k \in DOMAIN q : q[k] = s
      /\ \A j, k \in DOMAIN q : q[j] = q[k] => j = k
  BY <1>2, SetToSeqIs
<1> HIDE DEF q
<1>6. \A k \in DOMAIN q : q[k] \in P
  BY <1>5
<1>7. q \in Seq(X)
  BY <1>3, <1>5
<1>8. \A m \in N : \E k \in DOMAIN q : q[k].name = m
  BY <1>1, <1>4, <1>5
<1>9. \A j, k \in DOMAIN q : q[j].name = q[k].name => j = k
  BY <1>3, <1>5, <1>6
<1> QED BY <1>7, <1>8, <1>9 DEF EachOf, X, q, P

\* Events each of which leads from P to P.
LEMMA LeadsWithin ==
    ASSUME NEW S, NEW x, NEW q \in Seq(S), NEW P \in SUBSET State, NEW a \in P,
           \A k \in DOMAIN q : \A c \in P : \E d \in P : Moves(x, c, q[k], d)
    PROVE  \E b \in P : Leads(x, q, a, b)
<1> DEFINE N == Len(q)
           Up(k) == SubSeq(q, 1, k)
           T == {k \in 0..N : \E b \in P : Leads(x, Up(k), a, b)}
<1>1. N \in Nat /\ DOMAIN q = 1..N
  OBVIOUS
<1>2. Up(0) = <<>> /\ Up(N) = q /\ \A k \in 0..N : Up(k) \in Seq(S)
  OBVIOUS
<1>3. \A k \in 0..(N - 1) : k + 1 \in 1..N /\ Up(k + 1) = Up(k) \o <<q[k + 1]>> /\ <<q[k + 1]>> \in Seq(S)
  OBVIOUS
<1> HIDE DEF Up
<1>4. 0 \in T
  BY <1>1, <1>2, LeadsNone
<1>5. ASSUME NEW k \in 0..(N - 1), k \in T PROVE k + 1 \in T
  <2>1. PICK b \in P : Leads(x, Up(k), a, b)
    BY <1>5
  <2>2. k + 1 \in 1..N /\ k + 1 \in 0..N /\ k \in 0..N
    BY <1>1
  <2>3. PICK d \in P : Moves(x, b, q[k + 1], d)
    BY <1>1, <2>2
  <2>4. Leads(x, <<q[k + 1]>>, b, d)
    BY <2>3, LeadsOne
  <2>5. Up(k) \in Seq(S) /\ <<q[k + 1]>> \in Seq(S) /\ Up(k + 1) = Up(k) \o <<q[k + 1]>>
    BY <1>2, <1>3, <2>2
  <2>6. Leads(x, Up(k + 1), a, d)
    BY <2>1, <2>4, <2>5, LeadsJoin
  <2> QED BY <2>2, <2>6
<1>6. N \in T
  <2> HIDE DEF T, N
  <2>1. 0..N \subseteq T
    BY <1>1, <1>4, <1>5, Upto
  <2> QED BY <1>1, <2>1
<1> QED BY <1>2, <1>6

\* The events of its rules: the sets they brought are gone.
LEMMA RulesGo ==
    ASSUME NEW R \in SUBSET Names, NEW q, EachOf("delrule", R, q), NEW x \in Names \cup Objects,
           NEW b \in Fine, x \in R /\ x \in Anonymous => b.has
    PROVE  \E d \in Fine : Leads(x, q, b, d)
<1>1. \A k \in DOMAIN q : q[k] \in Message /\ q[k].type = "delrule" /\ q[k].name \in R /\ ~OfTable(q[k])
  BY DEF EachOf, OfTable
<1>2. q \in Seq(Message)
  BY DEF EachOf
<1>3. CASE x \notin R
  <2>1. \A k \in DOMAIN q : Aside(x, q[k])
    BY <1>1, <1>3 DEF Aside
  <2> QED BY <1>2, <2>1, LeadsAside
<1>4. CASE x \in R
  <2>1. PICK i \in DOMAIN q : q[i].name = x
    BY <1>4 DEF EachOf
  <2>2. \A k \in DOMAIN q : k # i => Aside(x, q[k])
    BY <1>1, <2>1 DEF EachOf, Aside
  <2>3. CASE b.lost
    <3>1. b = Gone
      BY <2>3 DEF Fine
    <3> QED BY <1>2, <3>1, LeadsGone
  <2>4. CASE ~b.lost /\ x \in Named
    <3>1. Told(x, b, q[i], Gone)
      BY <1>1, <2>4 DEF Told
    <3>2. Gone \in Fine
      BY DEF Gone, Fine, State
    <3>3. Moves(x, b, q[i], Gone)
      BY <1>1, <2>1, <2>4, <3>1, ToldMoves
    <3> QED BY <1>2, <2>2, <3>2, <3>3, LeadsOnce
  <2>5. ASSUME ~b.lost, x \notin Named, NEW v \in BOOLEAN, v = FALSE
        PROVE  \E d \in Fine : Leads(x, q, b, d)
    <3> DEFINE d == Now(b.table, FALSE, b.obj, {}, {})
    <3>1. x \in Anonymous
      BY <1>4, <2>5 DEF Names
    <3>2. Told(x, b, q[i], d)
      BY <1>1, <1>4, <2>5, <3>1 DEF Told
    <3>3. IsNow(d, b.table, v, b.obj, {}, {})
      <4>1. b.table \in BOOLEAN /\ b.obj \in BOOLEAN /\ {} \in SUBSET Mark /\ d = Now(b.table, v, b.obj, {}, {})
        BY <2>5, FineIs
      <4> QED BY <4>1, NowIs
    <3> HIDE DEF d
    <3>4. d \in Fine
      BY <3>3 DEF IsNow
    <3>5. Moves(x, b, q[i], d)
      BY <1>1, <2>1, <2>5, <3>2, ToldMoves
    <3> QED BY <1>2, <2>2, <3>4, <3>5, LeadsOnce
  <2> QED BY <2>3, <2>4, <2>5
<1> QED BY <1>3, <1>4

\* The events of its sets and objects.
LEMMA OthersGo ==
    ASSUME NEW type \in {"delset", "delobj"}, NEW N, NEW q, EachOf(type, N, q), NEW x, NEW b \in Fine
    PROVE  \E d \in Fine : Leads(x, q, b, d)
<1>1. \A k \in DOMAIN q : q[k].type = type /\ ~OfTable(q[k])
  BY DEF EachOf, OfTable
<1>2. q \in Seq(Message) /\ Fine \in SUBSET State
  BY DEF EachOf, Fine
<1>3. ASSUME NEW k \in DOMAIN q, NEW c \in Fine PROVE \E d \in Fine : Moves(x, c, q[k], d)
  <2>1. CASE c.lost
    BY <2>1 DEF Moves, Fine
  <2>2. CASE ~c.lost /\ q[k].name # x
    BY <1>1, <2>2, OtherMoves
  <2>3. CASE ~c.lost /\ q[k].name = x /\ type = "delset"
    <3>1. Told(x, c, q[k], c)
      BY <1>1, <2>3 DEF Told
    <3> QED BY <1>1, <2>3, <3>1, ToldMoves
  <2>4. ASSUME ~c.lost, q[k].name = x, type = "delobj", NEW v \in BOOLEAN, v = FALSE
        PROVE  \E d \in Fine : Moves(x, c, q[k], d)
    <3> DEFINE d == Now(c.table, c.has, FALSE, c.els, c.half)
    <3>1. Told(x, c, q[k], d)
      BY <1>1, <2>4 DEF Told
    <3>2. IsNow(d, c.table, c.has, v, c.els, c.half)
      <4>1. /\ c.table \in BOOLEAN /\ c.has \in BOOLEAN /\ c.els \in SUBSET Mark /\ c.half \in SUBSET Mark
            /\ d = Now(c.table, c.has, v, c.els, c.half)
        BY <2>4, FineIs
      <4> QED BY <4>1, NowIs
    <3> HIDE DEF d
    <3>3. d \in Fine
      BY <3>2 DEF IsNow
    <3> QED BY <1>1, <2>4, <3>1, <3>3, ToldMoves
  <2> QED BY <2>1, <2>2, <2>3, <2>4
<1> QED BY <1>2, <1>3, LeadsWithin

\* All of it.
LEMMA DelTableCommits == ASSUME MonitorInv, DelTable PROVE MonitorInv'
<1> DEFINE S == kern.sets
           R == kern.rules
           O == kern.objects
           N == DOMAIN S \cap Named
           p == SetToSeq({Plain("delrule", n) : n \in R})
           q == SetToSeq({Plain("delset", n) : n \in N})
           r == SetToSeq({Plain("delobj", n) : n \in O})
           e == Plain("deltable", "t")
           sent == p \o q \o r \o <<e>>
           k == Kern(FALSE, [n \in {} |-> {}], {}, {})
<1>1. KernOK(kern) /\ Shape(kern.table, S, R, O)
  BY DEF MonitorInv, StateInv, KernOK
<1>2. Commit(k, sent)
  BY DEF DelTable, Bare, Kern
<1>3. R \in SUBSET Names /\ R \subseteq DOMAIN S /\ N \in SUBSET Names /\ O \in SUBSET Objects
  BY <1>1 DEF Shape, Names
<1>4. EachOf("delrule", R, p) /\ EachOf("delset", N, q) /\ EachOf("delobj", O, r)
  <2>1. EachOf("delrule", R, p)
    BY <1>3, EachIs
  <2>2. EachOf("delset", N, q)
    BY <1>3, EachIs
  <2>3. EachOf("delobj", O, r)
    BY <1>3, EachIs
  <2> QED BY <2>1, <2>2, <2>3
<1>5. e \in Message /\ e.type = "deltable"
  BY EventIs DEF Plain, Types
<1> HIDE DEF p, q, r, e
<1>6. p \in Seq(Message) /\ q \in Seq(Message) /\ r \in Seq(Message) /\ <<e>> \in Seq(Message)
  BY <1>4, <1>5 DEF EachOf
<1>7. KernOK(k) /\ \A x, b : Current(k, x, b) <=> Shows(FALSE, {}, {}, x, b)
  <2> DEFINE s == [n \in {} |-> {}]
  <2>1. DOMAIN s = {} /\ s = [n \in DOMAIN s |-> s[n]]
    OBVIOUS
  <2> HIDE DEF s
  <2>2. Shape(FALSE, s, {}, {})
    BY <2>1 DEF Shape
  <2>3. KernOK(Kern(FALSE, s, {}, {})) /\ \A x, b : Current(Kern(FALSE, s, {}, {}), x, b) <=> Shows(FALSE, DOMAIN s, {}, x, b)
    BY <2>2, KernIs
  <2> QED BY <2>1, <2>3 DEF s
<1> HIDE DEF k
<1>8. ASSUME NEW x \in Names \cup Objects, NEW b \in Fine, Current(kern, x, b)
      PROVE  \E d \in Fine : Leads(x, sent, b, d) /\ (d.lost \/ Shows(FALSE, {}, {}, x, d))
  <2>1. x \in R /\ x \in Anonymous => b.has
    BY <1>3, <1>8 DEF Current, Shows
  <2>2. PICK c1 \in Fine : Leads(x, p, b, c1)
    BY <1>3, <1>4, <2>1, RulesGo
  <2>3. PICK c2 \in Fine : Leads(x, q, c1, c2)
    BY <1>4, OthersGo
  <2>4. PICK c3 \in Fine : Leads(x, r, c2, c3)
    BY <1>4, OthersGo
  <2>5. \E d \in Fine : Moves(x, c3, e, d) /\ (d.lost \/ Shows(FALSE, {}, {}, x, d))
    <3>1. CASE c3.lost
      BY <3>1 DEF Moves, Fine
    <3>2. ASSUME ~c3.lost, NEW v \in BOOLEAN, v = FALSE
          PROVE  \E d \in Fine : Moves(x, c3, e, d) /\ (d.lost \/ Shows(FALSE, {}, {}, x, d))
      <4> DEFINE d == Now(FALSE, FALSE, FALSE, {}, {})
      <4>1. Moves(x, c3, e, d)
        BY <1>5, <3>2 DEF Moves
      <4>2. IsNow(d, v, v, v, {}, {})
        <5>1. d = Now(v, v, v, {}, {}) /\ {} \in SUBSET Mark
          BY <3>2
        <5> QED BY <5>1, NowIs
      <4> HIDE DEF d
      <4>3. d \in Fine /\ Shows(FALSE, {}, {}, x, d)
        BY <3>2, <4>2 DEF IsNow, Shows
      <4> QED BY <4>1, <4>3
    <3> QED BY <3>1, <3>2
  <2>6. PICK d \in Fine : Moves(x, c3, e, d) /\ (d.lost \/ Shows(FALSE, {}, {}, x, d))
    BY <2>5
  <2>7. Leads(x, <<e>>, c3, d)
    BY <2>6, LeadsOne, FineIs
  <2>8. p \o q \in Seq(Message) /\ p \o q \o r \in Seq(Message)
    BY ONLY <1>6
  <2>9. Leads(x, p \o q, b, c2)
    BY <1>6, <2>2, <2>3, LeadsJoin
  <2>10. Leads(x, p \o q \o r, b, c3)
    BY <1>6, <2>4, <2>8, <2>9, LeadsJoin
  <2>11. Leads(x, p \o q \o r \o <<e>>, b, d)
    BY <1>6, <2>7, <2>8, <2>10, LeadsJoin
  <2> QED BY <2>6, <2>11
<1>9. sent \in Seq(Message)
  BY ONLY <1>6
<1> HIDE DEF sent
<1>10. Follows(kern, k, sent)
  BY <1>7, <1>8 DEF Follows
<1> QED BY <1>2, <1>7, <1>9, <1>10, CommitStep
-----------------------------------------------------------------------------
(***************************************************************************)
(* The theorems.                                                           *)
(***************************************************************************)
\* The cache the monitor is started with, of a table with the sets N.
LEMMA LoadedIs ==
    ASSUME NEW N \in SUBSET Named
    PROVE  \E q \in Seq(SetEntry) :
               /\ Loaded(Kern(TRUE, [n \in N |-> {}], {}, {})) = <<[sets |-> q, objects |-> {}]>>
               /\ \A i \in DOMAIN q : q[i].name \in N /\ q[i].els = {} /\ q[i].half = {}
               /\ \A n \in N : \E i \in DOMAIN q : q[i].name = n
               /\ \A i, j \in DOMAIN q : q[i].name = q[j].name => i = j
<1> DEFINE P == {CachedSet(n, {}) : n \in N}
           k == Kern(TRUE, [n \in N |-> {}], {}, {})
           q == SetToSeq(P)
<1>1. Loaded(k) = <<[sets |-> q, objects |-> {}]>>
  <2> DEFINE Ends1(x) == IF x = CatchAll THEN {Start(x.lo)} ELSE Ends({x})
             Q == {CachedSet(n, UNION {Ends1(x) : x \in k.sets[n]}) : n \in DOMAIN k.sets}
  <2>1. Loaded(k) = IF ~k.table THEN <<>> ELSE <<[sets |-> SetToSeq(Q), objects |-> k.objects]>>
    BY DEF Loaded
  <2>2. k.table = TRUE /\ k.objects = {} /\ DOMAIN k.sets = N /\ \A n \in N : k.sets[n] = {}
    BY DEF Kern
  <2> HIDE DEF k
  <2>3. \A n \in N : UNION {Ends1(x) : x \in k.sets[n]} = {}
    BY <2>2
  <2> HIDE DEF Ends1
  <2>4. Q = P
    BY <2>2, <2>3
  <2> HIDE DEF Q
  <2> QED BY <2>1, <2>2, <2>4
<1> HIDE DEF k
<1>2. \A n \in N : CachedSet(n, {}) \in SetEntry /\ CachedSet(n, {}).name = n
  BY DEF CachedSet, SetEntry, Names
<1>3. \A n \in N : CachedSet(n, {}).els = {} /\ CachedSet(n, {}).half = {}
  BY DEF CachedSet
<1>4. IsFiniteSet(P)
  <2> DEFINE f == [n \in N |-> CachedSet(n, {})]
  <2>1. f \in [N -> P] /\ \A t \in P : \E n \in N : f[n] = t
    OBVIOUS
  <2>2. IsFiniteSet(N)
    BY NamesFinite DEF Names
  <2> HIDE DEF f, P
  <2> QED BY <2>1, <2>2, ImageFinite
<1>5. \A p \in P : p \in SetEntry /\ p.name \in N /\ p = CachedSet(p.name, {}) /\ p.els = {} /\ p.half = {}
  BY <1>2, <1>3
<1>6. \A n \in N : CachedSet(n, {}) \in P
  OBVIOUS
<1> HIDE DEF P
<1>7. /\ q \in Seq(P) /\ \A s \in P : \E i \in DOMAIN q : q[i] = s
      /\ \A i, j \in DOMAIN q : q[i] = q[j] => i = j
  BY <1>4, SetToSeqIs
<1> HIDE DEF q
<1>8. \A i \in DOMAIN q : q[i] \in P
  BY <1>7
<1>9. q \in Seq(SetEntry)
  BY <1>5, <1>7
<1>10. \A n \in N : \E i \in DOMAIN q : q[i].name = n
  BY <1>2, <1>6, <1>7
<1>11. \A i, j \in DOMAIN q : q[i].name = q[j].name => i = j
  BY <1>5, <1>7, <1>8
<1> QED BY <1>1, <1>5, <1>8, <1>9, <1>10, <1>11 DEF k

\* The first state.
LEMMA InitHolds == Init => MonitorInv
<1> SUFFICES ASSUME Init PROVE MonitorInv
  OBVIOUS
<1>1. PICK N \in SUBSET Named, table \in BOOLEAN :
          (N # {} => table) /\ kern = [Bare EXCEPT !.table = table, !.sets = [n \in N |-> {}]]
  BY DEF Init
<1> DEFINE s == [n \in N |-> {}]
<1>2. kern = Kern(table, s, {}, {})
  <2> DEFINE e == [n \in {} |-> {}]
             m == [Bare EXCEPT !.table = table]
  <2>1. Bare = Kern(FALSE, e, {}, {}) /\ DOMAIN e = {} /\ e = [n \in DOMAIN e |-> e[n]]
    BY DEF Bare, Kern
  <2> HIDE DEF e, s
  <2>2. \A v \in BOOLEAN : KernOK(Kern(v, e, {}, {}))
    BY <2>1, KernIs DEF Shape
  <2>3. m = Kern(table, e, {}, {})
    <3>1. KernOK(Bare)
      BY <2>1, <2>2
    <3>2. Bare.sets = e /\ Bare.rules = {} /\ Bare.objects = {}
      BY <2>1 DEF Kern
    <3>3. m = Kern(table, Bare.sets, Bare.rules, Bare.objects)
      BY ONLY <3>1, KernExcept
    <3> QED BY <3>2, <3>3
  <2> HIDE DEF m
  <2>4. [m EXCEPT !.sets = s] = Kern(table, s, {}, {})
    <3>1. KernOK(m)
      BY <2>2, <2>3
    <3>2. m.table = table /\ m.rules = {} /\ m.objects = {}
      BY <2>3 DEF Kern
    <3>3. [m EXCEPT !.sets = s] = Kern(m.table, s, m.rules, m.objects)
      BY ONLY <3>1, KernExcept
    <3> QED BY <3>2, <3>3
  <2>5. kern = [m EXCEPT !.sets = s]
    BY <1>1 DEF m, s
  <2> QED BY <2>4, <2>5
<1>3. DOMAIN s = N /\ s = [n \in DOMAIN s |-> s[n]] /\ N \subseteq Names /\ \A n \in N : s[n] = {}
  BY DEF Names
<1> HIDE DEF s
<1>4. Shape(table, s, {}, {})
  BY <1>3 DEF Shape
<1>5. KernOK(kern) /\ \A x, b : Current(kern, x, b) <=> Shows(table, N, {}, x, b)
  BY <1>2, <1>3, <1>4, KernIs
<1>6. events = <<>> /\ ~joined /\ copy = Loaded(kern) /\ out = Quiet /\ spoilt = {}
  BY DEF Init
<1>7. kern.table = table
  BY <1>2 DEF Kern
<1>8. CASE ~table
  <2>1. copy = <<>> /\ N = {}
    BY <1>1, <1>6, <1>7, <1>8 DEF Loaded
  <2>2. StateInv
    BY <1>5, <1>6, <2>1 DEF StateInv, CopyOK
  <2>3. ASSUME NEW x \in Unspoilt, NEW v \in BOOLEAN, v = FALSE PROVE Tracks(copy, events, kern, x)
    <3> DEFINE a == Now(v, v, v, {}, {})
    <3>1. IsNow(a, v, v, v, {}, {})
      <4>1. {} \in SUBSET Mark
        OBVIOUS
      <4> QED BY <4>1, NowIs
    <3> HIDE DEF a
    <3>2. a \in Fine /\ ~a.lost /\ Displays(copy, x, a) /\ Shows(table, N, {}, x, a)
      BY <1>8, <2>1, <2>3, <3>1 DEF IsNow, Displays, Shows
    <3>3. Leads(x, events, a, a)
      BY <1>6, <3>2, LeadsNone, FineIs
    <3> QED BY <1>5, <3>2, <3>3 DEF Tracks
  <2>4. TracksInv
    BY <2>3 DEF TracksInv
  <2>5. PrintedInv
    BY <1>6 DEF PrintedInv, RulesShowTheirSets, Quiet
  <2> QED BY <2>2, <2>4, <2>5 DEF MonitorInv
<1>9. CASE table
  <2>1. kern = Kern(TRUE, [n \in N |-> {}], {}, {})
    BY <1>2, <1>9 DEF s
  <2>2. PICK q \in Seq(SetEntry) :
               /\ Loaded(kern) = <<[sets |-> q, objects |-> {}]>>
               /\ \A i \in DOMAIN q : q[i].name \in N /\ q[i].els = {} /\ q[i].half = {}
               /\ \A n \in N : \E i \in DOMAIN q : q[i].name = n
               /\ \A i, j \in DOMAIN q : q[i].name = q[j].name => i = j
    BY <2>1, LoadedIs
  <2> DEFINE t == [sets |-> q, objects |-> {}]
  <2>3. t \in TableEntry /\ t.sets = q /\ t.objects = {}
    BY DEF TableEntry
  <2>4. copy = <<t>>
    BY <1>6, <2>2
  <2> HIDE DEF t
  <2>5. copy # <<>> /\ copy[1] = t /\ CopyOK(copy)
    BY <2>3, <2>4 DEF CopyOK
  <2>6. StateInv
    BY <1>5, <1>6, <2>5 DEF StateInv
  <2>7. ASSUME NEW x \in Unspoilt, NEW v \in BOOLEAN, v <=> x \in N, NEW f \in BOOLEAN, f = FALSE
        PROVE  Tracks(copy, events, kern, x)
    <3> DEFINE a == Now(table, v, f, {}, {})
    <3>1. IsNow(a, table, v, f, {}, {})
      <4>1. {} \in SUBSET Mark
        OBVIOUS
      <4> QED BY <4>1, NowIs
    <3> HIDE DEF a
    <3>2. a \in Fine /\ ~a.lost /\ (a.has <=> x \in N) /\ ~a.obj /\ a.els = {} /\ a.half = {}
      BY <2>7, <3>1 DEF IsNow
    <3>3. ShownIn(q, x, a)
      <4>1. CASE x \in N
        <5>1. PICK i \in DOMAIN q : q[i].name = x
          BY <2>2, <4>1
        <5>2. First(q, x, i)
          BY <2>2, <5>1 DEF First
        <5> QED BY <2>2, <3>2, <4>1, <5>1, <5>2 DEF ShownIn
      <4>2. CASE x \notin N
        BY <2>2, <3>2, <4>2 DEF ShownIn
      <4> QED BY <4>1, <4>2
    <3>4. Displays(copy, x, a)
      BY <2>3, <2>5, <3>2, <3>3 DEF Displays
    <3>5. Shows(table, N, {}, x, a)
      <4>1. x \in Anonymous => x \notin Named
        BY NamesAssumption
      <4> QED BY <1>9, <2>7, <3>1, <4>1 DEF IsNow, Shows
    <3>6. Leads(x, events, a, a)
      BY <1>6, <3>2, LeadsNone, FineIs
    <3> QED BY <1>5, <3>2, <3>4, <3>5, <3>6 DEF Tracks
  <2>8. TracksInv
    <3>1. \A x : \E v \in BOOLEAN : v <=> x \in N
      OBVIOUS
    <3> QED BY <2>7, <3>1 DEF TracksInv
  <2>9. PrintedInv
    BY <1>6 DEF PrintedInv, RulesShowTheirSets, Quiet
  <2> QED BY <2>6, <2>8, <2>9 DEF MonitorInv
<1> QED BY <1>8, <1>9

\* Every step.
LEMMA NextKeeps == MonitorInv /\ [Next]_vars => MonitorInv'
<1> SUFFICES ASSUME MonitorInv, [Next]_vars PROVE MonitorInv'
  OBVIOUS
<1>1. CASE Commits
  <2>1. CASE NewTable \/ \E o \in Objects : NewObj(o) \/ DelObj(o)
    BY <2>1, ObjCommits
  <2>2. CASE DelTable
    BY <2>2, DelTableCommits
  <2>3. CASE \E n \in Named : NewSet(n) \/ DelSet(n) \/ NewRule(n)
    BY <2>3, SetCommits
  <2>4. CASE \E n \in Named, list \in Given : NewElements(n, list) \/ DelElements(n, list)
    BY <2>4, ElementCommits
  <2>5. CASE \E n \in Anonymous, list \in Given : NewRuleWithSet(n, list)
    BY <2>5, RuleWithSetCommits
  <2>6. CASE \E n \in Names : DelRule(n)
    BY <2>6, RuleCommits
  <2> QED BY <1>1, <2>1, <2>2, <2>3, <2>4, <2>5, <2>6 DEF Commits
<1>2. CASE Lose \/ Join
  BY <1>2, SocketStep
<1>3. CASE Monitor
  <2>1. CASE AddTable \/ RemoveTable
    BY <2>1, TableStep
  <2>2. CASE AddSet \/ PassSet \/ Obj
    BY <2>2, SetStep
  <2>3. CASE SetElem
    BY <2>3, ElemStep
  <2>4. CASE AddRule \/ RemoveRule
    BY <2>4, RuleStep
  <2> QED BY <1>3, <2>1, <2>2, <2>3, <2>4 DEF Monitor
<1>4. CASE UNCHANGED vars
  <2>1. /\ kern' = kern /\ events' = events /\ joined' = joined /\ copy' = copy
        /\ out' = out /\ spoilt' = spoilt
    BY <1>4 DEF vars
  <2>2. StateInv' /\ PrintedInv'
    BY <2>1 DEF MonitorInv, StateInv, PrintedInv, RulesShowTheirSets
  <2>3. TracksInv'
    BY <2>1 DEF MonitorInv, TracksInv, Unspoilt
  <2> QED BY <2>2, <2>3 DEF MonitorInv
<1> QED BY <1>1, <1>2, <1>3, <1>4 DEF Next

\* What the copy displays when all events are read is what the kernel has.
LEMMA AllRead ==
    ASSUME MonitorInv, events = <<>>, NEW x \in Unspoilt
    PROVE  \E a \in Fine : Displays(copy, x, a) /\ Current(kern, x, a)
<1>1. PICK a \in Fine, b \in Fine :
          ~a.lost /\ Displays(copy, x, a) /\ Leads(x, events, a, b) /\ (b.lost \/ Current(kern, x, b))
  BY DEF MonitorInv, TracksInv, Tracks
<1>2. events \in Seq(Message) /\ DOMAIN events = {}
  OBVIOUS
<1>3. b = a
  BY <1>1, <1>2, StaysAside
<1> QED BY <1>1, <1>3

\* So no half of a range waits.
LEMMA RangesHold == MonitorInv => RangesExact
<1> SUFFICES ASSUME MonitorInv, events = <<>>, copy # <<>>, NEW i \in DOMAIN copy[1].sets,
                    copy[1].sets[i].name \notin spoilt
             PROVE  copy[1].sets[i].half = {}
  BY DEF RangesExact, MonitorInv, PrintedInv
<1> DEFINE x == copy[1].sets[i].name
<1>1. x \in Unspoilt
  <2>1. copy[1] \in TableEntry
    BY DEF MonitorInv, StateInv, CopyOK
  <2>2. copy[1].sets \in Seq(SetEntry)
    BY <2>1, OtherTable
  <2>3. copy[1].sets[i] \in SetEntry
    BY <2>2
  <2>4. x \in Names
    BY <2>3 DEF SetEntry
  <2> QED BY <2>4 DEF Unspoilt
<1>2. PICK a \in Fine : Displays(copy, x, a) /\ Current(kern, x, a)
  BY <1>1, AllRead
<1>3. ShownIn(copy[1].sets, x, a) /\ a.half = {}
  BY <1>2 DEF Displays, Current, Shows
<1> QED BY <1>3 DEF ShownIn

\* And the copy has what the kernel has.
LEMMA CopyHolds == MonitorInv => CopyFollows
<1> SUFFICES ASSUME MonitorInv, events = <<>>, spoilt = {}, kern.table
             PROVE  /\ copy # <<>>
                    /\ copy[1].objects = kern.objects
                    /\ \A n \in Anonymous :
                         Cardinality({i \in DOMAIN copy[1].sets : copy[1].sets[i].name = n})
                         = (IF Has(n) THEN 1 ELSE 0)
  BY DEF CopyFollows
<1>1. ASSUME NEW x \in Names \cup Objects
      PROVE  \E a \in Fine : Displays(copy, x, a) /\ Current(kern, x, a)
  BY <1>1, AllRead DEF Unspoilt
<1>2. copy # <<>>
  <2>1. PICK x \in Names : TRUE
    BY NamesAssumption DEF Names
  <2>2. PICK a \in Fine : Displays(copy, x, a) /\ Current(kern, x, a)
    BY <1>1
  <2> QED BY <2>2 DEF Displays, Current, Shows
<1>3. copy[1].objects = kern.objects
  <2>1. copy[1] \in TableEntry /\ kern.objects \subseteq Objects
    BY <1>2 DEF MonitorInv, StateInv, CopyOK, KernOK, Shape
  <2>2. copy[1].objects \subseteq Objects
    BY <2>1 DEF TableEntry
  <2>3. \A o \in Objects : o \in copy[1].objects <=> o \in kern.objects
    BY <1>1, <1>2 DEF Displays, Current, Shows
  <2> QED BY <2>1, <2>2, <2>3
<1>4. ASSUME NEW n \in Anonymous
      PROVE  Cardinality({i \in DOMAIN copy[1].sets : copy[1].sets[i].name = n}) = (IF Has(n) THEN 1 ELSE 0)
  <2> DEFINE I == {i \in DOMAIN copy[1].sets : copy[1].sets[i].name = n}
  <2>1. PICK a \in Fine : Displays(copy, n, a) /\ Current(kern, n, a)
    BY <1>1 DEF Names
  <2>2. ShownIn(copy[1].sets, n, a) /\ (a.has <=> Has(n))
    BY <1>2, <2>1 DEF Displays, Current, Shows, Has
  <2>3. CASE Has(n)
    <3>1. PICK i : /\ First(copy[1].sets, n, i)
                   /\ \A j \in DOMAIN copy[1].sets : j # i /\ copy[1].sets[j].name = n => n \notin Anonymous
      BY <2>2, <2>3 DEF ShownIn
    <3>2. I = {i}
      BY <3>1 DEF First
    <3> HIDE DEF I
    <3>3. Cardinality(I) = 1
      BY <3>2, FS_Singleton
    <3> QED BY <2>3, <3>3 DEF I
  <2>4. CASE ~Has(n)
    <3>1. I = {}
      BY <2>2, <2>4 DEF ShownIn
    <3> HIDE DEF I
    <3>2. Cardinality(I) = 0
      BY <3>1, FS_EmptySet
    <3> QED BY <2>4, <3>2 DEF I
  <2> QED BY <2>3, <2>4
<1> QED BY <1>2, <1>3, <1>4

(***************************************************************************)
(* Whatever is committed, read or lost: of every name nothing was lost of, *)
(* the events that are not read yet lead from what the copy has to what    *)
(* the kernel has (netlink_events_cb, netlink_events_cache_update).        *)
(***************************************************************************)
THEOREM CopyIsTracked == Spec => []MonitorInv
<1>1. MonitorInv /\ [Next]_vars => MonitorInv'
  BY NextKeeps
<1> QED BY <1>1, InitHolds, PTL DEF Spec

(***************************************************************************)
(* A rule is printed with the elements its own set has                     *)
(* (netlink_events_rule_cb).                                               *)
(***************************************************************************)
THEOREM RulesAreShown == Spec => []RulesShowTheirSets
<1>1. MonitorInv => RulesShowTheirSets
  BY DEF MonitorInv, PrintedInv
<1> QED BY <1>1, CopyIsTracked, PTL

(***************************************************************************)
(* The ranges that are printed are those that were added or deleted, and   *)
(* none is left out (netlink_events_setelem_cb, netlink_event_range_cache). *)
(***************************************************************************)
THEOREM RangesAreExact == Spec => []RangesExact
BY CopyIsTracked, RangesHold, PTL

(***************************************************************************)
(* When all events are read the copy has the sets of rules and the objects *)
(* the kernel has, and no more (netlink_events_cache_update).              *)
(***************************************************************************)
THEOREM CopyIsFollowed == Spec => []CopyFollows
BY CopyIsTracked, CopyHolds, PTL
=============================================================================
