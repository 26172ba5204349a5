----------------------------- MODULE BatchProofs -----------------------------
(***************************************************************************)
(* What Batch promises of the errors and results of a run, for inputs of   *)
(* every length, all modes, and any number of runs and faults.  The        *)
(* inductive invariant comes in parts, each proved on top of the ones      *)
(* before it.                                                              *)
(***************************************************************************)
EXTENDS Batch, FiniteInduction, SequenceTheorems

-----------------------------------------------------------------------------
(***************************************************************************)
(* What the operators of CmdList return: sequences joined to one, commands *)
(* collapsed, taken apart again, expanded, and made into messages.  Each   *)
(* is a well-formed list of commands, whatever its length.                 *)
(***************************************************************************)

\* A sequence of anything.
IsSeq(s) == s \in Seq(Range(s))

\* Whatever is a sequence over some set is a sequence.
LEMMA AnySeq == ASSUME NEW S, NEW s \in Seq(S) PROVE IsSeq(s)
  BY SeqOfRange DEF IsSeq

\* A function on 1..n is a sequence of its values.
LEMMA MadeSeq ==
    ASSUME NEW S, NEW n \in Nat, NEW s \in [1..n -> S] PROVE s \in Seq(S) /\ Len(s) = n
  OBVIOUS

\* A sequence over a set is one over a larger set.
LEMMA Wider == ASSUME NEW S, NEW T, S \subseteq T, NEW s \in Seq(S) PROVE s \in Seq(T)
  BY SeqMonotonic

\* Two sequences joined, and their items.
LEMMA JoinedSeq ==
    ASSUME NEW s, NEW t, IsSeq(s), IsSeq(t)
    PROVE  /\ IsSeq(s \o t) /\ Len(s \o t) = Len(s) + Len(t)
           /\ Range(s \o t) = Range(s) \cup Range(t)
<1> DEFINE S == Range(s) \cup Range(t)
<1>1. s \in Seq(S) /\ t \in Seq(S)
  BY Wider DEF IsSeq
<1>2. s \o t \in Seq(S) /\ Len(s \o t) = Len(s) + Len(t) /\ Range(s \o t) = S
  <2> HIDE DEF S
  <2>1. s \o t \in Seq(S) /\ Len(s \o t) = Len(s) + Len(t)
    BY <1>1
  <2>2. Range(s \o t) = Range(s) \cup Range(t)
    BY <1>1, RangeConcatenation
  <2> QED BY <2>1, <2>2 DEF S
<1> QED BY <1>2, AnySeq

\* A sequence of one.
LEMMA OneSeq == ASSUME NEW x PROVE IsSeq(<<x>>) /\ <<x>> # <<>> /\ Range(<<x>>) = {x}
<1>1. <<x>> \in Seq({x}) /\ <<x>> # <<>> /\ DOMAIN <<x>> = {1} /\ <<x>>[1] = x
  OBVIOUS
<1> QED BY <1>1, AnySeq DEF Range

\* A sequence joined to one that has items.
LEMMA TwoSeq ==
    ASSUME NEW s, IsSeq(s), NEW t, IsSeq(t), s # <<>> PROVE IsSeq(s \o t) /\ s \o t # <<>>
<1>1. Len(s) \in Nat \ {0} /\ Len(t) \in Nat
  BY DEF IsSeq
<1>2. IsSeq(s \o t) /\ Len(s \o t) = Len(s) + Len(t)
  BY JoinedSeq
<1> QED BY <1>1, <1>2

\* One part is the whole.
LEMMA FlattenOne == ASSUME NEW x PROVE FlattenSeq(<<x>>) = x
<1> DEFINE Body(f) == [i \in 1..1 |-> IF i = 1 THEN <<x>>[i] ELSE f[i - 1] \o <<x>>[i]]
           h == [i \in 1..1 |-> x]
           f == CHOOSE f : f = Body(f)
<1>1. h = Body(h)
  OBVIOUS
<1>2. f = Body(f)
  <2> HIDE DEF h, Body
  <2> QED BY <1>1
<1>3. Len(<<x>>) = 1
  OBVIOUS
<1>4. FlattenSeq(<<x>>) = f[1]
  BY <1>3 DEF FlattenSeq
<1> HIDE DEF f
<1> QED BY <1>2, <1>4
\* The places of a flattened sequence: each item comes from a part.
LEMMA FlattenItem ==
    ASSUME NEW S, NEW ss \in Seq(Seq(S)), NEW i \in DOMAIN FlattenSeq(ss)
    PROVE  \E n \in DOMAIN ss : \E k \in 1..Len(ss[n]) : FlattenSeq(ss)[i] = ss[n][k]
<1>1. FlattenSeq(ss)[i] \in Range(FlattenSeq(ss))
  BY DEF Range
<1>2. PICK n \in DOMAIN ss : FlattenSeq(ss)[i] \in Range(ss[n])
  BY <1>1, FlattenRange
<1>3. DOMAIN ss[n] = 1..Len(ss[n])
  <2>1. ss[n] \in Seq(S)
    OBVIOUS
  <2> QED BY <2>1
<1> QED BY <1>2, <1>3 DEF Range

\* The items picked from a sequence are some of its items.
LEMMA PickedType ==
    ASSUME NEW S, NEW s \in Seq(S), NEW places PROVE Picked(s, places) \in Seq(S)
<1> DEFINE Part(n) == IF n \in places THEN <<s[n]>> ELSE <<>>
           ss == [n \in DOMAIN s |-> Part(n)]
<1>1. DOMAIN s = 1..Len(s) /\ Len(s) \in Nat /\ \A n \in DOMAIN s : s[n] \in S
  OBVIOUS
<1>2. \A n \in DOMAIN s : Part(n) \in Seq(S)
  BY <1>1
<1>3. ss \in [1..Len(s) -> Seq(S)]
  BY <1>1, <1>2
<1>4. ss \in Seq(Seq(S))
  <2> HIDE DEF ss
  <2> QED BY <1>1, <1>3
<1> QED BY <1>4, FlattenType DEF Picked

\* The items picked are those at the places.
LEMMA PickedRange ==
    ASSUME NEW S, NEW s \in Seq(S), NEW places
    PROVE  Range(Picked(s, places)) = {s[n] : n \in DOMAIN s \cap places}
<1> DEFINE Part(n) == IF n \in places THEN <<s[n]>> ELSE <<>>
           ss == [n \in DOMAIN s |-> Part(n)]
<1>1. DOMAIN s = 1..Len(s) /\ Len(s) \in Nat /\ \A n \in DOMAIN s : s[n] \in S
  OBVIOUS
<1>2. \A n \in DOMAIN s : Part(n) \in Seq(S)
  BY <1>1
<1>3. ss \in [1..Len(s) -> Seq(S)]
  BY <1>1, <1>2
<1>4. ss \in Seq(Seq(S))
  <2> HIDE DEF ss
  <2> QED BY <1>1, <1>3
<1>5. \A n \in DOMAIN s : Range(ss[n]) = {s[k] : k \in {n} \cap places}
  <2>1. \A x : Range(<<x>>) = {x}
    <3>1. \A x : DOMAIN <<x>> = {1} /\ <<x>>[1] = x
      OBVIOUS
    <3> QED BY <3>1 DEF Range
  <2>2. Range(<<>>) = {}
    <3>1. DOMAIN <<>> = {}
      OBVIOUS
    <3> QED BY <3>1 DEF Range
  <2> QED BY <2>1, <2>2
<1>6. DOMAIN ss = DOMAIN s
  OBVIOUS
<1>7. Range(FlattenSeq(ss)) = UNION {Range(ss[n]) : n \in DOMAIN s}
  <2> HIDE DEF ss
  <2> QED BY <1>4, <1>6, FlattenRange
<1>8. UNION {Range(ss[n]) : n \in DOMAIN s} = {s[n] : n \in DOMAIN s \cap places}
  <2>1. {Range(ss[n]) : n \in DOMAIN s} = {{s[k] : k \in {n} \cap places} : n \in DOMAIN s}
    <3> HIDE DEF ss
    <3> QED BY <1>5
  <2>2. UNION {{s[k] : k \in {n} \cap places} : n \in DOMAIN s} = {s[n] : n \in DOMAIN s \cap places}
    OBVIOUS
  <2> QED BY <2>1, <2>2
<1>9. Picked(s, places) = FlattenSeq(ss)
  BY DEF Picked
<1> QED BY <1>7, <1>8, <1>9

-----------------------------------------------------------------------------
\* A command of a narrower kind is one of a wider kind.
LEMMA Kinship ==
    ASSUME NEW I, 0 \in I
    PROVE  Plain \subseteq Declarations /\ Declarations \subseteq Single(I) /\ Single(I) \subseteq Collapsed(I)
<1>1. \A S, T : <<>> \in Seq(S)
  OBVIOUS
<1>2. Plain \subseteq Declarations
  BY <1>1 DEF Plain, Declarations, Records
<1>3. Seq(Plain) \subseteq Seq(Declarations)
  BY <1>2, SeqMonotonic
<1>4. Declarations \subseteq Single(I)
  BY <1>3 DEF Declarations, Single, Records
<1>5. Single(I) \subseteq Collapsed(I)
  BY <1>1 DEF Single, Collapsed, Records
<1> QED BY <1>2, <1>4, <1>5

\* The elements of a command, each with the command's id.
LEMMA GivenType ==
    ASSUME NEW I, I \subseteq Nat, NEW c \in Single(I) PROVE Given(c) \in Seq(Elements)
<1>1. c.elems \in Seq(Elements) /\ c.id \in Nat
  BY DEF Single, Records, Elements
<1>2. DOMAIN c.elems = 1..Len(c.elems) /\ Len(c.elems) \in Nat /\ \A n \in DOMAIN c.elems : c.elems[n] \in Elements
  BY <1>1
<1>3. \A n \in DOMAIN c.elems : [c.elems[n] EXCEPT !.cmd = c.id] \in Elements
  BY <1>1, <1>2 DEF Elements
<1>4. Given(c) \in [1..Len(c.elems) -> Elements]
  BY <1>2, <1>3 DEF Given
<1> QED BY <1>2, <1>4, MadeSeq

\* A step of nft_cmd_collapse: the list grows, or its leader does.
Taken(I) == {acc \in [out : Seq(Collapsed(I)), lead : Nat] : acc.lead \in 0..Len(acc.out)}

\* A round of nft_cmd_collapse's loop.
LEMMA StepType ==
    ASSUME NEW I, I \subseteq Nat, 0 \in I, NEW acc \in Taken(I), NEW c \in Single(I)
    PROVE  CollapseStep(acc, c) \in Taken(I)
<1>1. acc.out \in Seq(Collapsed(I)) /\ acc.lead \in 0..Len(acc.out) /\ Len(acc.out) \in Nat
  BY DEF Taken
<1>2. c \in Collapsed(I)
  BY Kinship
<1>3. Append(acc.out, c) \in Seq(Collapsed(I)) /\ Len(Append(acc.out, c)) = Len(acc.out) + 1
  BY <1>1, <1>2
<1>4. ASSUME NEW lead \in Collapsed(I) PROVE Joined(lead, c) \in Collapsed(I)
  <2>1. lead.elems \o Given(c) \in Seq(Elements)
    <3>1. lead.elems \in Seq(Elements)
      BY DEF Collapsed, Records, Elements
    <3>2. Given(c) \in Seq(Elements)
      BY GivenType
    <3> QED BY <3>1, <3>2
  <2>2. [c EXCEPT !.elems = <<>>] \in Single(I)
    <3>1. <<>> \in Seq(Elements)
      OBVIOUS
    <3> QED BY <3>1 DEF Single, Records, Elements
  <2>3. Append(lead.merged, [c EXCEPT !.elems = <<>>]) \in Seq(Single(I))
    <3>1. lead.merged \in Seq(Single(I))
      BY DEF Collapsed, Records
    <3> QED BY <2>2, <3>1
  <2> QED BY <2>1, <2>3 DEF Joined, Collapsed, Records, Elements
<1>5. CASE ~AddsElements(c)
  BY <1>1, <1>3, <1>5 DEF CollapseStep, Taken
<1>6. CASE AddsElements(c) /\ acc.lead # 0 /\ Joins(c, acc.out[acc.lead])
  <2> DEFINE out == [acc.out EXCEPT ![acc.lead] = Joined(@, c)]
  <2>1. out \in Seq(Collapsed(I)) /\ Len(out) = Len(acc.out)
    BY <1>1, <1>4, <1>6
  <2>2. CollapseStep(acc, c) = [out |-> out, lead |-> acc.lead]
    BY <1>6 DEF CollapseStep
  <2> HIDE DEF out
  <2> QED BY <1>1, <2>1, <2>2 DEF Taken
<1>7. CASE AddsElements(c) /\ ~(acc.lead # 0 /\ Joins(c, acc.out[acc.lead]))
  BY <1>1, <1>3, <1>7 DEF CollapseStep, Taken
<1> QED BY <1>5, <1>6, <1>7

\* The list as it grows, command by command.
Takes(taken, cs, I) ==
    /\ \A m \in 0..Len(cs) : taken[m] \in Taken(I)
    /\ taken[0] = [out |-> <<>>, lead |-> 0]
    /\ \A m \in 1..Len(cs) : taken[m] = CollapseStep(taken[m - 1], cs[m])
    /\ Collapse(cs) = taken[Len(cs)].out

\* That is how nft_cmd_collapse goes.
LEMMA CollapseSteps ==
    ASSUME NEW I, I \subseteq Nat, 0 \in I, NEW cs \in Seq(Single(I))
    PROVE  \E taken : Takes(taken, cs, I)
<1> DEFINE n == Len(cs)
           none == [out |-> <<>>, lead |-> 0]
           Body(f) == [m \in 0..n |-> IF m = 0 THEN none ELSE CollapseStep(f[m - 1], cs[m])]
           step == [x \in Taken(I) \X (1..n) |-> CollapseStep(x[1], cs[x[2]])]
           taken == CHOOSE f : f = Body(f)
<1>1. n \in Nat /\ \A m \in 1..n : cs[m] \in Single(I)
  OBVIOUS
<1>2. none \in Taken(I)
  <2>1. <<>> \in Seq(Collapsed(I)) /\ Len(<<>>) = 0
    OBVIOUS
  <2> QED BY <2>1 DEF Taken
<1>3. \A x \in Taken(I), m \in 1..n : step[<<x, m>>] = CollapseStep(x, cs[m]) /\ CollapseStep(x, cs[m]) \in Taken(I)
  BY <1>1, StepType
<1>4. step \in [Taken(I) \X (1..n) -> Taken(I)]
  <2> HIDE DEF n
  <2> QED BY <1>1, StepType
<1> HIDE DEF step
<1>5. PICK g : Recurs(g, n, Taken(I), none, step)
  <2> HIDE DEF n, none
  <2> QED BY <1>1, <1>2, <1>4, Recursion
<1> HIDE DEF none
<1>6. g = Body(g)
  <2>1. ASSUME NEW m \in 0..n PROVE g[m] = IF m = 0 THEN none ELSE CollapseStep(g[m - 1], cs[m])
    <3>1. CASE m = 0
      BY <1>5, <3>1 DEF Recurs
    <3>2. CASE m # 0
      <4>1. m \in 1..n /\ m - 1 \in 0..n
        BY <1>1, <3>2
      <4> QED BY <1>3, <1>5, <3>2, <4>1 DEF Recurs
    <3> QED BY <3>1, <3>2
  <2>2. DOMAIN g = 0..n /\ g = [m \in 0..n |-> g[m]]
    BY <1>5 DEF Recurs
  <2> QED BY <2>1, <2>2
<1>7. taken = Body(taken)
  <2> HIDE DEF Body
  <2> QED BY <1>6
<1>8. Collapse(cs) = taken[n].out
  BY DEF Collapse, none
<1> HIDE DEF taken
<1>9. \A m \in 0..n : taken[m] = IF m = 0 THEN none ELSE CollapseStep(taken[m - 1], cs[m])
  BY <1>7
<1> DEFINE T == {m \in 0..n : taken[m] \in Taken(I)}
<1>10. 0 \in T
  BY <1>1, <1>2, <1>9
<1>11. ASSUME NEW m \in 0..(n - 1), m \in T PROVE m + 1 \in T
  <2>1. m + 1 \in 1..n /\ m + 1 \in 0..n /\ (m + 1) - 1 = m /\ m + 1 # 0
    BY <1>1
  <2>2. taken[m + 1] = CollapseStep(taken[m], cs[m + 1])
    BY <1>9, <2>1
  <2>3. taken[m] \in Taken(I)
    BY <1>11
  <2> QED BY <1>3, <2>1, <2>2, <2>3
<1>12. 0..n \subseteq T
  <2> HIDE DEF T
  <2> QED BY <1>1, <1>10, <1>11, Upto
<1>13. \A m \in 0..n : taken[m] \in Taken(I)
  BY <1>12
<1>14. taken[0] = none
  BY <1>1, <1>9
<1>15. \A m \in 1..n : taken[m] = CollapseStep(taken[m - 1], cs[m])
  BY <1>1, <1>9
<1>16. Takes(taken, cs, I)
  BY <1>8, <1>13, <1>14, <1>15 DEF Takes, none
<1> QED BY <1>16

\* nft_cmd_collapse returns commands, with the merged ones at their leaders.
LEMMA CollapseType ==
    ASSUME NEW I, I \subseteq Nat, 0 \in I, NEW cs \in Seq(Single(I))
    PROVE  Collapse(cs) \in Seq(Collapsed(I))
<1>1. PICK taken : Takes(taken, cs, I)
  BY CollapseSteps
<1>2. Len(cs) \in 0..Len(cs)
  OBVIOUS
<1> QED BY <1>1, <1>2 DEF Takes, Taken

\* A command that gets its elements back is one of its own again.
LEMMA ReturnedType ==
    ASSUME NEW I, NEW c, c.elems \in Seq(Elements), NEW m \in Single(I)
    PROVE  Returned(c, m) \in Single(I)
<1> DEFINE own == Of(c, m.id)
           elems == [n \in DOMAIN own |-> [own[n] EXCEPT !.cmd = 0]]
<1>1. own \in Seq(Elements)
  BY PickedType DEF Of
<1>2. DOMAIN own = 1..Len(own) /\ Len(own) \in Nat /\ \A n \in DOMAIN own : own[n] \in Elements
  BY <1>1
<1> HIDE DEF own
<1>3. \A n \in DOMAIN own : [own[n] EXCEPT !.cmd = 0] \in Elements
  BY <1>2 DEF Elements
<1>4. elems \in [1..Len(own) -> Elements]
  BY <1>2, <1>3
<1>5. elems \in Seq(Elements)
  BY <1>2, <1>4, MadeSeq
<1>6. Returned(c, m) = [m EXCEPT !.elems = elems]
  BY DEF Returned, own
<1> HIDE DEF elems
<1> QED BY <1>5, <1>6 DEF Single, Records, Elements

\* Backwards, a sequence is one of the same things.
LEMMA ReverseType == ASSUME NEW S, NEW s \in Seq(S) PROVE Reverse(s) \in Seq(S)
<1>1. \A i \in 1..Len(s) : s[(Len(s) - i) + 1] \in S
  OBVIOUS
<1> QED BY <1>1, MadeSeq DEF Reverse

\* nft_cmd_uncollapse takes them apart again.
LEMMA ApartType ==
    ASSUME NEW I, I \subseteq Nat, 0 \in I, NEW c \in Collapsed(I)
    PROVE  Apart(c) \in Seq(Single(I))
<1>1. /\ c.elems \in Seq(Elements) /\ c.merged \in Seq(Single(I)) /\ c.id \in I
  BY DEF Collapsed, Records, Elements
<1>2. \A id : Of(c, id) \in Seq(Elements)
  BY <1>1, PickedType DEF Of
<1>3. CASE c.merged = <<>>
  <2>1. c \in Single(I)
    BY <1>3 DEF Collapsed, Single, Records
  <2> QED BY <1>3, <2>1 DEF Apart
<1>4. CASE c.merged # <<>>
  <2>1. [c EXCEPT !.elems = Of(c, 0), !.merged = <<>>] \in Single(I)
    BY <1>2 DEF Collapsed, Single, Records, Elements
  <2>2. \A m \in Single(I) : Returned(c, m) \in Single(I)
    BY <1>1, ReturnedType
  <2> DEFINE back == [k \in DOMAIN c.merged |-> Returned(c, c.merged[k])]
  <2>3. DOMAIN c.merged = 1..Len(c.merged) /\ Len(c.merged) \in Nat /\ \A k \in DOMAIN c.merged : c.merged[k] \in Single(I)
    BY <1>1
  <2>4. back \in [1..Len(c.merged) -> Single(I)]
    BY <2>2, <2>3
  <2>5. back \in Seq(Single(I)) /\ Len(back) = Len(c.merged)
    <3> HIDE DEF back
    <3> QED BY <2>3, <2>4, MadeSeq
  <2>6. Reverse(back) \in Seq(Single(I))
    <3> HIDE DEF back
    <3> QED BY <2>5, ReverseType
  <2>7. Apart(c) = <<[c EXCEPT !.elems = Of(c, 0), !.merged = <<>>]>> \o Reverse(back)
    BY <1>4 DEF Apart
  <2> HIDE DEF back
  <2> QED BY <2>1, <2>6, <2>7
<1> QED BY <1>3, <1>4

\* Taken apart, a list holds single commands again.
LEMMA UncollapseType ==
    ASSUME NEW I, I \subseteq Nat, 0 \in I, NEW cs \in Seq(Collapsed(I))
    PROVE  Uncollapse(cs) \in Seq(Single(I))
<1> DEFINE parts == [n \in DOMAIN cs |-> Apart(cs[n])]
<1>1. DOMAIN cs = 1..Len(cs) /\ Len(cs) \in Nat /\ \A n \in DOMAIN cs : cs[n] \in Collapsed(I)
  OBVIOUS
<1>2. \A n \in DOMAIN cs : Apart(cs[n]) \in Seq(Single(I))
  BY <1>1, ApartType
<1>3. parts \in Seq(Seq(Single(I)))
  BY <1>1, <1>2, MadeSeq
<1> QED BY <1>3, FlattenType DEF Uncollapse

\* nft_cmd_expand puts what a table or set contains behind it.
LEMMA ExpandType ==
    ASSUME NEW I, 0 \in I, NEW c \in Single(I) PROVE Expand(c) \in Seq(Single(I))
<1>1. c.body \in Seq(Declarations) /\ [c EXCEPT !.body = <<>>] \in Single(I)
  <2>1. <<>> \in Seq(Declarations)
    OBVIOUS
  <2> QED BY <2>1 DEF Single, Records
<1>2. DOMAIN c.body = 1..Len(c.body) /\ Len(c.body) \in Nat /\ \A n \in DOMAIN c.body : c.body[n] \in Declarations
  BY <1>1
<1>3. ASSUME NEW b \in Declarations PROVE Declared(b) \in Seq(Single(I))
  <2>1. [b EXCEPT !.body = <<>>] \in Declarations
    <3>1. <<>> \in Seq(Plain)
      OBVIOUS
    <3> QED BY <3>1 DEF Declarations, Records
  <2>2. [b EXCEPT !.body = <<>>] \in Single(I) /\ Plain \subseteq Single(I)
    BY <2>1, Kinship
  <2>3. b.body \in Seq(Plain)
    BY DEF Declarations, Records
  <2>4. b.body \in Seq(Single(I))
    BY <2>2, <2>3, Wider
  <2> QED BY <2>2, <2>4 DEF Declared
<1>4. ASSUME NEW kind PROVE OfKind(c.body, kind) \in Seq(Single(I))
  <2> DEFINE Part(n) == IF c.body[n].obj = kind THEN Declared(c.body[n]) ELSE <<>>
             parts == [n \in DOMAIN c.body |-> Part(n)]
  <2>1. \A n \in DOMAIN c.body : Part(n) \in Seq(Single(I))
    BY <1>2, <1>3
  <2>2. parts \in [1..Len(c.body) -> Seq(Single(I))]
    BY <1>2, <2>1
  <2>3. parts \in Seq(Seq(Single(I)))
    <3> HIDE DEF parts
    <3> QED BY <1>2, <2>2, MadeSeq
  <2> QED BY <2>3, FlattenType DEF OfKind
<1>5. FlattenSeq([k \in DOMAIN Kinds |-> OfKind(c.body, Kinds[k])]) \in Seq(Single(I))
  <2> DEFINE parts == [k \in DOMAIN Kinds |-> OfKind(c.body, Kinds[k])]
  <2>1. DOMAIN Kinds = 1..5
    BY DEF Kinds
  <2>2. parts \in [1..5 -> Seq(Single(I))]
    BY <1>4, <2>1
  <2>3. parts \in Seq(Seq(Single(I)))
    <3> HIDE DEF parts
    <3> QED BY <2>2, MadeSeq
  <2> QED BY <2>3, FlattenType
<1>6. c.body \in Seq(Single(I))
  <2>1. Declarations \subseteq Single(I)
    BY Kinship
  <2> QED BY <1>1, <2>1, Wider
<1>7. <<c>> \in Seq(Single(I)) /\ <<[c EXCEPT !.body = <<>>]>> \in Seq(Single(I))
  BY <1>1
<1> QED BY <1>5, <1>6, <1>7 DEF Expand

\* An expanded list, too.
LEMMA ExpandAllType ==
    ASSUME NEW I, 0 \in I, NEW cs \in Seq(Single(I)) PROVE ExpandAll(cs) \in Seq(Single(I))
<1> DEFINE parts == [n \in DOMAIN cs |-> Expand(cs[n])]
<1>1. DOMAIN cs = 1..Len(cs) /\ Len(cs) \in Nat /\ \A n \in DOMAIN cs : cs[n] \in Single(I)
  OBVIOUS
<1>2. \A n \in DOMAIN cs : Expand(cs[n]) \in Seq(Single(I))
  BY <1>1, ExpandType
<1>3. parts \in Seq(Seq(Single(I)))
  BY <1>1, <1>2, MadeSeq
<1> QED BY <1>3, FlattenType DEF ExpandAll

\* The messages of a command carry its id.
LEMMA MessagesType ==
    ASSUME NEW I, NEW c \in Single(I)
    PROVE  /\ IsSeq(Messages(c)) /\ DOMAIN Messages(c) = 1..Len(Messages(c))
           /\ \A k \in DOMAIN Messages(c) : Messages(c)[k].cmd = c.id
<1>1. c.elems \in Seq(Elements) /\ Len(c.elems) \in Nat
  BY DEF Single, Records, Elements
<1>2. \A attrs : Message(c, attrs).cmd = c.id
  BY DEF Message
<1>3. \A s : IsSeq(s) => DOMAIN s = 1..Len(s)
  BY DEF IsSeq
<1>4. CASE ~IsMessage(c)
  <2>1. Messages(c) = <<>>
    BY <1>4 DEF Messages
  <2>2. <<>> \in Seq({}) /\ DOMAIN <<>> = {}
    OBVIOUS
  <2> QED BY <1>3, <2>1, <2>2, AnySeq
<1>5. CASE IsMessage(c) /\ c.obj # "elements"
  <2> DEFINE m == Message(c, Located(c))
  <2>1. Messages(c) = <<m>>
    BY <1>5 DEF Messages
  <2>2. <<m>> \in Seq({m}) /\ DOMAIN <<m>> = {1} /\ <<m>>[1] = m
    OBVIOUS
  <2> HIDE DEF m
  <2>3. m.cmd = c.id
    BY <1>2 DEF m
  <2> QED BY <1>3, <2>1, <2>2, <2>3, AnySeq
<1>6. CASE IsMessage(c) /\ c.obj = "elements"
  <2> DEFINE n == (Len(c.elems) + Room - 1) \div Room
             Part(k) == [Message(c, [j \in DOMAIN Chunks(c.elems)[k] |-> Chunks(c.elems)[k][j].keys])
                            EXCEPT !.keys = KeysOf(Chunks(c.elems)[k])]
  <2>1. n \in Nat
    <3> DEFINE a == Len(c.elems) + Room - 1
    <3>1. a \in Nat /\ Room \in Nat /\ Room > 0
      BY <1>1, RoomAssumption
    <3> HIDE DEF a
    <3>2. a \div Room \in Nat
      BY <3>1
    <3> QED BY <3>2 DEF a
  <2>2. DOMAIN Chunks(c.elems) = 1..n
    BY DEF Chunks
  <2>3. \A k : Part(k).cmd = c.id
    BY DEF Message
  <2>4. Messages(c) = [k \in 1..n |-> Part(k)]
    BY <1>6, <2>2 DEF Messages, ElemMessages
  <2> HIDE DEF n, Part
  <2>5. Messages(c) \in [1..n -> {Part(k) : k \in 1..n}]
    BY <2>4
  <2>6. Messages(c) \in Seq({Part(k) : k \in 1..n}) /\ Len(Messages(c)) = n
    BY <2>1, <2>5, MadeSeq
  <2> QED BY <1>3, <2>3, <2>4, <2>6, AnySeq
<1> QED BY <1>4, <1>5, <1>6

\* The noted attributes of a message are a sequence.
LEMMA LocatedType ==
    ASSUME NEW c, c.obj \in Objs \ {"elements"} PROVE IsSeq(Located(c))
<1>1. IsSeq(<<>>)
  <2>1. <<>> \in Seq({})
    OBVIOUS
  <2> QED BY <2>1, AnySeq
<1>2. \A x, y : IsSeq(<<x, y>>)
  <2>1. ASSUME NEW x, NEW y PROVE IsSeq(<<x, y>>)
    <3>1. <<x, y>> \in Seq({x, y})
      OBVIOUS
    <3> QED BY <3>1, AnySeq
  <2> QED BY <2>1
<1>3. IsSeq(TableAttrs) /\ IsSeq(SetAttrs) /\ IsSeq(ObjectAttrs) /\ IsSeq(FlowtableAttrs)
  BY <1>2, OneSeq DEF TableAttrs, SetAttrs, ObjectAttrs, FlowtableAttrs
<1>4. IsSeq(ChainAttrs(c))
  <2> DEFINE own == <<{"table"}, {"chain"}>>
             type == IF c.op = "add" THEN <<{"type"}>> ELSE <<>>
  <2>1. IsSeq(own) /\ IsSeq(type)
    BY <1>1, <1>2, OneSeq
  <2>2. ChainAttrs(c) = own \o type
    BY DEF ChainAttrs
  <2> HIDE DEF own, type
  <2> QED BY <2>1, <2>2, JoinedSeq
<1>5. IsSeq(RuleAttrs(c))
  <2> DEFINE own == <<{"table"}, {"chain"}>>
             handle == IF c.op \in {"replace", "delete"} THEN <<{"handle"}>> ELSE <<>>
             statement == IF c.op # "delete" THEN <<{"statement"}>> ELSE <<>>
  <2>1. IsSeq(own) /\ IsSeq(handle) /\ IsSeq(statement)
    BY <1>1, <1>2, OneSeq
  <2>2. RuleAttrs(c) = own \o handle \o statement
    BY DEF RuleAttrs
  <2> HIDE DEF own, handle, statement
  <2> QED BY <2>1, <2>2, JoinedSeq
<1>6. Located(c) \in {<<>>, TableAttrs, ChainAttrs(c), RuleAttrs(c), SetAttrs, ObjectAttrs, FlowtableAttrs}
  BY DEF Located, Objs
<1> QED BY <1>1, <1>3, <1>4, <1>5, <1>6

\* Attributes of a message are a sequence.
LEMMA AttrsType ==
    ASSUME NEW I, NEW c \in Single(I), NEW k \in DOMAIN Messages(c) PROVE IsSeq(Messages(c)[k].attrs)
<1>1. c.elems \in Seq(Elements) /\ Len(c.elems) \in Nat /\ c.obj \in Objs
  BY DEF Single, Records, Elements
<1>2. CASE IsMessage(c) /\ c.obj # "elements"
  <2>1. Messages(c) = <<Message(c, Located(c))>>
    BY <1>2 DEF Messages
  <2>2. k = 1 /\ Messages(c)[k] = Message(c, Located(c))
    BY <2>1
  <2>3. Message(c, Located(c)).attrs = Located(c)
    BY DEF Message
  <2> QED BY <1>1, <1>2, <2>2, <2>3, LocatedType
<1>3. CASE IsMessage(c) /\ c.obj = "elements"
  <2> DEFINE n == (Len(c.elems) + Room - 1) \div Room
             part == Chunks(c.elems)[k]
             attrs == [j \in DOMAIN part |-> part[j].keys]
  <2>1. DOMAIN Chunks(c.elems) = 1..n
    BY DEF Chunks
  <2>2. k \in 1..n /\ Messages(c)[k] = [Message(c, attrs) EXCEPT !.keys = KeysOf(part)]
    BY <1>3, <2>1 DEF Messages, ElemMessages
  <2>3. Messages(c)[k].attrs = attrs
    BY <2>2 DEF Message
  <2>4. IsSeq(part)
    <3> DEFINE first == (k - 1) * Room + 1
               end == IF k * Room < Len(c.elems) THEN k * Room ELSE Len(c.elems)
    <3>1. part = SubSeq(c.elems, first, end)
      BY <2>2 DEF Chunks
    <3>2. first \in Int /\ end \in Int
      BY <1>1, <2>2, RoomAssumption
    <3> HIDE DEF first, end, part
    <3>3. \A i \in first..end : c.elems[i] \in {c.elems[j] : j \in first..end}
      OBVIOUS
    <3>4. part \in Seq({c.elems[j] : j \in first..end})
      BY <3>1, <3>2, <3>3, SubSeqProperties
    <3> QED BY <3>4, AnySeq
  <2> HIDE DEF part
  <2>5. DOMAIN part = 1..Len(part) /\ Len(part) \in Nat
    BY <2>4 DEF IsSeq
  <2>6. attrs \in [1..Len(part) -> {part[j].keys : j \in 1..Len(part)}]
    BY <2>5
  <2> HIDE DEF attrs
  <2>7. attrs \in Seq({part[j].keys : j \in 1..Len(part)})
    BY <2>5, <2>6, MadeSeq
  <2> QED BY <2>3, <2>7, AnySeq
<1>4. CASE ~IsMessage(c)
  <2>1. DOMAIN Messages(c) = {}
    BY <1>4 DEF Messages
  <2> QED BY <2>1
<1> QED BY <1>2, <1>3, <1>4
-----------------------------------------------------------------------------
(***************************************************************************)
(* Sequences, once more: what is made of one item after the other.         *)
(***************************************************************************)
\* What holds of the empty sequence, and with every sequence of one that has
\* one item more, holds of all.
LEMMA EverySeq ==
    ASSUME NEW S, NEW T, <<>> \in T, \A s \in Seq(S), e \in S : s \in T => s \o <<e>> \in T
    PROVE  Seq(S) \subseteq T
<1> SUFFICES ASSUME NEW s \in Seq(S) PROVE s \in T
  OBVIOUS
<1> DEFINE n == Len(s)
           Early == {k \in 0..n : SubSeq(s, 1, k) \in T}
<1>1. n \in Nat
  OBVIOUS
<1>2. 0 \in Early
  <2>1. SubSeq(s, 1, 0) = <<>>
    BY SubSeqEmpty
  <2>2. SubSeq(s, 1, 0) \in T
    BY <2>1
  <2>3. 0 \in 0..n
    BY <1>1
  <2> HIDE DEF n
  <2> QED BY <2>2, <2>3
<1>3. ASSUME NEW k \in 0..(n - 1), k \in Early PROVE k + 1 \in Early
  <2>1. k + 1 \in 1..n /\ k + 1 \in 0..n /\ (k + 1) - 1 = k /\ 1 \in 1..n /\ k \in 0..n
    BY <1>1
  <2>2. SubSeq(s, 1, k + 1) = SubSeq(s, 1, k) \o <<s[k + 1]>>
    BY <2>1, SubSeqRecursiveSecond
  <2>3. SubSeq(s, 1, k) \in Seq(S)
    <3>1. \A i \in 1..k : s[i] \in S
      BY <2>1
    <3> QED BY <2>1, <3>1, SubSeqProperties
  <2>4. SubSeq(s, 1, k) \in T /\ s[k + 1] \in S
    BY <1>3, <2>1
  <2> QED BY <2>1, <2>2, <2>3, <2>4
<1>4. n \in Early
  <2> HIDE DEF Early
  <2>1. 0..n \subseteq Early
    BY <1>1, <1>2, <1>3, Upto
  <2> QED BY <1>1, <2>1
<1>5. SubSeq(s, 1, n) = s
  BY SubSeqFull
<1> QED BY <1>4, <1>5

\* One part more.
LEMMA FlattenMore ==
    ASSUME NEW S, NEW ss \in Seq(Seq(S)), NEW x \in Seq(S)
    PROVE  FlattenSeq(ss \o <<x>>) = FlattenSeq(ss) \o x
<1> DEFINE n == Len(ss)
           tt == ss \o <<x>>
<1>1. n \in Nat /\ tt \in Seq(Seq(S)) /\ Len(tt) = n + 1 /\ tt[n + 1] = x /\ \A i \in 1..n : tt[i] = ss[i]
  OBVIOUS
<1>2. tt # <<>>
  BY <1>1
<1> HIDE DEF tt
<1>3. PICK g : Flattens(g, tt, S)
  BY <1>1, <1>2, FlattenSteps
<1>4. \A i \in 1..(n + 1) : g[i] = IF i = 1 THEN tt[i] ELSE g[i - 1] \o tt[i]
  BY <1>1, <1>3 DEF Flattens
<1>5. FlattenSeq(tt) = g[n + 1]
  BY <1>1, <1>3 DEF Flattens
<1>6. CASE n = 0
  <2>1. FlattenSeq(ss) = <<>>
    <3>1. ss = <<>>
      BY <1>6
    <3> QED BY <3>1 DEF FlattenSeq
  <2>2. g[1] = x
    BY <1>1, <1>4, <1>6
  <2> QED BY <1>5, <1>6, <2>1, <2>2 DEF tt
<1>7. CASE n # 0
  <2>1. ss # <<>>
    BY <1>7
  <2>2. PICK f : Flattens(f, ss, S)
    BY <2>1, FlattenSteps
  <2>3. \A i \in 1..n : f[i] = IF i = 1 THEN ss[i] ELSE f[i - 1] \o ss[i]
    BY <2>2 DEF Flattens
  <2> DEFINE T == {k \in 0..n : k # 0 => g[k] = f[k]}
  <2>4. 0 \in T
    BY <1>1
  <2>5. ASSUME NEW k \in 0..(n - 1), k \in T PROVE k + 1 \in T
    <3>1. k + 1 \in 1..n /\ k + 1 \in 1..(n + 1) /\ k + 1 \in 0..n /\ (k + 1) - 1 = k /\ (k + 1 = 1 <=> k = 0)
      BY <1>1
    <3>2. g[k + 1] = IF k = 0 THEN ss[k + 1] ELSE g[k] \o ss[k + 1]
      BY <1>1, <1>4, <3>1
    <3>3. f[k + 1] = IF k = 0 THEN ss[k + 1] ELSE f[k] \o ss[k + 1]
      BY <2>3, <3>1
    <3>4. k # 0 => g[k] = f[k]
      BY <2>5
    <3> QED BY <3>1, <3>2, <3>3, <3>4
  <2>6. n \in T
    <3> HIDE DEF T
    <3>1. 0..n \subseteq T
      BY <1>1, <2>4, <2>5, Upto
    <3> QED BY <1>1, <3>1
  <2>7. g[n + 1] = g[n] \o x
    <3>1. n + 1 \in 1..(n + 1) /\ n + 1 # 1 /\ (n + 1) - 1 = n
      BY <1>1, <1>7
    <3> QED BY <1>1, <1>4, <3>1
  <2>8. FlattenSeq(ss) = f[n]
    BY <2>2 DEF Flattens
  <2> QED BY <1>5, <1>7, <2>6, <2>7, <2>8 DEF tt
<1> QED BY <1>6, <1>7

\* Parts after parts.
LEMMA FlattenJoin ==
    ASSUME NEW S, NEW ss \in Seq(Seq(S)), NEW tt \in Seq(Seq(S))
    PROVE  FlattenSeq(ss \o tt) = FlattenSeq(ss) \o FlattenSeq(tt)
<1> DEFINE T == {uu \in Seq(Seq(S)) : FlattenSeq(ss \o uu) = FlattenSeq(ss) \o FlattenSeq(uu)}
<1>1. FlattenSeq(ss) \in Seq(S)
  BY FlattenType
<1>2. <<>> \in T
  <2>1. <<>> \in Seq(Seq(S)) /\ ss \o <<>> = ss
    BY EmptySeq, ConcatEmptySeq
  <2>2. FlattenSeq(<<>>) = <<>>
    BY DEF FlattenSeq
  <2>3. FlattenSeq(ss) \o <<>> = FlattenSeq(ss)
    BY <1>1, ConcatEmptySeq
  <2> QED BY <2>1, <2>2, <2>3
<1>3. ASSUME NEW uu \in Seq(Seq(S)), NEW x \in Seq(S), uu \in T PROVE uu \o <<x>> \in T
  <2> DEFINE one == <<x>>
  <2>1. one \in Seq(Seq(S))
    OBVIOUS
  <2>2. FlattenSeq(uu \o one) = FlattenSeq(uu) \o x
    BY FlattenMore
  <2>3. uu \o one \in Seq(Seq(S))
    BY <2>1, ConcatProperties
  <2>4. ss \o uu \in Seq(Seq(S))
    BY ConcatProperties
  <2>5. FlattenSeq((ss \o uu) \o one) = FlattenSeq(ss \o uu) \o x
    BY <2>4, FlattenMore
  <2> HIDE DEF one
  <2>6. (ss \o uu) \o one = ss \o (uu \o one)
    <3> DEFINE W == Seq(S)
    <3>1. ss \in Seq(W) /\ uu \in Seq(W) /\ one \in Seq(W)
      BY <2>1
    <3> HIDE DEF W
    <3> QED BY <3>1, ConcatAssociative, SMTT(40)
  <2>7. FlattenSeq(uu) \in Seq(S)
    BY FlattenType
  <2>8. FlattenSeq(ss) \o (FlattenSeq(uu) \o x) = (FlattenSeq(ss) \o FlattenSeq(uu)) \o x
    BY <1>1, <2>7, ConcatAssociative, SMTT(30)
  <2>9. uu \o one \in T
    BY <1>3, <2>2, <2>3, <2>5, <2>6, <2>8
  <2> QED BY <2>9 DEF one
<1>4. tt \in T
  <2> HIDE DEF T
  <2> QED BY <1>2, <1>3, EverySeq
<1> QED BY <1>4

\* Every item replaced by a sequence.
Pieces(f, s) == [n \in DOMAIN s |-> f[s[n]]]
FlatMap(f, s) == FlattenSeq(Pieces(f, s))

\* As many sequences as there are items.
ArePieces(p, s, B) == p \in Seq(Seq(B)) /\ Len(p) = Len(s)

\* The sequences that replace the items.
LEMMA FlatParts ==
    ASSUME NEW A, NEW B, NEW f \in [A -> Seq(B)], NEW s \in Seq(A)
    PROVE  ArePieces(Pieces(f, s), s, B) /\ FlatMap(f, s) \in Seq(B)
<1> DEFINE parts == [n \in DOMAIN s |-> f[s[n]]]
<1>1. DOMAIN s = 1..Len(s) /\ Len(s) \in Nat /\ \A n \in DOMAIN s : s[n] \in A
  OBVIOUS
<1>2. parts \in [1..Len(s) -> Seq(B)]
  BY <1>1
<1>3. parts \in Seq(Seq(B)) /\ Len(parts) = Len(s)
  <2> HIDE DEF parts
  <2> QED BY <1>1, <1>2, MadeSeq
<1>4. Pieces(f, s) = parts
  BY DEF Pieces
<1> HIDE DEF parts
<1> QED BY <1>3, <1>4, FlattenType DEF FlatMap, ArePieces

\* Nothing to replace.
LEMMA FlatNone == ASSUME NEW f PROVE FlatMap(f, <<>>) = <<>>
<1>1. Pieces(f, <<>>) = <<>>
  BY DEF Pieces
<1> QED BY <1>1 DEF FlatMap, FlattenSeq

\* One item.
LEMMA FlatOne == ASSUME NEW f, NEW e PROVE FlatMap(f, <<e>>) = f[e]
<1> DEFINE x == f[e]
<1>1. Pieces(f, <<e>>) = <<x>>
  BY DEF Pieces
<1> HIDE DEF x
<1>2. FlattenSeq(<<x>>) = x
  BY FlattenOne
<1> QED BY <1>1, <1>2 DEF FlatMap, x

\* One sequence after the other.
LEMMA FlatJoin ==
    ASSUME NEW A, NEW B, NEW f \in [A -> Seq(B)], NEW s \in Seq(A), NEW t \in Seq(A)
    PROVE  FlatMap(f, s \o t) = FlatMap(f, s) \o FlatMap(f, t)
<1> DEFINE Parts(x) == Pieces(f, x)
<1>1. ASSUME NEW x \in Seq(A)
      PROVE  Parts(x) \in Seq(Seq(B)) /\ Len(Parts(x)) = Len(x) /\ \A n \in 1..Len(x) : Parts(x)[n] = f[x[n]]
  <2>1. DOMAIN x = 1..Len(x)
    OBVIOUS
  <2>2. ArePieces(Parts(x), x, B)
    BY FlatParts
  <2>3. \A n \in DOMAIN x : Parts(x)[n] = f[x[n]]
    BY DEF Pieces
  <2> QED BY <2>1, <2>2, <2>3 DEF ArePieces
<1>2. s \o t \in Seq(A) /\ Len(s \o t) = Len(s) + Len(t) /\ Len(s) \in Nat /\ Len(t) \in Nat
  OBVIOUS
<1>3. \A n \in 1..(Len(s) + Len(t)) : (s \o t)[n] = IF n <= Len(s) THEN s[n] ELSE t[n - Len(s)]
  BY ConcatProperties
<1> HIDE DEF Parts
<1>4. /\ Parts(s) \o Parts(t) \in Seq(Seq(B)) /\ Len(Parts(s) \o Parts(t)) = Len(s) + Len(t)
      /\ \A n \in 1..(Len(s) + Len(t)) :
            (Parts(s) \o Parts(t))[n] = IF n <= Len(s) THEN Parts(s)[n] ELSE Parts(t)[n - Len(s)]
  <2> DEFINE W == Seq(B)
             p == Parts(s)
             q == Parts(t)
  <2>1. p \in Seq(W) /\ q \in Seq(W) /\ Len(p) = Len(s) /\ Len(q) = Len(t)
    BY <1>1
  <2> HIDE DEF W, p, q
  <2>2. /\ p \o q \in Seq(W) /\ Len(p \o q) = Len(p) + Len(q)
        /\ \A n \in 1..(Len(p) + Len(q)) : (p \o q)[n] = IF n <= Len(p) THEN p[n] ELSE q[n - Len(p)]
    BY <2>1, ConcatProperties
  <2> QED BY <2>1, <2>2 DEF W, p, q
<1>5. Parts(s \o t) \in Seq(Seq(B)) /\ Len(Parts(s \o t)) = Len(s) + Len(t)
  BY <1>1, <1>2
<1>6. ASSUME NEW n \in 1..(Len(s) + Len(t)) PROVE Parts(s \o t)[n] = (Parts(s) \o Parts(t))[n]
  <2>1. Parts(s \o t)[n] = f[(s \o t)[n]]
    BY <1>1, <1>2
  <2>2. CASE n <= Len(s)
    <3>1. n \in 1..Len(s)
      BY <1>2, <2>2
    <3> QED BY <1>1, <1>3, <1>4, <2>1, <2>2, <3>1
  <2>3. CASE ~(n <= Len(s))
    <3>1. n - Len(s) \in 1..Len(t)
      BY <1>2, <2>3
    <3> QED BY <1>1, <1>3, <1>4, <2>1, <2>3, <3>1
  <2> QED BY <2>2, <2>3
<1>7. Parts(s \o t) = Parts(s) \o Parts(t)
  BY <1>4, <1>5, <1>6, SeqEqual
<1>8. FlattenSeq(Parts(s) \o Parts(t)) = FlattenSeq(Parts(s)) \o FlattenSeq(Parts(t))
  BY <1>1, FlattenJoin
<1>9. /\ FlatMap(f, s \o t) = FlattenSeq(Parts(s \o t))
      /\ FlatMap(f, s) = FlattenSeq(Parts(s)) /\ FlatMap(f, t) = FlattenSeq(Parts(t))
  BY DEF FlatMap, Parts
<1> QED BY <1>7, <1>8, <1>9

\* The same, for use where there are other lists around.
MapsTo(f, A, B) == f \in [A -> Seq(B)]
ListOf(s, A) == s \in Seq(A)

\* One list after the other.
LEMMA FlatJoins ==
    ASSUME NEW A, NEW B, NEW f, MapsTo(f, A, B), NEW s, ListOf(s, A), NEW t, ListOf(t, A)
    PROVE  FlatMap(f, s \o t) = FlatMap(f, s) \o FlatMap(f, t)
BY FlatJoin DEF MapsTo, ListOf

\* One item more.
LEMMA FlatMore ==
    ASSUME NEW A, NEW B, NEW f \in [A -> Seq(B)], NEW t \in Seq(A), NEW e \in A
    PROVE  t \o <<e>> \in Seq(A) /\ FlatMap(f, t \o <<e>>) = FlatMap(f, t) \o f[e]
<1> DEFINE one == <<e>>
<1>1. one \in Seq(A) /\ FlatMap(f, one) = f[e]
  BY FlatOne
<1>2. t \in Seq(A) /\ one \in Seq(A)
  BY <1>1
<1> HIDE DEF one
<1>3. FlatMap(f, t \o one) = FlatMap(f, t) \o FlatMap(f, one)
  BY <1>2, FlatJoin, SMTT(30)
<1>4. t \o one \in Seq(A)
  BY <1>2, ConcatProperties
<1> QED BY <1>1, <1>3, <1>4 DEF one

\* Every item is replaced by itself.
LEMMA FlatSame ==
    ASSUME NEW A, NEW B, A \subseteq B, NEW f \in [A -> Seq(B)], NEW s \in Seq(A), \A n \in DOMAIN s : f[s[n]] = <<s[n]>>
    PROVE  FlatMap(f, s) = s
<1> DEFINE C == {e \in A : f[e] = <<e>>}
           T == {t \in Seq(C) : FlatMap(f, t) = t}
<1>1. <<>> \in T
  BY FlatNone, EmptySeq
<1>2. ASSUME NEW t \in Seq(C), NEW e \in C, t \in T PROVE t \o <<e>> \in T
  <2> DEFINE one == <<e>>
  <2>1. one \in Seq(C) /\ FlatMap(f, one) = one
    BY FlatOne
  <2>2. t \in Seq(A) /\ one \in Seq(A)
    <3>1. C \subseteq A
      OBVIOUS
    <3> HIDE DEF C, one
    <3> QED BY <2>1, <3>1, Wider
  <2> HIDE DEF one, C
  <2>3. FlatMap(f, t \o one) = FlatMap(f, t) \o FlatMap(f, one)
    BY <2>2, FlatJoin, SMTT(30)
  <2>4. t \o one \in Seq(C)
    BY <2>1, ConcatProperties
  <2>5. t \o one \in T
    BY <1>2, <2>1, <2>3, <2>4
  <2> QED BY <2>5 DEF one
<1>3. s \in Seq(C)
  <2>0. DOMAIN s = 1..Len(s) /\ Len(s) \in Nat /\ s = [n \in 1..Len(s) |-> s[n]] /\ \A n \in 1..Len(s) : s[n] \in A
    OBVIOUS
  <2>1. \A n \in 1..Len(s) : s[n] \in C
    BY <2>0
  <2> HIDE DEF C
  <2>2. s \in [1..Len(s) -> C]
    BY <2>0, <2>1
  <2> QED BY <2>0, <2>2, MadeSeq
<1>4. s \in T
  <2> HIDE DEF T, C
  <2> QED BY <1>1, <1>2, <1>3, EverySeq
<1> QED BY <1>4

\* Backwards, a sequence has the items it had.
LEMMA ReverseRange == ASSUME NEW S, NEW s \in Seq(S) PROVE Range(Reverse(s)) = Range(s)
<1> DEFINE n == Len(s)
<1>1. n \in Nat /\ DOMAIN s = 1..n
  OBVIOUS
<1>2. Reverse(s) = [i \in 1..n |-> s[(n - i) + 1]]
  BY DEF Reverse
<1>3. \A i \in 1..n : (n - i) + 1 \in 1..n /\ (n - ((n - i) + 1)) + 1 = i
  BY <1>1
<1> HIDE DEF n
<1>4. Range(Reverse(s)) = {s[(n - i) + 1] : i \in 1..n}
  BY <1>2 DEF Range
<1>5. Range(s) = {s[i] : i \in 1..n}
  BY <1>1 DEF Range
<1>6. {s[(n - i) + 1] : i \in 1..n} = {s[i] : i \in 1..n}
  <2>1. ASSUME NEW x \in {s[(n - i) + 1] : i \in 1..n} PROVE x \in {s[i] : i \in 1..n}
    BY <1>3
  <2>2. ASSUME NEW x \in {s[i] : i \in 1..n} PROVE x \in {s[(n - i) + 1] : i \in 1..n}
    <3>1. PICK i \in 1..n : x = s[i]
      OBVIOUS
    <3>2. (n - i) + 1 \in 1..n /\ (n - ((n - i) + 1)) + 1 = i
      BY <1>3
    <3>3. x = s[(n - ((n - i) + 1)) + 1]
      BY <3>1, <3>2
    <3> QED BY <3>2, <3>3
  <2> QED BY <2>1, <2>2
<1> QED BY <1>4, <1>5, <1>6

\* A sequence around one of its items.
LEMMA Around ==
    ASSUME NEW S, NEW s \in Seq(S), NEW n \in 1..Len(s), NEW t \in Seq(S), Len(t) = Len(s),
           \A i \in 1..Len(s) : i # n => t[i] = s[i]
    PROVE  t = SubSeq(s, 1, n - 1) \o <<t[n]>> \o SubSeq(s, n + 1, Len(s))
<1> DEFINE len == Len(s)
           front == SubSeq(s, 1, n - 1)
           one == <<t[n]>>
           back == SubSeq(s, n + 1, len)
<1>1. len \in Nat /\ n \in 1..len /\ t[n] \in S /\ \A i \in 1..len : s[i] \in S
  OBVIOUS
<1>2. front \in Seq(S) /\ Len(front) = n - 1 /\ \A i \in 1..(n - 1) : front[i] = s[i]
  <2>1. \A i \in 1..(n - 1) : s[i] \in S
    BY <1>1
  <2>2. 1 \in Nat \ {0} /\ n - 1 \in 0..len
    BY <1>1
  <2> QED BY <2>1, <2>2, SubSeqProperties
<1>3. back \in Seq(S) /\ Len(back) = len - n /\ \A i \in 1..(len - n) : back[i] = s[n + i]
  <2>1. \A i \in (n + 1)..len : s[i] \in S
    BY <1>1
  <2>2. n + 1 \in Nat /\ len \in Nat /\ DOMAIN s = 1..len
    BY <1>1
  <2> DEFINE f == [i \in 1..(len - n) |-> s[n + i]]
  <2>3. back = f
    <3>1. back = [i \in 1..(1 + len - (n + 1)) |-> s[i + (n + 1) - 1]]
      BY DEF SubSeq
    <3>2. 1 + len - (n + 1) = len - n /\ \A i \in 1..(len - n) : i + (n + 1) - 1 = n + i
      BY <1>1
    <3> QED BY <3>1, <3>2
  <2>4. len - n \in Nat /\ \A i \in 1..(len - n) : n + i \in 1..len
    BY <1>1
  <2>5. f \in [1..(len - n) -> S]
    BY <1>1, <2>4
  <2> HIDE DEF back
  <2>6. back \in Seq(S) /\ Len(back) = len - n
    <3> HIDE DEF f
    <3> QED BY <2>3, <2>4, <2>5, MadeSeq
  <2> QED BY <2>3, <2>6
<1>4. one \in Seq(S) /\ Len(one) = 1 /\ one[1] = t[n]
  BY <1>1
<1> HIDE DEF front, one, back
<1>5. /\ front \o one \in Seq(S) /\ Len(front \o one) = n
      /\ \A i \in 1..n : (front \o one)[i] = IF i <= n - 1 THEN front[i] ELSE one[i - (n - 1)]
  <2>1. /\ front \o one \in Seq(S) /\ Len(front \o one) = (n - 1) + 1
        /\ \A i \in 1..((n - 1) + 1) : (front \o one)[i] = IF i <= n - 1 THEN front[i] ELSE one[i - (n - 1)]
    <3>1. /\ front \o one \in Seq(S) /\ Len(front \o one) = Len(front) + Len(one)
          /\ \A i \in 1..(Len(front) + Len(one)) : (front \o one)[i] = IF i <= Len(front) THEN front[i] ELSE one[i - Len(front)]
      <4>1. front \in Seq(S) /\ one \in Seq(S)
        BY <1>2, <1>4
      <4> QED BY <4>1, ConcatProperties
    <3>2. Len(front) = n - 1 /\ Len(one) = 1
      BY <1>2, <1>4
    <3> QED BY <3>1, <3>2
  <2>2. (n - 1) + 1 = n
    BY <1>1
  <2> QED BY <2>1, <2>2
<1> DEFINE whole == (front \o one) \o back
<1>6. /\ whole \in Seq(S) /\ Len(whole) = len
      /\ \A i \in 1..len : whole[i] = IF i <= n THEN (front \o one)[i] ELSE back[i - n]
  <2>1. /\ whole \in Seq(S) /\ Len(whole) = n + (len - n)
        /\ \A i \in 1..(n + (len - n)) : whole[i] = IF i <= n THEN (front \o one)[i] ELSE back[i - n]
    BY <1>3, <1>5, ConcatProperties
  <2>2. n + (len - n) = len
    BY <1>1
  <2> HIDE DEF whole
  <2> QED BY <2>1, <2>2
<1> HIDE DEF whole
<1>7. ASSUME NEW i \in 1..len PROVE whole[i] = t[i]
  <2>1. CASE i = n
    <3>1. ~(i <= n - 1) /\ i - (n - 1) = 1 /\ i <= n /\ i \in 1..n
      BY <1>1, <2>1
    <3> QED BY <1>4, <1>5, <1>6, <2>1, <3>1
  <2>2. CASE i < n
    <3>1. i <= n - 1 /\ i <= n /\ i \in 1..n /\ i \in 1..(n - 1) /\ i # n
      BY <1>1, <2>2
    <3> QED BY <1>2, <1>5, <1>6, <3>1
  <2>3. CASE i > n
    <3>1. ~(i <= n) /\ i - n \in 1..(len - n) /\ n + (i - n) = i /\ i # n
      BY <1>1, <2>3
    <3>2. whole[i] = s[n + (i - n)]
      BY <1>3, <1>6, <3>1
    <3> QED BY <3>1, <3>2
  <2> QED BY <1>1, <2>1, <2>2, <2>3
<1>8. whole = t
  <2> HIDE DEF len
  <2>1. Len(t) = len
    BY DEF len
  <2> QED BY <1>6, <1>7, <2>1, SeqEqual
<1> QED BY <1>8 DEF whole, front, one, back

-----------------------------------------------------------------------------
(***************************************************************************)
(* The elements of commands, and what is sent of a list.                   *)
(***************************************************************************)
\* The keys of elements are keys.
LEMMA KeysType == ASSUME NEW elems \in Seq(Elements) PROVE KeysOf(elems) \in SUBSET (Key \cup {"old"})
<1>1. \A n \in DOMAIN elems : elems[n] \in Elements
  OBVIOUS
<1> QED BY <1>1 DEF KeysOf, Elements

\* The keys of the elements of one command.
LEMMA KeysOfOwn ==
    ASSUME NEW c, c.elems \in Seq(Elements), NEW id
    PROVE  KeysOf(Of(c, id)) = UNION {c.elems[n].keys : n \in {k \in DOMAIN c.elems : c.elems[k].cmd = id}}
<1> DEFINE places == {k \in DOMAIN c.elems : c.elems[k].cmd = id}
           own == Of(c, id)
<1>1. own = Picked(c.elems, places)
  BY DEF Of
<1> HIDE DEF own
<1>2. Range(own) = {c.elems[n] : n \in DOMAIN c.elems \cap places}
  BY <1>1, PickedRange
<1>3. DOMAIN c.elems \cap places = places
  OBVIOUS
<1> HIDE DEF places
<1>4. KeysOf(own) = UNION {e.keys : e \in Range(own)}
  BY DEF KeysOf, Range
<1>5. KeysOf(own) = UNION {e.keys : e \in {c.elems[n] : n \in places}}
  BY <1>2, <1>3, <1>4
<1>6. {e.keys : e \in {c.elems[n] : n \in places}} = {c.elems[n].keys : n \in places}
  OBVIOUS
<1>7. KeysOf(own) = UNION {c.elems[n].keys : n \in places}
  BY <1>5, <1>6
<1> QED BY <1>7 DEF own, places

\* A command gets its elements back.
LEMMA KeysReturned ==
    ASSUME NEW c, c.elems \in Seq(Elements), NEW m \in Single(Nat)
    PROVE  /\ KeysOf(Returned(c, m).elems) = KeysOf(Of(c, m.id))
           /\ Returned(c, m).op = m.op /\ Returned(c, m).obj = m.obj /\ Returned(c, m).name = m.name
<1> DEFINE own == Of(c, m.id)
           back == [n \in DOMAIN own |-> [own[n] EXCEPT !.cmd = 0]]
<1>1. own \in Seq(Elements)
  BY PickedType DEF Of
<1>2. Returned(c, m) = [m EXCEPT !.elems = back]
  BY DEF Returned
<1> HIDE DEF own
<1>3. \A n \in DOMAIN own : own[n] \in Elements
  BY <1>1
<1>4. \A n \in DOMAIN own : back[n].keys = own[n].keys
  BY <1>3 DEF Elements
<1>5. DOMAIN back = DOMAIN own
  OBVIOUS
<1> HIDE DEF back
<1>6. {back[n].keys : n \in DOMAIN back} = {own[n].keys : n \in DOMAIN own}
  BY <1>4, <1>5
<1>7. KeysOf(back) = KeysOf(own)
  BY <1>6 DEF KeysOf
<1>8. [m EXCEPT !.elems = back].elems = back /\ [m EXCEPT !.elems = back].op = m.op
      /\ [m EXCEPT !.elems = back].obj = m.obj /\ [m EXCEPT !.elems = back].name = m.name
  BY DEF Single, Records
<1> QED BY <1>2, <1>7, <1>8 DEF own

\* The elements a command takes up keep their keys.
LEMMA KeysGiven == ASSUME NEW c, c.elems \in Seq(Elements) PROVE KeysOf(Given(c)) = KeysOf(c.elems)
<1> DEFINE given_ == Given(c)
<1>1. DOMAIN given_ = DOMAIN c.elems /\ \A n \in DOMAIN c.elems : given_[n].keys = c.elems[n].keys
  <2>1. \A n \in DOMAIN c.elems : c.elems[n] \in Elements
    OBVIOUS
  <2>2. \A n \in DOMAIN c.elems : [c.elems[n] EXCEPT !.cmd = c.id].keys = c.elems[n].keys
    BY <2>1 DEF Elements
  <2> QED BY <2>2 DEF Given
<1> HIDE DEF given_
<1>2. {given_[n].keys : n \in DOMAIN given_} = {c.elems[n].keys : n \in DOMAIN c.elems}
  BY <1>1
<1>3. KeysOf(given_) = KeysOf(c.elems)
  BY <1>2 DEF KeysOf
<1> QED BY <1>3 DEF given_

\* The keys of two sequences of elements.
LEMMA KeysJoin ==
    ASSUME NEW s \in Seq(Elements), NEW t \in Seq(Elements) PROVE KeysOf(s \o t) = KeysOf(s) \cup KeysOf(t)
<1>1. \A x : KeysOf(x) = UNION {e.keys : e \in Range(x)}
  BY DEF KeysOf, Range
<1>2. Range(s \o t) = Range(s) \cup Range(t)
  BY AnySeq, JoinedSeq
<1>3. {e.keys : e \in Range(s) \cup Range(t)} = {e.keys : e \in Range(s)} \cup {e.keys : e \in Range(t)}
  OBVIOUS
<1> QED BY <1>1, <1>2, <1>3

\* More ids, more commands.
LEMMA IdsWider ==
    ASSUME NEW I, I \subseteq Nat
    PROVE  /\ Single(I) \subseteq Single(Nat) /\ Seq(Single(I)) \subseteq Seq(Single(Nat))
           /\ Collapsed(I) \subseteq Collapsed(Nat) /\ Seq(Collapsed(I)) \subseteq Seq(Collapsed(Nat))
<1>1. Single(I) \subseteq Single(Nat)
  BY DEF Single, Records
<1>2. ASSUME NEW s \in Seq(Single(I)) PROVE s \in Seq(Single(Nat))
  BY <1>1, Wider
<1>3. Collapsed(I) \subseteq Collapsed(Nat)
  <2> DEFINE M == Seq(Single(I))
             N == Seq(Single(Nat))
             B == Seq(Declarations)
             E == Seq(Elements)
  <2>1. M \subseteq N
    BY <1>2
  <2>2. ASSUME NEW J, NEW K, J \subseteq Nat, K \subseteq N PROVE Records(J, K, B) \subseteq Records(Nat, N, B)
    <3> DEFINE All(j, k) == [id : j, op : Ops, obj : Objs, name : Name, elems : E, merged : k, body : B, needs : SUBSET Name]
    <3>1. All(J, K) \subseteq All(Nat, N)
      <4> HIDE DEF B, E, N
      <4> QED BY <2>2
    <3>2. \A j, k : Records(j, k, B) = {c \in All(j, k) : c.obj = "elements" => c.op # "flush"}
      BY DEF Records
    <3> HIDE DEF All, B, N
    <3> QED BY <3>1, <3>2
  <2>3. Collapsed(I) = Records(I, M, B) /\ Collapsed(Nat) = Records(Nat, N, B)
    BY DEF Collapsed
  <2> HIDE DEF M, N, B, E
  <2> QED BY <2>1, <2>2, <2>3
<1>4. ASSUME NEW s \in Seq(Collapsed(I)) PROVE s \in Seq(Collapsed(Nat))
  BY <1>3, Wider
<1> QED BY <1>1, <1>2, <1>3, <1>4

\* What is sent of a list that has been collapsed.
Sends(x) == ExpandAll(Uncollapse(x))

ApartMap == [c \in Collapsed(Nat) |-> Apart(c)]
ExpandMap == [c \in Single(Nat) |-> Expand(c)]

\* Both passes replace each command by a list.
LEMMA Passes ==
    /\ ApartMap \in [Collapsed(Nat) -> Seq(Single(Nat))]
    /\ ExpandMap \in [Single(Nat) -> Seq(Single(Nat))]
    /\ \A x \in Seq(Collapsed(Nat)) : Uncollapse(x) = FlatMap(ApartMap, x)
    /\ \A x \in Seq(Single(Nat)) : ExpandAll(x) = FlatMap(ExpandMap, x)
    /\ \A c \in Collapsed(Nat) : ApartMap[c] = Apart(c)
    /\ \A c \in Single(Nat) : ExpandMap[c] = Expand(c)
<1>1. \A c \in Collapsed(Nat) : Apart(c) \in Seq(Single(Nat))
  BY ApartType
<1>2. \A c \in Single(Nat) : Expand(c) \in Seq(Single(Nat))
  BY ExpandType
<1>3. \A c \in Collapsed(Nat) : ApartMap[c] = Apart(c)
  BY DEF ApartMap
<1>4. \A c \in Single(Nat) : ExpandMap[c] = Expand(c)
  BY DEF ExpandMap
<1>5. ASSUME NEW x \in Seq(Collapsed(Nat)) PROVE Uncollapse(x) = FlatMap(ApartMap, x)
  <2>1. \A n \in DOMAIN x : x[n] \in Collapsed(Nat)
    OBVIOUS
  <2>2. [n \in DOMAIN x |-> Apart(x[n])] = [n \in DOMAIN x |-> ApartMap[x[n]]]
    BY <1>3, <2>1
  <2> QED BY <2>2 DEF Uncollapse, FlatMap, Pieces
<1>6. ASSUME NEW x \in Seq(Single(Nat)) PROVE ExpandAll(x) = FlatMap(ExpandMap, x)
  <2>1. \A n \in DOMAIN x : x[n] \in Single(Nat)
    OBVIOUS
  <2>2. [n \in DOMAIN x |-> Expand(x[n])] = [n \in DOMAIN x |-> ExpandMap[x[n]]]
    BY <1>4, <2>1
  <2> QED BY <2>2 DEF ExpandAll, FlatMap, Pieces
<1>7. ApartMap \in [Collapsed(Nat) -> Seq(Single(Nat))]
  BY <1>1 DEF ApartMap
<1>8. ExpandMap \in [Single(Nat) -> Seq(Single(Nat))]
  BY <1>2 DEF ExpandMap
<1> QED BY <1>3, <1>4, <1>5, <1>6, <1>7, <1>8

\* A command that is expanded on its own, and after others.
LEMMA ExpandJoin ==
    ASSUME NEW x \in Seq(Single(Nat)), NEW y \in Seq(Single(Nat))
    PROVE  ExpandAll(x \o y) = ExpandAll(x) \o ExpandAll(y)
<1>1. x \o y \in Seq(Single(Nat))
  BY ConcatProperties
<1>2. FlatMap(ExpandMap, x \o y) = FlatMap(ExpandMap, x) \o FlatMap(ExpandMap, y)
  <2> DEFINE A == Single(Nat)
  <2>1. MapsTo(ExpandMap, A, A) /\ ListOf(x, A) /\ ListOf(y, A)
    BY Passes DEF MapsTo, ListOf
  <2> HIDE DEF A
  <2> QED BY ONLY <2>1, FlatJoins
<1> QED BY <1>1, <1>2, Passes

\* One command.
LEMMA ExpandOne == ASSUME NEW c \in Single(Nat) PROVE ExpandAll(<<c>>) = Expand(c)
<1> DEFINE one == <<c>>
<1>1. one \in Seq(Single(Nat))
  OBVIOUS
<1>2. FlatMap(ExpandMap, one) = ExpandMap[c]
  BY FlatOne
<1> HIDE DEF one
<1>3. ExpandAll(one) = Expand(c)
  BY <1>1, <1>2, Passes
<1> QED BY <1>3 DEF one

\* No command.
LEMMA ExpandNone == ExpandAll(<<>>) = <<>>
<1>1. <<>> \in Seq(Single(Nat))
  BY EmptySeq
<1> QED BY <1>1, FlatNone, Passes

\* Commands on elements are expanded to themselves.
LEMMA ExpandElements ==
    ASSUME NEW x \in Seq(Single(Nat)), \A n \in DOMAIN x : x[n].obj = "elements" PROVE ExpandAll(x) = x
<1>1. ASSUME NEW n \in DOMAIN x PROVE ExpandMap[x[n]] = <<x[n]>>
  <2>1. x[n] \in Single(Nat)
    OBVIOUS
  <2>2. Expand(x[n]) = <<x[n]>>
    BY DEF Expand
  <2> QED BY <2>1, <2>2, Passes
<1>2. FlatMap(ExpandMap, x) = x
  BY <1>1, Passes, FlatSame
<1> QED BY <1>2, Passes

\* What is sent is a list of single commands.
LEMMA SendsType == ASSUME NEW x \in Seq(Collapsed(Nat)) PROVE Sends(x) \in Seq(Single(Nat))
<1>1. Uncollapse(x) \in Seq(Single(Nat))
  BY UncollapseType
<1> QED BY <1>1, ExpandAllType DEF Sends

\* Single commands are commands.
LEMMA SinglesWider == Single(Nat) \subseteq Collapsed(Nat) /\ Seq(Single(Nat)) \subseteq Seq(Collapsed(Nat))
<1>1. Single(Nat) \subseteq Collapsed(Nat)
  BY Kinship
<1>2. ASSUME NEW s \in Seq(Single(Nat)) PROVE s \in Seq(Collapsed(Nat))
  BY <1>1, Wider
<1> QED BY <1>1, <1>2

\* One list after the other is sent one after the other.
LEMMA SendsJoin ==
    ASSUME NEW x \in Seq(Collapsed(Nat)), NEW y \in Seq(Collapsed(Nat))
    PROVE  Sends(x \o y) = Sends(x) \o Sends(y)
<1>1. x \o y \in Seq(Collapsed(Nat))
  BY ConcatProperties
<1>2. FlatMap(ApartMap, x \o y) = FlatMap(ApartMap, x) \o FlatMap(ApartMap, y)
  <2> DEFINE A == Collapsed(Nat)
             B == Single(Nat)
  <2>1. MapsTo(ApartMap, A, B) /\ ListOf(x, A) /\ ListOf(y, A)
    BY Passes DEF MapsTo, ListOf
  <2> HIDE DEF A, B
  <2> QED BY ONLY <2>1, FlatJoins
<1>3. Uncollapse(x \o y) = Uncollapse(x) \o Uncollapse(y)
  BY <1>1, <1>2, Passes
<1>4. Uncollapse(x) \in Seq(Single(Nat)) /\ Uncollapse(y) \in Seq(Single(Nat))
  BY UncollapseType
<1> QED BY <1>3, <1>4, ExpandJoin DEF Sends

\* One command.
LEMMA SendsOne == ASSUME NEW c \in Collapsed(Nat) PROVE Sends(<<c>>) = ExpandAll(Apart(c))
<1> DEFINE one == <<c>>
<1>1. one \in Seq(Collapsed(Nat))
  OBVIOUS
<1>2. FlatMap(ApartMap, one) = ApartMap[c]
  BY FlatOne
<1> HIDE DEF one
<1>3. Uncollapse(one) = Apart(c)
  BY <1>1, <1>2, Passes
<1>4. Sends(one) = ExpandAll(Apart(c))
  BY <1>3 DEF Sends
<1> QED BY <1>4 DEF one

\* A command nothing was merged with.
LEMMA SendsSingle == ASSUME NEW c \in Collapsed(Nat), c.merged = <<>> PROVE c \in Single(Nat) /\ Sends(<<c>>) = Expand(c)
<1>1. c \in Single(Nat)
  BY DEF Collapsed, Single, Records
<1>2. Apart(c) = <<c>>
  BY DEF Apart
<1> QED BY <1>1, <1>2, SendsOne, ExpandOne

\* No command.
LEMMA SendsNone == Sends(<<>>) = <<>>
<1>1. <<>> \in Seq(Collapsed(Nat))
  BY EmptySeq
<1>2. Uncollapse(<<>>) = <<>>
  BY <1>1, FlatNone, Passes
<1> QED BY <1>2, ExpandNone DEF Sends

-----------------------------------------------------------------------------
(***************************************************************************)
(* The run.                                                                *)
(***************************************************************************)
\* The steps of a run: before its commands are sent, and after.
Loading == {"genid", "dump", "stop"}
Before == Loading \cup {"collapse", "eval", "uncollapse", "send"}
After == {"kernel", "receive", "attribute"}

\* A message of the batch is made of a command, whose number it has.
IsMade(x) ==
    \E s \in DOMAIN cmds : \E k \in DOMAIN Messages(cmds[s]) :
        x = [msg |-> Messages(cmds[s])[k], seq |-> s]

\* The list of commands stays well formed, and the batch is made of it.
Lists ==
    /\ pc \in Before \cup After \cup {"idle", "finish"}
    /\ input \in Seq(Single(Nat))
    /\ pc \in Loading \cup {"collapse", "send"} \cup After => cmds \in Seq(Single(0..Len(input)))
    /\ pc \in {"eval", "uncollapse"} => cmds \in Seq(Collapsed(0..Len(input)))
    /\ pc \in Loading \cup {"collapse"} => at = 0
    /\ pc = "eval" => at \in 0..Len(cmds)
    /\ pc \in Before => batch = <<>>
    /\ pc \in After => /\ batch \in Seq(Range(batch)) /\ batch # <<>>
                       /\ \A n \in DOMAIN batch : IsMade(batch[n])

\* Only a fault leaves something in the socket from one talk to the next.
Sockets ==
    /\ faults \in Nat
    /\ overrun => faults # 0
    /\ IsSeq(queue)
    /\ SocketDrained

\* A fresh run has reported nothing.
Fresh ==
    pc \in Before \cup {"kernel", "receive"} =>
        rc = 0 /\ last = Unset /\ reports = {} /\ (pc # "receive" => errs = <<>> /\ handles = {} /\ ~committed)

\* What the kernel complains about: the batch, or a message of a command.
Blames(e) ==
    /\ e.kind = "error" /\ e.run = run
    /\ \/ e.seq = 0 /\ e.off = 0
       \/ \E n \in DOMAIN batch :
             /\ e.seq = batch[n].seq /\ e.cmd = batch[n].msg.cmd
             /\ e.off # 0 => e.at = batch[n].msg.attrs[e.off]

\* A notification about a message of the batch.
Notifies(m) == \E n \in DOMAIN batch : HasHandle(batch[n].msg) /\ m = Event(n)

\* What is received is about this run, and says whether the kernel took the
\* batch.
Answers ==
    /\ IsSeq(errs)
    /\ pc = "receive" /\ ~committed =>
          overrun \/ errs # <<>> \/ \E m \in Range(queue) : m.kind = "error"
    /\ pc = "receive" /\ committed /\ Clean => errs = <<>> /\ \A m \in Range(queue) : Notifies(m)
    /\ pc = "receive" /\ ~committed /\ Clean => \A m \in Range(queue) : Blames(m)
    /\ pc \in {"receive", "attribute"} /\ Clean => \A e \in Range(errs) : Blames(e)
    /\ pc = "attribute" => rc = -1 /\ (Clean => ~committed)
    /\ ResultTrue

\* The search of nft_netlink stands at the command it has found last.
Search ==
    /\ Clean => pos \in Nat \ {0}
    /\ Clean /\ last # Unset => last = pos /\ pos \in 1..Len(cmds)
    /\ ErrorsAtCulprit

\* The commands of the run that are in json_cmd_assoc_list.
Own == IF mode = "json" THEN {[run |-> run, id |-> n] : n \in DOMAIN input} ELSE {}

\* The note of a notification.
Note(m) == [json |-> [run |-> run, id |-> m.cmd], event |-> [run |-> run, id |-> m.cmd]]

NotesDue == {Note(Event(n)) : n \in {k \in DOMAIN batch : HasHandle(batch[k].msg) /\ batch[k].msg.cmd # 0}}

\* What has been noted and what the queue still has are the notes due.
Notes ==
    /\ ~spoilt => assoc = IF pc = "idle" THEN {} ELSE Own
    /\ pc = "receive" /\ committed /\ Clean /\ ~spoilt /\ mode = "json" =>
          handles \cup {Note(m) : m \in {x \in Range(queue) : x.cmd # 0}} = NotesDue
    /\ HandlesAtCommands

BatchInv == Lists /\ Sockets /\ Fresh /\ Answers /\ Search /\ Notes
-----------------------------------------------------------------------------
(***************************************************************************)
(* Lists.                                                                  *)
(***************************************************************************)
\* The commands of a run, numbered.
LEMMA NumberedInput ==
    ASSUME NEW i \in Seq(Single({0}))
    PROVE  LET s == [n \in DOMAIN i |-> [i[n] EXCEPT !.id = n]]
           IN  s \in Seq(Single(0..Len(s))) /\ s \in Seq(Single(Nat))
<1> DEFINE s == [n \in DOMAIN i |-> [i[n] EXCEPT !.id = n]]
<1>1. DOMAIN i = 1..Len(i) /\ Len(i) \in Nat /\ \A n \in DOMAIN i : i[n] \in Single({0})
  OBVIOUS
<1>2. ASSUME NEW n \in DOMAIN i PROVE [i[n] EXCEPT !.id = n] \in Single(0..Len(i))
  <2>1. n \in 0..Len(i) /\ i[n] \in Single({0})
    BY <1>1
  <2>2. ASSUME NEW c \in Single({0}) PROVE [c EXCEPT !.id = n] \in Single(0..Len(i))
    BY <2>1 DEF Single, Records
  <2> QED BY <2>1, <2>2
<1>3. s \in [1..Len(i) -> Single(0..Len(i))]
  BY <1>1, <1>2
<1>4. s \in Seq(Single(0..Len(i))) /\ Len(s) = Len(i)
  <2> HIDE DEF s
  <2> QED BY <1>1, <1>3, MadeSeq
<1>5. Single(0..Len(i)) \subseteq Single(Nat)
  BY <1>1 DEF Single, Records
<1>6. s \in Seq(Single(Nat))
  <2> HIDE DEF s
  <2> QED BY <1>4, <1>5, Wider
<1> HIDE DEF s
<1>7. s \in Seq(Single(0..Len(s))) /\ s \in Seq(Single(Nat))
  BY <1>4, <1>6
<1> QED BY <1>7 DEF s

\* Evaluated elements are elements.
LEMMA EvaluatedType ==
    ASSUME NEW elems \in Seq(Elements), NEW e \in Evaluated(elems) PROVE e \in Seq(Elements)
<1> DEFINE n == Len(elems)
<1>1. n \in Nat /\ DOMAIN elems = 1..n /\ \A k \in 1..n : elems[k] \in Elements
  OBVIOUS
<1>2. ASSUME NEW k \in DOMAIN elems, e = [elems EXCEPT ![k].cmd = 0] PROVE e \in Seq(Elements)
  <2>1. [elems[k] EXCEPT !.cmd = 0] \in Elements
    BY <1>1 DEF Elements
  <2> QED BY <1>2, <2>1
<1>3. ASSUME NEW m \in 1..(n - 1),
             e = [k \in 1..(n - 1) |->
                    IF k < m THEN elems[k]
                    ELSE IF k = m THEN [elems[m] EXCEPT !.keys = @ \cup elems[m + 1].keys]
                    ELSE elems[k + 1]]
      PROVE  e \in Seq(Elements)
  <2>1. m \in 1..n /\ m + 1 \in 1..n /\ n - 1 \in Nat
    BY <1>1
  <2>2. elems[m] \in Elements /\ elems[m + 1] \in Elements
    BY <1>1, <2>1
  <2>3. [elems[m] EXCEPT !.keys = @ \cup elems[m + 1].keys] \in Elements
    BY <2>2 DEF Elements
  <2>4. \A k \in 1..(n - 1) : k \in 1..n /\ k + 1 \in 1..n
    BY <1>1
  <2>5. \A k \in 1..(n - 1) : elems[k] \in Elements /\ elems[k + 1] \in Elements
    BY <1>1, <2>4
  <2>6. e \in [1..(n - 1) -> Elements]
    <3> HIDE DEF n
    <3> QED BY <1>3, <2>3, <2>5
  <2> QED BY <2>1, <2>6, MadeSeq
<1>4. CASE e = elems
  BY <1>4
<1> QED BY <1>2, <1>3, <1>4 DEF Evaluated

\* Three parts of one list, joined.
LEMMA ThreeJoined ==
    ASSUME NEW S, NEW a \in Seq(S), NEW b \in Seq(S), NEW d \in Seq(S)
    PROVE  a \o b \o d \in Seq(S) /\ Len(a \o b \o d) = Len(a) + Len(b) + Len(d)
<1>1. a \o b \in Seq(S) /\ Len(a \o b) = Len(a) + Len(b)
  OBVIOUS
<1>2. (a \o b) \o d \in Seq(S) /\ Len((a \o b) \o d) = Len(a \o b) + Len(d)
  BY <1>1
<1> QED BY <1>1, <1>2

\* So is what nft deletes on its own.
LEMMA PurgeType ==
    ASSUME NEW I, 0 \in I, NEW c, c.name \in Name PROVE Purge(c) \in Collapsed(I)
<1> DEFINE own == <<Elem({"old"})>>
<1>1. Elem({"old"}) \in Elements
  BY DEF Elem, Elements
<1>2. own \in Seq(Elements) /\ \A S : <<>> \in Seq(S)
  BY <1>1
<1>3. Cmd("delete", "elements", c.name) \in Collapsed(I)
  <2> DEFINE E == Seq(Elements)
             M == Seq(Single(I))
             B == Seq(Declarations)
             N == SUBSET Name
  <2>1. <<>> \in E /\ <<>> \in M /\ <<>> \in B /\ {} \in N
    BY <1>2
  <2>2. Collapsed(I) = {x \in [id : I, op : Ops, obj : Objs, name : Name,
                               elems : E, merged : M, body : B, needs : N] :
                           x.obj = "elements" => x.op # "flush"}
    BY DEF Collapsed, Records
  <2> HIDE DEF E, M, B, N
  <2> QED BY <2>1, <2>2 DEF Cmd, Ops, Objs
<1>4. Purge(c) = [Cmd("delete", "elements", c.name) EXCEPT !.elems = own]
  BY DEF Purge
<1> HIDE DEF own
<1>5. ASSUME NEW x \in Collapsed(I) PROVE [x EXCEPT !.elems = own] \in Collapsed(I)
  BY <1>2 DEF Collapsed, Records, Elements
<1> QED BY <1>3, <1>4, <1>5

\* The batch is made of the commands.
LEMMA BatchMade ==
    ASSUME NEW I, cmds \in Seq(Single(I))
    PROVE  LET b == FlattenSeq([n \in DOMAIN cmds |-> Numbered(n)])
           IN  b \in Seq(Range(b)) /\ \A n \in DOMAIN b : IsMade(b[n])
<1> DEFINE parts == [n \in DOMAIN cmds |-> Numbered(n)]
           b == FlattenSeq(parts)
           Made == {x \in UNION {Range(Numbered(n)) : n \in DOMAIN cmds} : IsMade(x)}
<1>1. DOMAIN cmds = 1..Len(cmds) /\ Len(cmds) \in Nat /\ \A n \in DOMAIN cmds : cmds[n] \in Single(I)
  OBVIOUS
<1>2. ASSUME NEW n \in DOMAIN cmds PROVE Numbered(n) \in Seq(Made)
  <2> DEFINE own == Messages(cmds[n])
             s == [k \in DOMAIN own |-> [msg |-> own[k], seq |-> n]]
  <2>1. IsSeq(own) /\ DOMAIN own = 1..Len(own)
    BY <1>1, MessagesType
  <2>2. Len(own) \in Nat
    BY <2>1 DEF IsSeq
  <2>3. Numbered(n) = s
    BY DEF Numbered
  <2>4. \A k \in DOMAIN own : IsMade(s[k]) /\ s[k] \in Range(s)
    BY DEF IsMade, Range
  <2>5. s \in [1..Len(own) -> Made]
    BY <2>1, <2>3, <2>4
  <2> HIDE DEF s, Made, own
  <2> QED BY <2>2, <2>3, <2>5, MadeSeq
<1>3. parts \in [1..Len(cmds) -> Seq(Made)]
  <2> HIDE DEF Made
  <2> QED BY <1>1, <1>2
<1>4. parts \in Seq(Seq(Made))
  <2> HIDE DEF parts, Made
  <2> QED BY <1>1, <1>3, MadeSeq
<1>5. b \in Seq(Made)
  <2> HIDE DEF parts, Made
  <2> QED BY <1>4, FlattenType
<1>6. b \in Seq(Range(b)) /\ \A n \in DOMAIN b : b[n] \in Made
  <2> HIDE DEF b, Made
  <2> QED BY <1>5, SeqOfRange
<1> HIDE DEF b
<1>7. b \in Seq(Range(b)) /\ \A n \in DOMAIN b : IsMade(b[n])
  BY <1>6
<1> QED BY <1>7 DEF b

\* The commands keep to their types on their way into the batch.
THEOREM ListsAlways == Spec => []Lists
<1>1. Init => Lists
  <2>1. Init => input \in Seq(Single(Nat)) /\ pc = "idle"
    <3>1. <<>> \in Seq(Single(Nat))
      OBVIOUS
    <3> QED BY <3>1 DEF Init
  <2> QED BY <2>1 DEF Lists, Before, After, Loading
<1>2. Lists /\ [Next]_vars => Lists'
  <2> SUFFICES ASSUME Lists, [Next]_vars PROVE Lists'
    OBVIOUS
  <2> DEFINE Ids == 0..Len(input)
  <2>t. Len(input) \in Nat /\ Ids \subseteq Nat /\ 0 \in Ids
    BY DEF Lists
  <2> USE DEF Before, After, Loading
  <2>1. CASE Begin
    <3>1. PICK i \in Inputs : input' = [n \in DOMAIN i |-> [i[n] EXCEPT !.id = n]] /\ cmds' = input'
      BY <2>1 DEF Begin
    <3>2. i \in Seq(Single({0}))
      BY InputAssumption
    <3>3. input' \in Seq(Single(0..Len(input'))) /\ input' \in Seq(Single(Nat))
      BY <3>1, <3>2, NumberedInput
    <3>4. pc' = "genid" /\ batch' = <<>> /\ cmds' = input' /\ at' = 0
      BY <2>1, <3>1 DEF Begin
    <3> QED BY <3>3, <3>4 DEF Lists
  <2>2. CASE Genid \/ Dump \/ GenidStop
    <3>1. /\ pc \in Loading /\ pc' \in Loading \cup {"collapse", "finish"}
          /\ UNCHANGED <<input, cmds, at, batch>>
      BY <2>2 DEF Genid, Dump, GenidStop, GenidGet, Fail, given, list
    <3> QED BY <3>1 DEF Lists
  <2>3. CASE CollapseAll
    <3>1. pc = "collapse" /\ pc' = "eval" /\ cmds' = Collapse(cmds) /\ at' = at /\ input' = input /\ batch' = batch
      BY <2>3 DEF CollapseAll, given
    <3>2. cmds' \in Seq(Collapsed(Ids))
      BY <2>t, <3>1, CollapseType DEF Lists
    <3>3. at' \in 0..Len(cmds')
      <4>1. at = 0 /\ Len(cmds') \in Nat
        BY <3>1, <3>2 DEF Lists
      <4> QED BY <3>1, <4>1
    <3> QED BY <3>1, <3>2, <3>3 DEF Lists
  <2>4. CASE Evaluate
    <3> DEFINE c == cmds[at + 1]
    <3>1. pc = "eval" /\ pc' = "eval" /\ at < Len(cmds) /\ UNCHANGED <<input, batch>>
      BY <2>4 DEF Evaluate, given
    <3>2. cmds \in Seq(Collapsed(Ids)) /\ at \in 0..Len(cmds) /\ Len(cmds) \in Nat
      BY <3>1 DEF Lists
    <3>3. at + 1 \in 1..Len(cmds) /\ c \in Collapsed(Ids)
      BY <3>1, <3>2
    <3>4. c.elems \in Seq(Elements) /\ c.name \in Name
      BY <3>3 DEF Collapsed, Records, Elements
    <3>5. ASSUME NEW elems \in Evaluated(c.elems) PROVE [c EXCEPT !.elems = elems] \in Collapsed(Ids)
      <4>1. elems \in Seq(Elements)
        BY <3>4, EvaluatedType
      <4> QED BY <3>3, <4>1 DEF Collapsed, Records, Elements
    <3>6. Purge(c) \in Collapsed(Ids)
      BY <2>t, <3>4, PurgeType
    <3>7. CASE AddsElements(c)
      <4>1. PICK elems \in Evaluated(c.elems) :
               \/ cmds' = [cmds EXCEPT ![at + 1].elems = elems] /\ at' = at + 1
               \/ /\ cmds' = SubSeq(cmds, 1, at) \o <<Purge(c), [c EXCEPT !.elems = elems]>>
                             \o SubSeq(cmds, at + 2, Len(cmds))
                  /\ at' = at + 2
        BY <2>4, <3>7 DEF Evaluate
      <4>2. [c EXCEPT !.elems = elems] \in Collapsed(Ids)
        BY <3>5
      <4>3. CASE cmds' = [cmds EXCEPT ![at + 1].elems = elems] /\ at' = at + 1
        <5>1. cmds' = [cmds EXCEPT ![at + 1] = [c EXCEPT !.elems = elems]]
          BY <4>3
        <5>2. cmds' \in Seq(Collapsed(Ids)) /\ Len(cmds') = Len(cmds)
          BY <3>2, <3>3, <4>2, <5>1
        <5> QED BY <3>1, <3>2, <3>3, <4>3, <5>2 DEF Lists
      <4>4. CASE /\ cmds' = SubSeq(cmds, 1, at) \o <<Purge(c), [c EXCEPT !.elems = elems]>>
                             \o SubSeq(cmds, at + 2, Len(cmds))
                 /\ at' = at + 2
        <5> DEFINE a == SubSeq(cmds, 1, at)
                   b == <<Purge(c), [c EXCEPT !.elems = elems]>>
                   d == SubSeq(cmds, at + 2, Len(cmds))
        <5>1. a \in Seq(Collapsed(Ids)) /\ Len(a) = at
          BY <3>2, SubSeqProperties
        <5>2. b \in Seq(Collapsed(Ids)) /\ Len(b) = 2
          BY <3>6, <4>2
        <5>3. d \in Seq(Collapsed(Ids))
          BY <3>2, <3>3, SubSeqProperties
        <5> HIDE DEF a, b, d
        <5>4. cmds' \in Seq(Collapsed(Ids)) /\ Len(cmds') = at + 2 + Len(d) /\ Len(d) \in Nat
          <6>1. cmds' = a \o b \o d
            BY <4>4 DEF a, b, d
          <6>2. a \o b \o d \in Seq(Collapsed(Ids)) /\ Len(a \o b \o d) = Len(a) + Len(b) + Len(d)
            <7> DEFINE S == Collapsed(Ids)
            <7>1. a \in Seq(S) /\ b \in Seq(S) /\ d \in Seq(S)
              BY <5>1, <5>2, <5>3
            <7> HIDE DEF S
            <7>2. a \o b \o d \in Seq(S) /\ Len(a \o b \o d) = Len(a) + Len(b) + Len(d)
              BY <7>1, ThreeJoined
            <7> QED BY <7>2 DEF S
          <6>3. Len(d) \in Nat
            BY <5>3
          <6> QED BY <5>1, <5>2, <6>1, <6>2, <6>3
        <5>5. at' \in 0..Len(cmds')
          <6>1. at' = at + 2
            BY <4>4, Zenon
          <6>2. at \in Nat
            BY <3>2
          <6> QED BY <5>4, <6>1, <6>2
        <5> QED BY <3>1, <5>4, <5>5 DEF Lists
      <4> QED BY <4>1, <4>3, <4>4
    <3>8. CASE ~AddsElements(c)
      <4>1. at' = at + 1 /\ cmds' = cmds
        BY <2>4, <3>8 DEF Evaluate
      <4> QED BY <3>1, <3>2, <3>3, <4>1 DEF Lists
    <3> QED BY <3>7, <3>8
  <2>5. CASE EvaluateFails
    <3>1. pc = "eval" /\ pc' \in {"eval", "uncollapse"} /\ UNCHANGED <<input, cmds, batch>> /\ at' = at + 1 /\ at < Len(cmds)
      BY <2>5 DEF EvaluateFails, given
    <3>2. at' \in 0..Len(cmds)
      BY <3>1 DEF Lists
    <3> QED BY <3>1, <3>2 DEF Lists
  <2>6. CASE UncollapseAll
    <3>1. pc \in {"eval", "uncollapse"} /\ pc' \in {"send", "finish"} /\ UNCHANGED <<input, batch>>
      BY <2>6 DEF UncollapseAll, given, Fail
    <3>2. cmds \in Seq(Collapsed(Ids))
      BY <3>1 DEF Lists
    <3>3. pc' = "send" => cmds' = ExpandAll(Uncollapse(cmds))
      BY <2>6 DEF UncollapseAll, given, Fail
    <3>4. ExpandAll(Uncollapse(cmds)) \in Seq(Single(Ids))
      BY <2>t, <3>2, UncollapseType, ExpandAllType
    <3> QED BY <3>1, <3>3, <3>4 DEF Lists
  <2>7. CASE Send
    <3>1. /\ pc = "send" /\ batch' = FlattenSeq([n \in DOMAIN cmds |-> Numbered(n)])
          /\ pc' = (IF batch' = <<>> THEN "finish" ELSE "kernel") /\ UNCHANGED <<input, cmds, at>>
      BY <2>7 DEF Send, given, list
    <3>2. cmds \in Seq(Single(Ids))
      BY <3>1 DEF Lists
    <3>3. batch' \in Seq(Range(batch')) /\ \A n \in DOMAIN batch' : IsMade(batch'[n])
      BY <3>1, <3>2, BatchMade
    <3>4. \A x : IsMade(x)' = IsMade(x)
      BY <3>1 DEF IsMade
    <3> QED BY <3>1, <3>3 DEF Lists, IsMade
  <2>8. CASE SendFails
    BY <2>8 DEF SendFails, Fail, Lists, given, list
  <2>9. CASE KernelTakes \/ KernelRefuses \/ Receive \/ ReceiveFails \/ Signal \/ AllReceived \/ Attribute \/ AllAttributed
    <3>1. UNCHANGED <<input, cmds, at, batch>> /\ pc \in After /\ pc' \in After \cup {"finish"}
      BY <2>9 DEF KernelTakes, KernelRefuses, Receive, ReceiveFails, Signal, AllReceived, Attribute, AllAttributed, Fail, given, list
    <3> QED BY <3>1 DEF Lists, IsMade
  <2>10. CASE Finish
    <3>1. pc' = "idle" /\ UNCHANGED <<input, cmds, at, batch>>
      BY <2>10 DEF Finish, given, list
    <3> QED BY <3>1 DEF Lists, IsMade
  <2>11. CASE UNCHANGED vars
    <3>1. UNCHANGED <<pc, input, cmds, at, batch>>
      BY <2>11 DEF vars, given, list
    <3> QED BY <3>1 DEF Lists, IsMade
  <2> QED BY <2>1, <2>2, <2>3, <2>4, <2>5, <2>6, <2>7, <2>8, <2>9, <2>10, <2>11 DEF Next
<1> QED BY <1>1, <1>2, PTL DEF Spec
-----------------------------------------------------------------------------
(***************************************************************************)
(* Sockets.                                                                *)
(***************************************************************************)
\* What is left of a sequence is a sequence.
LEMMA RestSeq ==
    ASSUME NEW s, IsSeq(s), NEW n \in 0..Len(s) PROVE IsSeq(SubSeq(s, n + 1, Len(s)))
<1>1. s \in Seq(Range(s)) /\ Len(s) \in Nat
  BY DEF IsSeq
<1>2. n + 1 \in Int /\ \A k \in (n + 1)..Len(s) : k \in 1..Len(s)
  BY <1>1
<1>3. SubSeq(s, n + 1, Len(s)) \in Seq(Range(s))
  BY <1>1, <1>2, SubSeqProperties
<1> QED BY <1>3, AnySeq

\* A talk takes a number of messages from the queue.
LEMMA ReceivedType == ASSUME NEW q, IsSeq(q), NEW s PROVE Received(q, s) \in 0..Len(q)
<1> DEFINE Ends(n) == ~SeqOk(q[n], s) \/ q[n].kind \in {"error", "done"}
           ends == {n \in DOMAIN q : Ends(n)}
           End(n) == n \in ends /\ \A k \in ends : n <= k
<1>1. DOMAIN q = 1..Len(q) /\ Len(q) \in Nat
  BY DEF IsSeq
<1>2. Received(q, s) = IF ends = {} THEN Len(q) ELSE CHOOSE n \in ends : \A k \in ends : n <= k
  BY DEF Received
<1>3. ends \in SUBSET Nat
  BY <1>1
<1> HIDE DEF ends
<1>4. CASE ends = {}
  BY <1>1, <1>2, <1>4
<1>5. CASE ends # {}
  <2>1. \E n \in ends : \A k \in ends : n <= k
    BY <1>3, <1>5, Least
  <2>2. Received(q, s) \in ends
    BY <1>2, <1>5, <2>1
  <2> QED BY <1>1, <2>2 DEF ends
<1> QED BY <1>4, <1>5

\* What a talk leaves is a sequence.
LEMMA TalkType ==
    ASSUME NEW q, IsSeq(q), NEW answer, IsSeq(answer), NEW s PROVE IsSeq(Talk(q, answer, s).queue)
<1>1. IsSeq(q \o answer)
  BY JoinedSeq
<1>2. Received(q \o answer, s) \in 0..Len(q \o answer)
  BY <1>1, ReceivedType
<1> QED BY <1>1, <1>2, RestSeq DEF Talk

\* A talk that finds the socket empty leaves it empty.
LEMMA GenidDrains == ASSUME NEW s PROVE Talk(<<>>, <<Reply("gen", s)>>, s).queue = <<>>
<1> DEFINE all == <<Reply("gen", s)>>
<1>1. <<>> \o all = all /\ Len(all) = 1 /\ DOMAIN all = {1}
  OBVIOUS
<1>2. SeqOk(all[1], s) /\ all[1].kind = "gen"
  BY DEF SeqOk, Reply
<1> HIDE DEF all
<1>3. Received(all, s) = 1
  BY <1>1, <1>2 DEF Received
<1>4. SubSeq(all, 2, 1) = <<>>
  <2>1. all \in Seq({all[1]})
    BY DEF all
  <2> QED BY <2>1, SubSeqEmpty
<1> QED BY <1>1, <1>3, <1>4 DEF Talk, all

\* So does one that dumps.
LEMMA DumpDrains ==
    ASSUME NEW s PROVE Talk(<<>>, <<Reply("object", s), Reply("done", s)>>, s).queue = <<>>
<1> DEFINE all == <<Reply("object", s), Reply("done", s)>>
<1>1. <<>> \o all = all /\ Len(all) = 2 /\ DOMAIN all = {1, 2}
  OBVIOUS
<1>2. SeqOk(all[1], s) /\ all[1].kind = "object" /\ SeqOk(all[2], s) /\ all[2].kind = "done"
  BY DEF SeqOk, Reply
<1>3. all \in Seq({all[1], all[2]})
  OBVIOUS
<1> HIDE DEF all
<1>4. Received(all, s) = 2
  <2> DEFINE ends == {n \in DOMAIN all : ~SeqOk(all[n], s) \/ all[n].kind \in {"error", "done"}}
  <2>1. ends = {2}
    BY <1>1, <1>2
  <2>2. Received(all, s) = IF ends = {} THEN Len(all) ELSE CHOOSE n \in ends : \A k \in ends : n <= k
    BY DEF Received
  <2> HIDE DEF ends
  <2>3. 2 \in ends /\ \A k \in ends : 2 <= k
    BY <2>1
  <2> QED BY <2>1, <2>2, <2>3
<1>5. SubSeq(all, 3, 2) = <<>>
  BY <1>3, SubSeqEmpty
<1>6. 2 + 1 = 3
  OBVIOUS
<1> QED BY <1>1, <1>4, <1>5, <1>6 DEF Talk, all

\* The answers of the kernel: one error about the batch, errors about its
\* messages, or notifications about them.
IsBlame(answer) == IsSeq(answer) /\ answer # <<>> /\ \A m \in Range(answer) : Blames(m)

\* The error about the whole batch is about this run.
LEMMA WholeBlame == IsBlame(<<WholeBatch>>)
<1>1. Blames(WholeBatch)
  BY DEF Blames, WholeBatch, Reply
<1> QED BY <1>1, OneSeq DEF IsBlame

\* So are the errors about messages of the batch.
LEMMA ErrorsBlame ==
    ASSUME IsSeq(batch), NEW refused \in SUBSET DOMAIN batch, refused # {}, NEW answer \in ErrorsOf(refused)
    PROVE  IsBlame(answer)
<1> DEFINE Of1(n) == {<<Error(n, off)>> : off \in {0, Len(batch[n].msg.attrs)}}
           first == CHOOSE n \in refused : \A k \in refused : n <= k
           rest == refused \ {first}
           second == CHOOSE n \in rest : TRUE
<1>1. refused \in SUBSET Nat
  BY DEF IsSeq
<1>2. first \in refused
  <2>1. \E n \in refused : \A k \in refused : n <= k
    BY <1>1, Least
  <2> QED BY <2>1
<1>3. ASSUME NEW n \in DOMAIN batch, NEW e \in Of1(n) PROVE IsBlame(e)
  <2>1. PICK off : e = <<Error(n, off)>>
    BY <1>3
  <2>2. Blames(Error(n, off))
    BY DEF Blames, Error
  <2> QED BY <2>1, <2>2, OneSeq DEF IsBlame
<1> DEFINE All == IF rest = {} THEN Of1(first)
                  ELSE UNION {{e \o f, f \o e} : e \in Of1(first), f \in Of1(second)}
<1>4. answer \in All
  <2>1. ErrorsOf(refused) = All
    BY DEF ErrorsOf
  <2> HIDE DEF All
  <2> QED BY <2>1
<1>5. rest # {} => second \in DOMAIN batch
  OBVIOUS
<1> HIDE DEF first, rest, second, Of1
<1>6. CASE rest = {}
  BY <1>2, <1>3, <1>4, <1>6
<1>7. CASE rest # {}
  <2>1. PICK e \in Of1(first), f \in Of1(second) : answer \in {e \o f, f \o e}
    BY <1>4, <1>7
  <2>2. IsBlame(e) /\ IsBlame(f)
    BY <1>2, <1>3, <1>5, <1>7
  <2>3. ASSUME NEW s, NEW t, IsBlame(s), IsBlame(t) PROVE IsBlame(s \o t)
    <3>1. IsSeq(s \o t) /\ s \o t # <<>> /\ Range(s \o t) = Range(s) \cup Range(t)
      BY <2>3, TwoSeq, JoinedSeq DEF IsBlame
    <3> QED BY <2>3, <3>1 DEF IsBlame
  <2> QED BY <2>1, <2>2, <2>3
<1> QED BY <1>6, <1>7

\* Notifications are about messages of the batch, and about all that make something.
LEMMA EventsType ==
    ASSUME IsSeq(batch)
    PROVE  /\ IsSeq(Events) /\ \A m \in Range(Events) : Notifies(m)
           /\ mode # "plain" => Range(Events) = {Event(n) : n \in {k \in DOMAIN batch : HasHandle(batch[k].msg)}}
<1> DEFINE all == [n \in DOMAIN batch |-> Event(n)]
           places == {n \in DOMAIN batch : HasHandle(batch[n].msg)}
<1>1. DOMAIN batch = 1..Len(batch) /\ Len(batch) \in Nat
  BY DEF IsSeq
<1>2. all \in [1..Len(batch) -> {Event(n) : n \in DOMAIN batch}]
  BY <1>1
<1>3. all \in Seq({Event(n) : n \in DOMAIN batch}) /\ DOMAIN all = DOMAIN batch
  <2> DEFINE S == {Event(n) : n \in DOMAIN batch}
  <2>1. all \in Seq(S)
    <3> HIDE DEF all, S
    <3> QED BY <1>1, <1>2, MadeSeq DEF S
  <2> QED BY <2>1
<1>4. Picked(all, places) \in Seq({Event(n) : n \in DOMAIN batch})
  <2> HIDE DEF all, places
  <2> QED BY <1>3, PickedType
<1>5. Range(Picked(all, places)) = {all[n] : n \in DOMAIN all \cap places}
  <2> HIDE DEF all, places
  <2> QED BY <1>3, PickedRange
<1>6. {all[n] : n \in DOMAIN all \cap places} = {Event(n) : n \in places}
  BY <1>3
<1>7. CASE mode = "plain"
  <2>1. Events = <<>>
    BY <1>7 DEF Events
  <2>2. <<>> \in Seq({}) /\ Range(<<>>) = {}
    <3>1. DOMAIN <<>> = {} /\ <<>> \in Seq({})
      OBVIOUS
    <3> QED BY <3>1 DEF Range
  <2> QED BY <1>7, <2>1, <2>2, AnySeq
<1>8. CASE mode # "plain"
  <2>1. Events = Picked(all, places)
    BY <1>8 DEF Events
  <2>2. IsSeq(Events)
    <3> HIDE DEF all, places
    <3> QED BY <1>4, <2>1, AnySeq
  <2>3. Range(Events) = {Event(n) : n \in places}
    BY <1>5, <1>6, <2>1
  <2> QED BY <2>2, <2>3 DEF Notifies
<1> QED BY <1>7, <1>8
\* The kernel's answer is about this run: the batch is taken and notified
\* about, or it is not and something is blamed for it.
Answered(answer) ==
    \/ committed' = TRUE /\ answer = Events
    \/ committed' = committed /\ IsBlame(answer)

\* Either answer of the kernel is one of these, and nothing else changes.
LEMMA KernelAnswers ==
    ASSUME Lists, KernelTakes \/ KernelRefuses
    PROVE  /\ \E answer : IsSeq(answer) /\ Answered(answer) /\ Deliver(answer)
           /\ pc = "kernel" /\ pc' = "receive"
           /\ UNCHANGED <<given, list, rc, cachevars, batch, loop, json>>
<1>1. pc = "kernel" /\ pc' = "receive" /\ UNCHANGED <<given, list, rc, cachevars, batch, loop, json>>
  BY DEF KernelTakes, KernelRefuses
<1>2. IsSeq(batch)
  BY <1>1 DEF Lists, After, IsSeq
<1>3. CASE KernelTakes
  <2>1. committed' = TRUE /\ Deliver(Events)
    BY <1>3 DEF KernelTakes
  <2>2. IsSeq(Events) /\ Answered(Events)
    BY <1>2, <2>1, EventsType DEF Answered
  <2> QED BY <1>1, <2>1, <2>2
<1>4. CASE KernelRefuses
  <2>1. committed' = committed
    BY <1>4 DEF KernelRefuses
  <2>2. CASE Deliver(<<WholeBatch>>)
    <3>1. IsBlame(<<WholeBatch>>)
      BY WholeBlame
    <3>2. IsSeq(<<WholeBatch>>) /\ Answered(<<WholeBatch>>)
      BY <2>1, <3>1 DEF Answered, IsBlame
    <3> QED BY <1>1, <2>2, <3>2
  <2>3. CASE \E refused \in SUBSET DOMAIN batch :
                refused # {} /\ \E answer \in ErrorsOf(refused) : Deliver(answer)
    <3>1. PICK refused \in SUBSET DOMAIN batch :
                refused # {} /\ \E answer \in ErrorsOf(refused) : Deliver(answer)
      BY <2>3
    <3>2. PICK answer \in ErrorsOf(refused) : Deliver(answer)
      BY <3>1
    <3>3. IsBlame(answer)
      BY <1>2, <3>1, ErrorsBlame
    <3>4. IsSeq(answer) /\ Answered(answer)
      BY <2>1, <3>3 DEF Answered, IsBlame
    <3> QED BY <1>1, <3>2, <3>4
  <2> QED BY <1>4, <2>2, <2>3 DEF KernelRefuses
<1> QED BY <1>3, <1>4

\* What Deliver does to the socket.
LEMMA Delivered ==
    ASSUME Sockets, NEW answer, IsSeq(answer), Deliver(answer)
    PROVE  /\ IsSeq(queue') /\ faults' \in Nat /\ (overrun' => faults' # 0)
           /\ \/ queue' = queue \o answer /\ overrun' = overrun /\ faults' = faults
              \/ overrun' = TRUE /\ faults' = faults + 1
<1>1. CASE queue' = queue \o answer /\ UNCHANGED <<overrun, faults>>
  BY <1>1, JoinedSeq DEF Sockets
<1>2. CASE /\ faults < MaxFaults /\ answer # <<>>
           /\ queue' = queue \o SubSeq(answer, 1, Len(answer) - 1)
           /\ overrun' = TRUE /\ faults' = faults + 1
  <2>1. faults' \in Nat /\ faults' # 0
    BY <1>2 DEF Sockets
  <2>2. IsSeq(SubSeq(answer, 1, Len(answer) - 1))
    <3>1. answer \in Seq(Range(answer)) /\ Len(answer) \in Nat
      BY DEF IsSeq
    <3>2. Len(answer) - 1 \in Int /\ \A k \in 1..(Len(answer) - 1) : k \in 1..Len(answer)
      BY <3>1
    <3>3. SubSeq(answer, 1, Len(answer) - 1) \in Seq(Range(answer))
      BY <3>1, <3>2, SubSeqProperties
    <3> QED BY <3>3, AnySeq
  <2> QED BY <1>2, <2>1, <2>2, JoinedSeq DEF Sockets
<1> QED BY <1>1, <1>2 DEF Deliver

\* A message taken from a queue.
LEMMA TailSeq ==
    ASSUME NEW s, IsSeq(s), s # <<>>
    PROVE  IsSeq(Tail(s)) /\ Range(s) = {Head(s)} \cup Range(Tail(s))
<1>1. s \in Seq(Range(s)) /\ Len(s) \in Nat \ {0} /\ DOMAIN s = 1..Len(s)
  BY DEF IsSeq
<1>2. Tail(s) \in Seq(Range(s)) /\ Len(Tail(s)) = Len(s) - 1 /\ Head(s) = s[1]
  BY <1>1
<1>3. \A i \in 1..(Len(s) - 1) : Tail(s)[i] = s[i + 1]
  BY <1>1
<1>4. DOMAIN Tail(s) = 1..(Len(s) - 1)
  BY <1>2
<1>5. \A x \in Range(s) : x = Head(s) \/ x \in Range(Tail(s))
  <2>1. ASSUME NEW i \in DOMAIN s PROVE s[i] = Head(s) \/ s[i] \in Range(Tail(s))
    <3>1. CASE i = 1
      BY <1>2, <3>1
    <3>2. CASE i # 1
      <4>1. i - 1 \in 1..(Len(s) - 1) /\ (i - 1) + 1 = i
        BY <1>1, <3>2
      <4>2. s[i] = Tail(s)[i - 1]
        BY <1>3, <4>1
      <4> QED BY <1>4, <4>1, <4>2 DEF Range
    <3> QED BY <3>1, <3>2
  <2> QED BY <2>1 DEF Range
<1>6. Head(s) \in Range(s) /\ \A x \in Range(Tail(s)) : x \in Range(s)
  <2>1. 1 \in DOMAIN s
    BY <1>1
  <2>2. \A i \in 1..(Len(s) - 1) : i + 1 \in DOMAIN s
    BY <1>1
  <2> QED BY <1>2, <1>3, <1>4, <2>1, <2>2 DEF Range
<1> QED BY <1>2, <1>5, <1>6, AnySeq

\* A talk leaves a sequence, and nothing when it has found nothing.
LEMMA TalksDrain ==
    ASSUME Sockets, pc # "receive", NEW answer,
           answer \in {<<Reply("gen", TalkSeq)>>, <<Reply("object", TalkSeq), Reply("done", TalkSeq)>>}
    PROVE  IsSeq(Talks(answer).queue) /\ (Clean => Talks(answer).queue = <<>>)
<1>1. IsSeq(answer) /\ IsSeq(queue)
  <2>1. IsSeq(<<Reply("object", TalkSeq), Reply("done", TalkSeq)>>)
    <3>1. <<Reply("object", TalkSeq), Reply("done", TalkSeq)>> \in Seq({Reply("object", TalkSeq), Reply("done", TalkSeq)})
      OBVIOUS
    <3> QED BY <3>1, AnySeq
  <2> QED BY <2>1, OneSeq DEF Sockets
<1>2. CASE overrun
  <2>1. ~Clean
    BY <1>2 DEF Sockets, Clean
  <2>2. Talks(answer).queue = queue \o answer
    BY <1>2 DEF Talks
  <2> QED BY <1>1, <2>1, <2>2, JoinedSeq
<1>3. CASE ~overrun
  <2>1. Talks(answer) = Talk(queue, answer, TalkSeq)
    BY <1>3 DEF Talks
  <2>2. Clean => queue = <<>>
    BY DEF Sockets, SocketDrained
  <2>3. Clean => Talk(queue, answer, TalkSeq).queue = <<>>
    BY <2>2, GenidDrains, DumpDrains
  <2> QED BY <1>1, <2>1, <2>3, TalkType
<1> QED BY <1>2, <1>3

\* A socket in which no fault has happened is empty between the talks.
THEOREM SocketsAlways == Spec => []Sockets
<1>1. Init => Sockets
  <2>1. IsSeq(<<>>)
    <3>1. <<>> \in Seq({})
      OBVIOUS
    <3> QED BY <3>1, AnySeq
  <2> QED BY <2>1 DEF Init, Sockets, SocketDrained
<1>2. Lists /\ Sockets /\ [Next]_vars => Sockets'
  <2> SUFFICES ASSUME Lists, Sockets, [Next]_vars PROVE Sockets'
    OBVIOUS
  <2>1. CASE UNCHANGED <<queue, overrun, faults>> /\ (pc = "receive" => pc' = "receive" \/ queue = <<>>)
    BY <2>1 DEF Sockets, SocketDrained, Clean
  <2>2. CASE Begin \/ CollapseAll \/ Evaluate \/ EvaluateFails \/ UncollapseAll \/ Send \/ SendFails
             \/ Attribute \/ AllAttributed \/ Finish \/ UNCHANGED vars
    <3>1. UNCHANGED socket /\ (pc = "receive" => pc' = "receive")
      BY <2>2 DEF Begin, CollapseAll, Evaluate, EvaluateFails, UncollapseAll, Send, SendFails, Attribute,
                  AllAttributed, Finish, vars, Fail
    <3> QED BY <2>1, <3>1 DEF socket
  <2>3. ASSUME NEW next, GenidGet(next), pc # "receive" PROVE Sockets'
    <3>1. queue' = Talks(<<Reply("gen", TalkSeq)>>).queue /\ overrun' = FALSE /\ faults' = faults
      BY <2>3 DEF GenidGet
    <3>2. IsSeq(queue') /\ (Clean => queue' = <<>>)
      BY <2>3, <3>1, TalksDrain
    <3> QED BY <3>1, <3>2 DEF Sockets, SocketDrained, Clean
  <2>4. CASE Genid
    BY <2>3, <2>4 DEF Genid
  <2>5. CASE GenidStop
    BY <2>3, <2>5 DEF GenidStop
  <2>6. CASE Dump
    <3>1. CASE loads = "empty"
      BY <2>1, <2>6, <3>1 DEF Dump, socket
    <3>2. CASE loads # "empty"
      <4>1. /\ queue' = Talks(<<Reply("object", TalkSeq), Reply("done", TalkSeq)>>).queue
            /\ overrun' = FALSE /\ faults' = faults /\ pc # "receive"
        BY <2>6, <3>2 DEF Dump
      <4>2. IsSeq(queue') /\ (Clean => queue' = <<>>)
        BY <4>1, TalksDrain
      <4> QED BY <4>1, <4>2 DEF Sockets, SocketDrained, Clean
    <3> QED BY <3>1, <3>2
  <2>7. CASE KernelTakes \/ KernelRefuses
    <3>1. PICK answer : IsSeq(answer) /\ Deliver(answer)
      BY <2>7, KernelAnswers
    <3>2. pc' = "receive"
      BY <2>7, KernelAnswers
    <3>3. IsSeq(queue') /\ faults' \in Nat /\ (overrun' => faults' # 0)
      BY <3>1, Delivered
    <3> QED BY <3>2, <3>3 DEF Sockets, SocketDrained
  <2>8. CASE Receive
    <3>1. pc' = "receive" /\ queue # <<>> /\ queue' = Tail(queue) /\ UNCHANGED <<overrun, faults>>
      BY <2>8 DEF Receive
    <3>2. IsSeq(queue')
      BY <3>1, TailSeq DEF Sockets
    <3> QED BY <3>1, <3>2 DEF Sockets, SocketDrained
  <2>9. CASE ReceiveFails
    <3>1. overrun /\ overrun' = FALSE /\ UNCHANGED <<queue, faults>>
      BY <2>9 DEF ReceiveFails
    <3> QED BY <3>1 DEF Sockets, SocketDrained, Clean
  <2>10. CASE Signal
    <3>1. faults' = faults + 1 /\ UNCHANGED <<queue, overrun>>
      BY <2>10 DEF Signal
    <3> QED BY <3>1 DEF Sockets, SocketDrained, Clean
  <2>11. CASE AllReceived
    BY <2>1, <2>11 DEF AllReceived, socket
  <2> QED BY <2>2, <2>4, <2>5, <2>6, <2>7, <2>8, <2>9, <2>10, <2>11 DEF Next
<1> QED BY <1>1, <1>2, ListsAlways, PTL DEF Spec

\* Talks leave nothing behind in the socket (nft_mnl_talk, mnl_batch_talk):
\* each finds its own answer first, however many runs there have been.
THEOREM SocketIsDrained == Spec => []SocketDrained
<1>1. Sockets => SocketDrained
  BY DEF Sockets
<1> QED BY <1>1, SocketsAlways, PTL
-----------------------------------------------------------------------------
(***************************************************************************)
(* Fresh and Answers.                                                      *)
(***************************************************************************)
\* Until the kernel answers, a run has nothing to report.
THEOREM FreshAlways == Spec => []Fresh
<1>1. Init => Fresh
  BY DEF Init, Fresh, Before, Loading
<1>2. Lists /\ Fresh /\ [Next]_vars => Fresh'
  <2> SUFFICES ASSUME Lists, Fresh, [Next]_vars PROVE Fresh'
    OBVIOUS
  <2> USE DEF Before, Loading
  <2>1. CASE Begin
    <3>1. pc' = "genid" /\ rc' = 0 /\ last' = Unset /\ reports' = {} /\ errs' = <<>> /\ handles' = {} /\ committed' = FALSE
      BY <2>1 DEF Begin
    <3> QED BY <3>1 DEF Fresh
  <2>2. CASE Genid \/ Dump \/ GenidStop \/ CollapseAll \/ Evaluate \/ EvaluateFails \/ UncollapseAll \/ Send \/ SendFails
    <3>1. /\ pc \in Before \cup {"kernel"} /\ pc' \in Before \cup {"kernel", "finish"} /\ (pc' # "finish" => rc' = rc)
          /\ UNCHANGED <<loop, json, committed>>
      BY <2>2 DEF Genid, Dump, GenidStop, GenidGet, CollapseAll, Evaluate, EvaluateFails, UncollapseAll, Send, SendFails, Fail
    <3>2. UNCHANGED <<last, reports, errs, handles, committed>>
      BY <3>1 DEF loop, json
    <3> QED BY <3>1, <3>2 DEF Fresh
  <2>3. CASE KernelTakes \/ KernelRefuses
    <3>1. pc = "kernel" /\ pc' = "receive" /\ UNCHANGED <<rc, last, reports>>
      BY <2>3, KernelAnswers DEF loop
    <3> QED BY <3>1 DEF Fresh
  <2>4. CASE Receive
    <3>1. pc = "receive" /\ pc' = "receive" /\ UNCHANGED <<rc, last, reports>>
      BY <2>4 DEF Receive
    <3> QED BY <3>1 DEF Fresh
  <2>5. CASE ReceiveFails \/ Signal \/ AllReceived \/ Attribute \/ AllAttributed \/ Finish
    <3>1. pc' \in {"attribute", "finish", "idle"}
      BY <2>5 DEF ReceiveFails, Signal, AllReceived, Attribute, AllAttributed, Finish, Fail
    <3> QED BY <3>1 DEF Fresh
  <2>6. CASE UNCHANGED vars
    <3>1. UNCHANGED <<pc, rc, last, reports, errs, handles, committed>>
      BY <2>6 DEF vars, loop, json
    <3> QED BY <3>1 DEF Fresh
  <2> QED BY <2>1, <2>2, <2>3, <2>4, <2>5, <2>6 DEF Next
<1> QED BY <1>1, <1>2, ListsAlways, PTL DEF Spec

\* Who is blamed and what is notified about changes with the batch only.
LEMMA SameBatch ==
    ASSUME UNCHANGED <<run, batch>>
    PROVE  \A m : Blames(m)' = Blames(m) /\ Notifies(m)' = Notifies(m)
  BY DEF Blames, Notifies, Event

\* The result of a run says whether the kernel took its batch.
THEOREM AnswersAlways == Spec => []Answers
<1>e. IsSeq(<<>>) /\ Range(<<>>) = {}
  <2>1. <<>> \in Seq({}) /\ DOMAIN <<>> = {}
    OBVIOUS
  <2> QED BY <2>1, AnySeq DEF Range
<1>1. Init => Answers
  BY <1>e DEF Init, Answers, ResultTrue
<1>2. Lists /\ Sockets /\ Fresh /\ Answers /\ [Next]_vars => Answers'
  <2> SUFFICES ASSUME Lists, Sockets, Fresh, Answers, [Next]_vars PROVE Answers'
    OBVIOUS
  <2>1. CASE Begin
    <3>1. pc' = "genid" /\ errs' = <<>>
      BY <2>1 DEF Begin
    <3> QED BY <1>e, <3>1 DEF Answers, ResultTrue
  <2>2. CASE Genid \/ Dump \/ GenidStop \/ CollapseAll \/ Evaluate \/ EvaluateFails \/ UncollapseAll \/ Send \/ SendFails
    <3>1. /\ pc \in Before \cup {"kernel"} /\ pc' \in Before \cup {"kernel", "finish"}
          /\ UNCHANGED <<loop, committed>>
          /\ pc' = "finish" => rc' = -1 \/ (rc' = rc /\ batch' = <<>>)
      BY <2>2 DEF Genid, Dump, GenidStop, GenidGet, CollapseAll, Evaluate, EvaluateFails, UncollapseAll, Send, SendFails, Fail, Before, Loading
    <3>2. ~committed' /\ errs' = errs /\ rc = 0
      BY <3>1 DEF Fresh, loop, Before, Loading
    <3>3. ResultTrue'
      BY <3>1, <3>2 DEF ResultTrue
    <3> QED BY <3>1, <3>2, <3>3 DEF Answers, Before, Loading
  <2>3. CASE KernelTakes \/ KernelRefuses
    <3>1. PICK answer : IsSeq(answer) /\ Answered(answer) /\ Deliver(answer)
      BY <2>3, KernelAnswers
    <3>2. pc = "kernel" /\ pc' = "receive" /\ UNCHANGED <<run, mode, batch, errs, rc>>
      BY <2>3, KernelAnswers DEF given, loop
    <3>3. /\ IsSeq(queue') /\ faults' \in Nat
          /\ \/ queue' = queue \o answer /\ overrun' = overrun /\ faults' = faults
             \/ overrun' = TRUE /\ faults' = faults + 1
      BY <3>1, Delivered
    <3>4. errs' = <<>> /\ ~committed
      BY <3>2 DEF Fresh, Before, Loading
    <3>5. IsSeq(batch) /\ IsSeq(queue) /\ (Clean => queue = <<>>)
      BY <3>2 DEF Lists, After, IsSeq, Sockets, SocketDrained
    <3>6. \A m : Blames(m)' = Blames(m) /\ Notifies(m)' = Notifies(m)
      BY <3>2, SameBatch
    <3>7. overrun' \/ Range(queue') = Range(queue) \cup Range(answer)
      BY <3>1, <3>3, <3>5, JoinedSeq
    <3>8. Clean' => Clean /\ Range(queue') = Range(answer)
      <4>1. SUFFICES ASSUME Clean' PROVE Clean /\ Range(queue') = Range(answer)
        OBVIOUS
      <4>2. queue' = queue \o answer /\ faults' = faults
        <5>1. faults \in Nat /\ faults' = 0
          BY <4>1 DEF Sockets, Clean
        <5> QED BY <3>3, <5>1
      <4>3. Clean /\ queue = <<>>
        BY <3>5, <4>1, <4>2 DEF Clean
      <4> QED BY <1>e, <3>1, <3>5, <4>2, <4>3, JoinedSeq
    <3>9. CASE committed' = TRUE /\ answer = Events
      <4>1. \A m \in Range(answer) : Notifies(m)
        BY <3>5, <3>9, EventsType
      <4>2. Clean' => \A m \in Range(queue') : Notifies(m)'
        BY <3>6, <3>8, <4>1
      <4> QED BY <1>e, <3>2, <3>4, <3>9, <4>2 DEF Answers, ResultTrue
    <3>10. CASE committed' = committed /\ IsBlame(answer)
      <4>1. \A m \in Range(answer) : Blames(m)
        BY <3>10 DEF IsBlame
      <4>2. Clean' => \A m \in Range(queue') : Blames(m)'
        BY <3>6, <3>8, <4>1
      <4>3. \E m \in Range(answer) : m.kind = "error"
        <5>1. answer # <<>> /\ IsSeq(answer)
          BY <3>10 DEF IsBlame
        <5>2. Head(answer) \in Range(answer)
          BY <5>1, TailSeq
        <5> QED BY <4>1, <5>2 DEF Blames
      <4>4. overrun' \/ \E m \in Range(queue') : m.kind = "error"
        BY <3>7, <4>3
      <4>5. ~committed'
        BY <3>4, <3>10
      <4> QED BY <1>e, <3>2, <3>4, <4>2, <4>4, <4>5 DEF Answers, ResultTrue
    <3> QED BY <3>1, <3>9, <3>10 DEF Answered
  <2>4. CASE Receive
    <3> DEFINE m == Head(queue)
    <3>1. /\ pc = "receive" /\ pc' = "receive" /\ ~overrun /\ ~overrun' /\ queue # <<>> /\ queue' = Tail(queue)
          /\ errs' = (IF m.kind = "error" THEN Append(errs, m) ELSE errs)
          /\ UNCHANGED <<run, batch, faults, rc, committed>>
      BY <2>4 DEF Receive, given
    <3>2. IsSeq(queue) /\ IsSeq(errs)
      BY DEF Sockets, Answers
    <3>3. Range(queue) = {m} \cup Range(queue')
      BY <3>1, <3>2, TailSeq
    <3>4. \A x : Blames(x)' = Blames(x) /\ Notifies(x)' = Notifies(x)
      BY <3>1, SameBatch
    <3>5. Clean' = Clean /\ committed' = committed
      BY <3>1 DEF Clean
    <3> HIDE DEF m
    <3>6. CASE m.kind = "error"
      <4>1. errs' = errs \o <<m>>
        <5>1. errs \in Seq(Range(errs) \cup {m})
          BY <3>2, Wider DEF IsSeq
        <5>2. Append(errs, m) = errs \o <<m>>
          BY <5>1
        <5> QED BY <3>1, <3>6, <5>2
      <4>2. IsSeq(errs') /\ Range(errs') = Range(errs) \cup {m} /\ errs' # <<>>
        <5>1. Len(errs') = Len(errs) + Len(<<m>>) /\ Len(errs) \in Nat /\ Len(<<m>>) = 1
          BY <3>2, <4>1, JoinedSeq, OneSeq DEF IsSeq
        <5> QED BY <3>2, <4>1, <5>1, JoinedSeq, OneSeq
      <4>3. ~Notifies(m)
        BY <3>6 DEF Notifies, Event, Reply
      <4>4. ~(committed /\ Clean)
        BY <3>1, <3>3, <4>3 DEF Answers
      <4>5. Clean => Blames(m)
        BY <3>1, <3>3, <4>4 DEF Answers
      <4> QED BY <3>1, <3>3, <3>4, <3>5, <4>2, <4>4, <4>5 DEF Answers, ResultTrue
    <3>7. CASE m.kind # "error"
      <4>1. errs' = errs
        BY <3>1, <3>7
      <4> QED BY <3>1, <3>2, <3>3, <3>4, <3>5, <3>7, <4>1 DEF Answers, ResultTrue
    <3> QED BY <3>6, <3>7
  <2>5. CASE ReceiveFails \/ Signal
    <3>1. /\ pc' = "finish" /\ rc' = -1 /\ errs' = errs
          /\ (overrun /\ faults' = faults) \/ faults' = faults + 1
      BY <2>5 DEF ReceiveFails, Signal, Fail, loop
    <3>2. ~Clean'
      BY <3>1 DEF Sockets, Clean
    <3>3. rc' # 0
      BY <3>1
    <3> QED BY <3>1, <3>2, <3>3 DEF Answers, ResultTrue
  <2>6. CASE AllReceived
    <3>1. /\ pc = "receive" /\ ~overrun /\ queue = <<>>
          /\ (errs = <<>> /\ pc' = "finish" /\ rc' = rc) \/ (errs # <<>> /\ pc' = "attribute" /\ rc' = -1)
          /\ UNCHANGED <<run, batch, errs, committed, faults>>
      BY <2>6 DEF AllReceived, given, loop, socket
    <3>2. rc = 0 /\ Range(queue) = {}
      BY <1>e, <3>1 DEF Fresh
    <3>3. committed' = committed /\ Clean' = Clean
      BY <3>1 DEF Clean
    <3>4. \A x : Blames(x)' = Blames(x)
      BY <3>1, SameBatch
    <3>5. CASE errs = <<>> /\ pc' = "finish" /\ rc' = rc
      <4>1. committed
        BY <3>1, <3>2, <3>5 DEF Answers
      <4>2. rc' = 0 /\ rc' # -1
        BY <3>2, <3>5
      <4> QED BY <1>e, <3>1, <3>3, <3>5, <4>1, <4>2 DEF Answers, ResultTrue
    <3>6. CASE errs # <<>> /\ pc' = "attribute" /\ rc' = -1
      <4>1. Clean => ~committed
        BY <3>1, <3>6 DEF Answers
      <4> QED BY <3>1, <3>3, <3>4, <3>6, <4>1 DEF Answers, ResultTrue
    <3> QED BY <3>1, <3>5, <3>6
  <2>7. CASE Attribute
    <3>1. pc = "attribute" /\ pc' = "attribute" /\ errs # <<>> /\ errs' = Tail(errs) /\ UNCHANGED <<run, batch, rc, faults, committed>>
      BY <2>7 DEF Attribute, given, socket
    <3>2. IsSeq(errs') /\ Range(errs') \subseteq Range(errs)
      BY <3>1, TailSeq DEF Answers
    <3>3. committed' = committed /\ Clean' = Clean
      BY <3>1 DEF Clean
    <3>4. \A x : Blames(x)' = Blames(x)
      BY <3>1, SameBatch
    <3> QED BY <3>1, <3>2, <3>3, <3>4 DEF Answers, ResultTrue
  <2>8. CASE AllAttributed
    <3>1. pc = "attribute" /\ pc' = "finish" /\ UNCHANGED <<rc, errs, faults, committed>>
      BY <2>8 DEF AllAttributed, socket, loop
    <3>2. committed' = committed /\ Clean' = Clean /\ rc' = -1 /\ rc' # 0
      BY <3>1 DEF Clean, Answers
    <3> QED BY <3>1, <3>2 DEF Answers, ResultTrue
  <2>9. CASE Finish
    <3>1. pc' = "idle" /\ errs' = errs
      BY <2>9 DEF Finish, loop
    <3> QED BY <3>1 DEF Answers, ResultTrue
  <2>10. CASE UNCHANGED vars
    <3>1. UNCHANGED <<pc, run, batch, queue, overrun, faults, errs, rc, committed>>
      BY <2>10 DEF vars, given, socket, loop
    <3>2. \A x : Blames(x)' = Blames(x) /\ Notifies(x)' = Notifies(x)
      BY <3>1, SameBatch
    <3> QED BY <3>1, <3>2 DEF Answers, ResultTrue, Clean
  <2> QED BY <2>1, <2>2, <2>3, <2>4, <2>5, <2>6, <2>7, <2>8, <2>9, <2>10 DEF Next
<1> QED BY <1>1, <1>2, ListsAlways, SocketsAlways, FreshAlways, PTL DEF Spec

\* A run returns 0 only for a batch the kernel has taken, and, unless a fault
\* has hit it, -1 only for one it has not (mnl_batch_talk, nft_netlink).
THEOREM ResultIsTrue == Spec => []ResultTrue
<1>1. Answers => ResultTrue
  BY DEF Answers
<1> QED BY <1>1, AnswersAlways, PTL
-----------------------------------------------------------------------------
(***************************************************************************)
(* Search.                                                                 *)
(***************************************************************************)
\* An error is about the whole batch, or about a message of the command with
\* its number.
LEMMA Culprit ==
    ASSUME Lists, pc = "attribute", NEW e, Blames(e)
    PROVE  /\ e.run = run
           /\ \/ e.seq = 0 /\ e.off = 0
              \/ /\ e.seq \in DOMAIN cmds /\ e.cmd = cmds[e.seq].id
                 /\ \E k \in DOMAIN Messages(cmds[e.seq]) :
                       e.off # 0 => e.at = Messages(cmds[e.seq])[k].attrs[e.off]
<1>1. e.run = run /\ ((e.seq = 0 /\ e.off = 0) \/
         \E n \in DOMAIN batch :
             /\ e.seq = batch[n].seq /\ e.cmd = batch[n].msg.cmd
             /\ e.off # 0 => e.at = batch[n].msg.attrs[e.off])
  BY DEF Blames
<1>2. CASE e.seq = 0 /\ e.off = 0
  BY <1>1, <1>2
<1>3. CASE \E n \in DOMAIN batch :
             /\ e.seq = batch[n].seq /\ e.cmd = batch[n].msg.cmd
             /\ e.off # 0 => e.at = batch[n].msg.attrs[e.off]
  <2>1. PICK n \in DOMAIN batch :
             /\ e.seq = batch[n].seq /\ e.cmd = batch[n].msg.cmd
             /\ e.off # 0 => e.at = batch[n].msg.attrs[e.off]
    BY <1>3
  <2>2. IsMade(batch[n]) /\ cmds \in Seq(Single(0..Len(input)))
    BY DEF Lists, After
  <2>3. PICK s \in DOMAIN cmds : \E k \in DOMAIN Messages(cmds[s]) :
            batch[n] = [msg |-> Messages(cmds[s])[k], seq |-> s]
    BY <2>2 DEF IsMade
  <2>4. PICK k \in DOMAIN Messages(cmds[s]) : batch[n] = [msg |-> Messages(cmds[s])[k], seq |-> s]
    BY <2>3
  <2>5. batch[n].seq = s /\ batch[n].msg = Messages(cmds[s])[k]
    BY <2>4
  <2>6. Messages(cmds[s])[k].cmd = cmds[s].id
    <3>1. cmds[s] \in Single(0..Len(input))
      BY <2>2
    <3> QED BY <3>1, MessagesType
  <2>7. e.seq = s /\ e.cmd = cmds[s].id /\ (e.off # 0 => e.at = Messages(cmds[s])[k].attrs[e.off])
    BY <2>1, <2>5, <2>6
  <2> QED BY <1>1, <2>7
<1> QED BY <1>1, <1>2, <1>3

\* Where one message was made of a command, the place of an error is found.
LEMMA LocationFound ==
    ASSUME NEW I, NEW n, cmds[n] \in Single(I), NEW k \in DOMAIN Messages(cmds[n]),
           ~(Len(Messages(cmds[n])) > 1), NEW e, e.off # 0 => e.at = Messages(cmds[n])[k].attrs[e.off]
    PROVE  Location(n, e) = {} \/ Location(n, e) = e.at
<1> DEFINE own == Messages(cmds[n])
           Places(j) == [i \in DOMAIN own[j].attrs |-> [off |-> i, at |-> own[j].attrs[i]]]
           same == {i \in DOMAIN Attributes(n) : e.off # 0 /\ Attributes(n)[i].off = e.off}
<1>1. IsSeq(own) /\ DOMAIN own = 1..Len(own)
  BY MessagesType
<1>2. Len(own) = 1 /\ k = 1
  <2>1. k \in DOMAIN own /\ ~(Len(own) > 1)
    OBVIOUS
  <2> HIDE DEF own
  <2>2. own \in Seq(Range(own))
    BY <1>1 DEF IsSeq
  <2> DEFINE len == Len(own)
  <2>3. len \in Nat /\ k \in 1..len
    BY <1>1, <2>1, <2>2
  <2>4. ~(len > 1)
    BY <2>1
  <2> HIDE DEF len
  <2>5. len = 1 /\ k = 1
    BY <2>3, <2>4
  <2> QED BY <2>5 DEF len
<1>3. Attributes(n) = Places(1)
  <2>1. Attributes(n) = FlattenSeq([j \in DOMAIN own |-> Places(j)])
    BY DEF Attributes
  <2>2. [j \in DOMAIN own |-> Places(j)] = <<Places(1)>>
    <3> HIDE DEF Places
    <3>1. DOMAIN own = 1..1
      BY <1>1, <1>2
    <3> HIDE DEF own
    <3> QED BY <3>1
  <2> HIDE DEF Places
  <2> QED BY <2>1, <2>2, FlattenOne
<1>4. IsSeq(own[1].attrs)
  BY <1>2, AttrsType
<1>5. DOMAIN own[1].attrs = 1..Len(own[1].attrs) /\ Len(own[1].attrs) \in Nat
  BY <1>4 DEF IsSeq
<1> HIDE DEF own
<1>6. CASE same = {}
  BY <1>6 DEF Location
<1>7. CASE same # {}
  <2>1. same = {e.off} /\ e.off # 0 /\ e.off \in DOMAIN own[1].attrs
    BY <1>3, <1>7
  <2> HIDE DEF same
  <2>2. (CHOOSE i \in same : \A j \in same : j <= i) = e.off
    BY <1>5, <2>1
  <2>3. Location(n, e) = Attributes(n)[CHOOSE i \in same : \A j \in same : j <= i].at
    BY <1>7 DEF Location, same
  <2>4. Location(n, e) = own[1].attrs[e.off]
    <3> DEFINE place == e.off
    <3>1. Places(1)[place] = [off |-> place, at |-> own[1].attrs[place]]
      BY <2>1
    <3>2. Location(n, e) = Attributes(n)[place].at
      BY <2>2, <2>3, Zenon
    <3> HIDE DEF Places, place
    <3>3. Location(n, e) = Places(1)[place].at
      BY <1>3, <3>2, Zenon
    <3>4. Location(n, e) = own[1].attrs[place]
      BY <3>1, <3>3
    <3> QED BY <3>4 DEF place
  <2> QED BY <1>2, <2>1, <2>4 DEF own
<1> QED BY <1>6, <1>7

\* The search finds the command again, or all of them.
LEMMA Hits ==
    ASSUME Lists, Answers, Search, Clean, pc = "attribute", errs # <<>>
    PROVE  LET e == Head(errs) IN
           /\ Blames(e)
           /\ e.seq \in SearchFrom(e)..Len(cmds) => e.seq \in 1..Len(cmds)
           /\ Len(cmds) < Unset =>
                 \E n \in SearchFrom(e)..Len(cmds) : e.seq \in {n, 0}
<1> DEFINE e == Head(errs)
<1>1. Blames(e)
  <2>1. e \in Range(errs)
    BY TailSeq DEF Answers
  <2> QED BY <2>1 DEF Answers
<1>2. cmds \in Seq(Single(0..Len(input))) /\ Len(cmds) \in Nat /\ DOMAIN cmds = 1..Len(cmds)
  BY DEF Lists, After
<1> HIDE DEF e
<1>3. e.seq = 0 \/ e.seq \in 1..Len(cmds)
  BY <1>1, <1>2, Culprit
<1>4. 1 \in 1..Len(cmds)
  <2>1. batch # <<>> /\ batch \in Seq(Range(batch)) /\ \A n \in DOMAIN batch : IsMade(batch[n])
    BY DEF Lists, After
  <2>2. 1 \in DOMAIN batch
    BY <2>1
  <2>3. \E s \in DOMAIN cmds : TRUE
    BY <2>1, <2>2 DEF IsMade
  <2> QED BY <1>2, <2>3
<1>5. pos \in Nat \ {0} /\ (last # Unset => last = pos /\ pos \in 1..Len(cmds))
  BY DEF Search
<1>6. Unset \in Nat
  BY BatchAssumption
<1>7. SearchFrom(e) \in {1, pos} /\ SearchFrom(e) >= 1
  BY <1>5 DEF SearchFrom
<1>8. e.seq \in SearchFrom(e)..Len(cmds) => e.seq \in 1..Len(cmds)
  BY <1>2, <1>3, <1>5, <1>7
<1>9. ASSUME Len(cmds) < Unset PROVE \E n \in SearchFrom(e)..Len(cmds) : e.seq \in {n, 0}
  <2>1. CASE e.seq = 0
    <3>1. SearchFrom(e) = 1
      BY <1>2, <1>4, <1>5, <1>6, <1>9, <2>1 DEF SearchFrom
    <3> QED BY <1>4, <2>1, <3>1
  <2>2. CASE e.seq \in 1..Len(cmds)
    <3>1. e.seq \in SearchFrom(e)..Len(cmds)
      BY <1>2, <1>5, <1>6, <1>9, <2>2 DEF SearchFrom
    <3> QED BY <3>1
  <2> QED BY <1>3, <2>1, <2>2
<1> QED BY <1>1, <1>8, <1>9 DEF e

\* The search stands at a command, and what it reports is true.
THEOREM SearchAlways == Spec => []Search
<1>1. Init => Search
  BY DEF Init, Search, ErrorsAtCulprit
<1>2. Lists /\ Sockets /\ Fresh /\ Answers /\ Search /\ [Next]_vars => Search'
  <2> SUFFICES ASSUME Lists, Sockets, Fresh, Answers, Search, [Next]_vars PROVE Search'
    OBVIOUS
  <2>1. CASE Begin
    <3>1. pos' = 1 /\ last' = Unset /\ reports' = {}
      BY <2>1 DEF Begin
    <3> QED BY <3>1 DEF Search, ErrorsAtCulprit
  <2>2. CASE Genid \/ Dump \/ GenidStop \/ CollapseAll \/ Evaluate \/ EvaluateFails \/ UncollapseAll \/ Send \/ SendFails
    <3>1. pc \in Before \cup {"kernel"} /\ UNCHANGED <<loop, faults>>
      BY <2>2 DEF Genid, Dump, GenidStop, GenidGet, CollapseAll, Evaluate, EvaluateFails, UncollapseAll, Send, SendFails, Fail, Before, Loading, socket
    <3>2. last' = Unset /\ reports' = {} /\ pos' = pos /\ Clean' = Clean
      BY <3>1 DEF Fresh, loop, Clean
    <3> QED BY <3>2 DEF Search, ErrorsAtCulprit
  <2>3. CASE KernelTakes \/ KernelRefuses \/ Receive \/ ReceiveFails \/ Signal
    <3>1. pc \in {"kernel", "receive"} /\ UNCHANGED <<pos, last, reports>>
      BY <2>3, KernelAnswers DEF Receive, ReceiveFails, Signal, loop
    <3>2. last' = Unset /\ reports' = {} /\ pos' = pos
      BY <3>1 DEF Fresh
    <3>3. Clean' => Clean
      <4>1. CASE KernelTakes \/ KernelRefuses
        <5>1. PICK answer : IsSeq(answer) /\ Deliver(answer)
          BY <4>1, KernelAnswers
        <5> QED BY <5>1 DEF Deliver, Clean, Sockets
      <4>2. CASE Receive \/ ReceiveFails
        BY <4>2 DEF Receive, ReceiveFails, Clean
      <4>3. CASE Signal
        BY <4>3 DEF Signal, Clean, Sockets
      <4> QED BY <2>3, <4>1, <4>2, <4>3
    <3> QED BY <3>2, <3>3 DEF Search, ErrorsAtCulprit
  <2>4. CASE AllReceived \/ AllAttributed \/ Finish \/ UNCHANGED vars
    <3>1. UNCHANGED <<run, cmds, faults, pos, last, reports>>
      BY <2>4 DEF AllReceived, AllAttributed, Finish, vars, given, list, socket, loop
    <3> QED BY <3>1 DEF Search, ErrorsAtCulprit, Clean
  <2>5. CASE Attribute
    <3> DEFINE e == Head(errs)
               looked == SearchFrom(e)..Len(cmds)
               hits == {n \in looked : e.seq \in {n, 0}}
               found == e.seq \in looked
    <3>1. /\ pc = "attribute" /\ errs # <<>>
          /\ reports' = reports \cup {Report(n, e) : n \in hits}
          /\ pos' = (IF found THEN e.seq ELSE Len(cmds) + 1)
          /\ last' = (IF found THEN e.seq ELSE Unset)
          /\ UNCHANGED <<run, cmds, faults>>
      BY <2>5 DEF Attribute, given, list, socket
    <3>2. cmds \in Seq(Single(0..Len(input))) /\ Len(cmds) \in Nat /\ DOMAIN cmds = 1..Len(cmds)
      BY <3>1 DEF Lists, After
    <3>3. CASE ~Clean
      BY <3>1, <3>3 DEF Search, ErrorsAtCulprit, Clean
    <3>4. CASE Clean
      <4>1. Blames(e) /\ (found => e.seq \in 1..Len(cmds))
        BY <3>1, <3>4, Hits
      <4> HIDE DEF e
      <4>2. /\ e.run = run
            /\ \/ e.seq = 0 /\ e.off = 0
               \/ /\ e.seq \in DOMAIN cmds /\ e.cmd = cmds[e.seq].id
                  /\ \E k \in DOMAIN Messages(cmds[e.seq]) :
                        e.off # 0 => e.at = Messages(cmds[e.seq])[k].attrs[e.off]
        BY <3>1, <4>1, Culprit
      <4>3. ASSUME NEW n \in hits
            PROVE  LET r == Report(n, e) IN
                   /\ r.err.run = run
                   /\ r.err.seq = 0 \/ r.cmd = r.err.cmd
                   /\ r.at = {} \/ r.at = r.err.at \/ Len(Messages(cmds[r.seq])) > 1
        <5>1. Report(n, e) = [err |-> e, cmd |-> cmds[n].id, seq |-> n, at |-> Location(n, e)]
          BY DEF Report
        <5>2. CASE e.seq = 0 /\ e.off = 0
          <6>1. Location(n, e) = {}
            BY <5>2 DEF Location
          <6> QED BY <4>2, <5>1, <5>2, <6>1
        <5>3. CASE e.seq # 0
          <6>1. n = e.seq /\ n \in DOMAIN cmds /\ e.cmd = cmds[n].id
            BY <4>2, <5>3
          <6>2. PICK k \in DOMAIN Messages(cmds[n]) : e.off # 0 => e.at = Messages(cmds[n])[k].attrs[e.off]
            BY <4>2, <5>3, <6>1
          <6>3. cmds[n] \in Single(0..Len(input))
            BY <3>2, <6>1
          <6>4. Location(n, e) = {} \/ Location(n, e) = e.at \/ Len(Messages(cmds[n])) > 1
            BY <6>2, <6>3, LocationFound
          <6> QED BY <4>2, <5>1, <6>1, <6>4
        <5> QED BY <4>2, <5>2, <5>3
      <4>4. ErrorsAtCulprit'
        <5> HIDE DEF hits
        <5>1. ASSUME NEW r \in reports'
              PROVE  /\ r.err.run = run
                     /\ r.err.seq = 0 \/ r.cmd = r.err.cmd
                     /\ r.at = {} \/ r.at = r.err.at \/ Len(Messages(cmds[r.seq])) > 1
          <6>1. CASE r \in reports
            BY <3>4, <6>1 DEF Search, ErrorsAtCulprit
          <6>2. CASE r \notin reports
            <7>1. PICK n \in hits : r = Report(n, e)
              BY <3>1, <5>1, <6>2
            <7> QED BY <4>3, <7>1
          <6> QED BY <6>1, <6>2
        <5>2. \A n : Messages(cmds[n])' = Messages(cmds[n])
          BY <3>1
        <5> QED BY <3>1, <5>1, <5>2 DEF ErrorsAtCulprit
      <4>5. pos' \in Nat \ {0} /\ (last' # Unset => last' = pos' /\ pos' \in 1..Len(cmds'))
        <5> HIDE DEF looked
        <5> QED BY <3>1, <3>2, <4>1
      <4> QED BY <4>4, <4>5 DEF Search
    <3> QED BY <3>3, <3>4
  <2> QED BY <2>1, <2>2, <2>3, <2>4, <2>5 DEF Next
<1> QED BY <1>1, <1>2, ListsAlways, SocketsAlways, FreshAlways, AnswersAlways, PTL DEF Spec

\* Every error is reported with the command whose message it is about, or
\* with all if it is about the batch, and points at the part of it the kernel
\* has complained about (nft_netlink's loop, nft_cmd_error), as long as no
\* fault has left old answers in the socket.
THEOREM ErrorsReachCulprits == Spec => []ErrorsAtCulprit
<1>1. Search => ErrorsAtCulprit
  BY DEF Search
<1> QED BY <1>1, SearchAlways, PTL

\* No error goes unreported, as long as there are fewer commands than numbers
\* that last_seqnum tells apart (UINT32_MAX).
THEOREM ErrorsAreReported == Spec /\ [](Len(cmds) < Unset) => AllReported
<1> DEFINE Few == Len(cmds) < Unset
           Told == pc = "attribute" /\ pc' = pc /\ Clean => \E r \in reports' : r.err = Head(errs)
<1>1. Lists /\ Answers /\ Search /\ Few /\ [Next]_vars => [Told]_vars
  <2> SUFFICES ASSUME Lists, Answers, Search, Few, Next, pc = "attribute", pc' = pc, Clean
               PROVE  \E r \in reports' : r.err = Head(errs)
    OBVIOUS
  <2> DEFINE e == Head(errs)
             hits == {n \in SearchFrom(e)..Len(cmds) : e.seq \in {n, 0}}
  <2>1. Attribute
    BY DEF Next, Begin, Genid, Dump, GenidStop, CollapseAll, Evaluate, EvaluateFails, UncollapseAll, Send, SendFails,
           KernelTakes, KernelRefuses, Receive, ReceiveFails, Signal, AllReceived, AllAttributed, Finish
  <2>2. errs # <<>> /\ reports' = reports \cup {Report(n, e) : n \in hits}
    BY <2>1 DEF Attribute
  <2>3. PICK n \in hits : TRUE
    BY <2>2, Hits
  <2>4. Report(n, e) \in reports' /\ Report(n, e).err = e
    <3> HIDE DEF hits, e
    <3> QED BY <2>2 DEF Report
  <2> QED BY <2>4
<1>2. Spec => [][Next]_vars
  BY DEF Spec
<1>3. []Few /\ [][Next]_vars /\ []Lists /\ []Answers /\ []Search => [][Told]_vars
  BY <1>1, PTL
<1> QED BY <1>2, <1>3, ListsAlways, AnswersAlways, SearchAlways, PTL DEF AllReported-----------------------------------------------------------------------------
(***************************************************************************)
(* Notes.                                                                  *)
(***************************************************************************)
\* A notification is about a command of the run, by the command's place in
\* the input; only what nft adds on its own and what comes with a
\* declaration has none.
LEMMA EventOf ==
    ASSUME Lists, pc = "receive", NEW m, Notifies(m)
    PROVE  /\ m.seq \in DOMAIN cmds /\ m.cmd = cmds[m.seq].id /\ m.cmd \in 0..Len(input)
           /\ m.run = run /\ m.kind = "event"
<1>1. PICK n \in DOMAIN batch : m = Event(n)
  BY DEF Notifies
<1>2. m.seq = batch[n].seq /\ m.cmd = batch[n].msg.cmd /\ m.run = run /\ m.kind = "event"
  BY <1>1 DEF Event, Reply
<1>3. IsMade(batch[n]) /\ cmds \in Seq(Single(0..Len(input)))
  BY DEF Lists, After
<1>4. PICK s \in DOMAIN cmds : \E k \in DOMAIN Messages(cmds[s]) :
          batch[n] = [msg |-> Messages(cmds[s])[k], seq |-> s]
  BY <1>3 DEF IsMade
<1>5. PICK k \in DOMAIN Messages(cmds[s]) : batch[n] = [msg |-> Messages(cmds[s])[k], seq |-> s]
  BY <1>4
<1>6. batch[n].seq = s /\ batch[n].msg = Messages(cmds[s])[k]
  BY <1>5
<1>7. cmds[s] \in Single(0..Len(input))
  BY <1>3
<1>8. cmds[s].id \in 0..Len(input)
  BY <1>7 DEF Single, Records
<1>9. Messages(cmds[s])[k].cmd = cmds[s].id
  BY <1>7, MessagesType
<1> QED BY <1>2, <1>6, <1>8, <1>9

\* Only the commands of this run are associated with the input, each by its
\* place: a notification is noted with its own command.
LEMMA NotedOnce ==
    ASSUME Lists, pc = "receive", mode = "json", assoc = Own, NEW m, Notifies(m), EchoJson(m)
    PROVE  handles' = handles \cup IF m.cmd # 0 THEN {Note(m)} ELSE {}
<1>1. m.seq \in DOMAIN cmds /\ m.cmd = cmds[m.seq].id /\ m.cmd \in 0..Len(input) /\ m.run = run
  BY EventOf
<1>2. DOMAIN input = 1..Len(input) /\ Len(input) \in Nat
  BY DEF Lists
<1>3. assoc = {[run |-> run, id |-> n] : n \in DOMAIN input}
  BY DEF Own
<1>4. Stale = {}
  BY <1>3 DEF Stale
<1>5. Found(m.seq) = {a \in assoc : a.run = run /\ m.cmd = a.id}
  BY <1>1, <1>4 DEF Found
<1>6. CASE m.cmd = 0
  <2>1. Found(m.seq) = {}
    BY <1>2, <1>3, <1>5, <1>6
  <2> QED BY <1>6, <2>1 DEF EchoJson
<1>7. CASE m.cmd # 0
  <2> DEFINE own == [run |-> run, id |-> m.cmd]
  <2>1. m.cmd \in DOMAIN input
    BY <1>1, <1>2, <1>7
  <2>2. own \in assoc /\ own.run = run /\ own.id = m.cmd
    BY <1>3, <2>1
  <2>3. ASSUME NEW a \in assoc, a.id = m.cmd PROVE a = own
    BY <1>3, <2>3
  <2>4. Found(m.seq) = {own}
    <3> HIDE DEF own
    <3> QED BY <1>5, <2>2, <2>3
  <2>5. handles' = handles \cup {[json |-> own, event |-> [run |-> m.run, id |-> m.cmd]]}
    BY <2>4 DEF EchoJson
  <2> QED BY <1>1, <1>7, <2>5 DEF Note
<1> QED BY <1>6, <1>7

\* The notes of the notifications that the kernel sends are the notes due.
LEMMA EventsDue ==
    ASSUME IsSeq(batch), mode = "json"
    PROVE  {Note(m) : m \in {x \in Range(Events) : x.cmd # 0}} = NotesDue
<1>1. Range(Events) = {Event(n) : n \in {k \in DOMAIN batch : HasHandle(batch[k].msg)}}
  BY EventsType
<1>2. \A n : Event(n).cmd = batch[n].msg.cmd
  BY DEF Event, Reply
<1> QED BY <1>1, <1>2 DEF NotesDue

\* A notification takes its note from those to come to those made.
THEOREM NotesAlways == Spec => []Notes
<1>e. Range(<<>>) = {}
  BY DEF Range
<1>1. Init => Notes
  BY DEF Init, Notes, HandlesAtCommands
<1>2. Lists /\ Sockets /\ Fresh /\ Answers /\ Notes /\ [Next]_vars => Notes'
  <2> SUFFICES ASSUME Lists, Sockets, Fresh, Answers, Notes, [Next]_vars PROVE Notes'
    OBVIOUS
  <2>1. CASE Begin
    <3>1. pc = "idle" /\ pc' = "genid" /\ spoilt' = spoilt
      BY <2>1 DEF Begin
    <3>2. assoc' = IF mode' = "json" THEN assoc \cup {[run |-> run', id |-> n] : n \in DOMAIN input'} ELSE assoc
      BY <2>1 DEF Begin
    <3>3. ~spoilt => assoc' = Own'
      BY <3>1, <3>2 DEF Notes, Own
    <3> QED BY <3>1, <3>3 DEF Notes, HandlesAtCommands
  <2>2. CASE Genid \/ Dump \/ GenidStop \/ CollapseAll \/ Evaluate \/ EvaluateFails \/ UncollapseAll \/ Send \/ SendFails
    <3>1. /\ pc \in Before \cup {"kernel"} /\ pc' \in Before \cup {"kernel", "finish"}
          /\ UNCHANGED <<given, json>>
          /\ pc' = "finish" => rc' = -1 \/ batch' = <<>>
      BY <2>2 DEF Genid, Dump, GenidStop, GenidGet, CollapseAll, Evaluate, EvaluateFails, UncollapseAll, Send, SendFails, Fail, Before, Loading
    <3>2. UNCHANGED <<run, mode, input, assoc, handles, spoilt>>
      BY <3>1 DEF given, json
    <3>3. ~spoilt' => assoc' = Own'
      BY <3>1, <3>2 DEF Notes, Own, Before, Loading
    <3>4. batch' = <<>> => DOMAIN batch' = {}
      OBVIOUS
    <3>5. ASSUME pc' = "finish", rc' = 0 PROVE handles' = {} /\ batch' = <<>>
      <4>1. handles = {} /\ rc' # -1
        BY <3>1, <3>5 DEF Fresh, Before, Loading
      <4> QED BY <3>1, <3>2, <3>5, <4>1
    <3>6. HandlesAtCommands'
      BY <3>4, <3>5 DEF HandlesAtCommands
    <3> QED BY <3>1, <3>3, <3>6 DEF Notes, Before, Loading
  <2>3. CASE KernelTakes \/ KernelRefuses
    <3>1. PICK answer : IsSeq(answer) /\ Answered(answer) /\ Deliver(answer)
      BY <2>3, KernelAnswers
    <3>2. pc = "kernel" /\ pc' = "receive" /\ UNCHANGED <<run, mode, input, batch, assoc, handles, spoilt>>
      BY <2>3, KernelAnswers DEF given, json
    <3>3. handles = {} /\ ~committed
      BY <3>2 DEF Fresh
    <3>4. IsSeq(batch) /\ IsSeq(queue) /\ (Clean => queue = <<>>)
      BY <3>2 DEF Lists, After, IsSeq, Sockets, SocketDrained
    <3>5. ASSUME Clean' PROVE Range(queue') = Range(answer)
      <4>1. faults \in Nat /\ faults' = 0
        BY <3>5 DEF Sockets, Clean
      <4>2. queue' = queue \o answer /\ faults' = faults
        BY <3>1, <4>1, Delivered
      <4>3. queue = <<>>
        BY <3>4, <4>1, <4>2 DEF Clean
      <4> QED BY <1>e, <3>1, <3>4, <4>2, <4>3, JoinedSeq
    <3>6. ASSUME committed', Clean', mode' = "json"
          PROVE  handles' \cup {Note(m)' : m \in {x \in Range(queue') : x.cmd # 0}} = NotesDue'
      <4>1. Range(queue') = Range(Events)
        BY <3>1, <3>3, <3>5, <3>6 DEF Answered
      <4>2. {Note(m) : m \in {x \in Range(Events) : x.cmd # 0}} = NotesDue
        BY <3>2, <3>4, <3>6, EventsDue
      <4>3. NotesDue' = NotesDue /\ \A m : Note(m)' = Note(m)
        BY <3>2 DEF NotesDue, Note, Event
      <4> QED BY <3>2, <3>3, <4>1, <4>2, <4>3
    <3>7. ~spoilt' => assoc' = Own'
      BY <3>2 DEF Notes, Own
    <3> QED BY <3>2, <3>6, <3>7 DEF Notes, HandlesAtCommands
  <2>4. CASE Receive
    <3> DEFINE m == Head(queue)
    <3>1. /\ pc = "receive" /\ pc' = "receive" /\ queue # <<>> /\ queue' = Tail(queue)
          /\ IF m.kind = "event" /\ mode = "json" THEN EchoJson(m) ELSE UNCHANGED handles
          /\ UNCHANGED <<run, mode, input, batch, faults, committed, assoc, spoilt>>
      BY <2>4 DEF Receive, given
    <3>2. Range(queue) = {m} \cup Range(queue')
      BY <3>1, TailSeq DEF Sockets
    <3>3. Clean' = Clean /\ NotesDue' = NotesDue /\ Own' = Own /\ \A x : Note(x)' = Note(x)
      BY <3>1 DEF Clean, NotesDue, Note, Event, Own
    <3> HIDE DEF m
    <3>4. ASSUME committed, Clean, ~spoilt, mode = "json"
          PROVE  handles' \cup {Note(x) : x \in {y \in Range(queue') : y.cmd # 0}} = NotesDue
      <4>1. Notifies(m) /\ m.kind = "event"
        <5>1. Notifies(m)
          BY <3>1, <3>2, <3>4 DEF Answers
        <5> QED BY <3>1, <5>1, EventOf
      <4>2. EchoJson(m) /\ assoc = Own
        BY <3>1, <3>4, <4>1 DEF Notes
      <4>3. handles' = handles \cup IF m.cmd # 0 THEN {Note(m)} ELSE {}
        BY <3>1, <3>4, <4>1, <4>2, NotedOnce
      <4>4. handles \cup {Note(x) : x \in {y \in Range(queue) : y.cmd # 0}} = NotesDue
        BY <3>1, <3>4 DEF Notes
      <4> QED BY <3>2, <4>3, <4>4
    <3>5. ~spoilt' => assoc' = Own'
      BY <3>1, <3>3 DEF Notes
    <3> QED BY <3>1, <3>3, <3>4, <3>5 DEF Notes, HandlesAtCommands
  <2>5. CASE ReceiveFails \/ Signal \/ Attribute \/ AllAttributed
    <3>1. /\ pc \in {"receive", "attribute"} /\ pc' \in {"attribute", "finish"}
          /\ UNCHANGED <<run, mode, input, batch, assoc, spoilt>>
          /\ pc' = "finish" => rc' = -1
      BY <2>5 DEF ReceiveFails, Signal, Attribute, AllAttributed, Fail, given, json, Answers
    <3>2. ~spoilt' => assoc' = Own'
      BY <3>1 DEF Notes, Own
    <3> QED BY <3>1, <3>2 DEF Notes, HandlesAtCommands
  <2>6. CASE AllReceived
    <3>1. /\ pc = "receive" /\ queue = <<>> /\ pc' \in {"attribute", "finish"}
          /\ pc' = "finish" => errs = <<>> /\ rc' = rc
          /\ UNCHANGED <<run, mode, input, batch, faults, committed, assoc, handles, spoilt>>
          /\ (pc' = "attribute" => rc' = -1) /\ ~overrun
      BY <2>6 DEF AllReceived, given, json, socket
    <3>2. ~spoilt' => assoc' = Own'
      BY <3>1 DEF Notes, Own
    <3>3. ASSUME pc' = "finish", Clean, ~spoilt, mode = "json" PROVE handles = NotesDue
      <4>1. committed
        BY <1>e, <3>1, <3>3 DEF Answers
      <4>2. handles \cup {Note(m) : m \in {x \in Range(queue) : x.cmd # 0}} = NotesDue
        BY <3>1, <3>3, <4>1 DEF Notes
      <4> QED BY <1>e, <3>1, <4>2
    <3>4. NotesDue = {[json |-> [run |-> run, id |-> batch[n].msg.cmd],
                       event |-> [run |-> run, id |-> batch[n].msg.cmd]] :
                         n \in {k \in DOMAIN batch : HasHandle(batch[k].msg) /\ batch[k].msg.cmd # 0}}
      BY DEF NotesDue, Note, Event, Reply
    <3>5. HandlesAtCommands'
      BY <3>1, <3>3, <3>4 DEF HandlesAtCommands, Clean
    <3> QED BY <3>1, <3>2, <3>5 DEF Notes
  <2>7. CASE Finish
    <3>1. pc = "finish" /\ pc' = "idle" /\ spoilt' = (spoilt \/ (rc # 0 /\ mode = "json"))
          /\ assoc' = IF rc = 0 /\ mode = "json" THEN {} ELSE assoc
      BY <2>7 DEF Finish, AssocAfter
    <3>2. ~spoilt' => assoc' = {}
      BY <3>1 DEF Notes, Own
    <3> QED BY <3>1, <3>2 DEF Notes, HandlesAtCommands
  <2>8. CASE UNCHANGED vars
    <3>1. UNCHANGED <<pc, run, mode, input, batch, queue, faults, rc, committed, assoc, handles, spoilt>>
      BY <2>8 DEF vars, given, socket, json
    <3>2. Clean' = Clean /\ NotesDue' = NotesDue /\ Own' = Own /\ \A x : Note(x)' = Note(x)
      BY <3>1 DEF Clean, NotesDue, Note, Event, Own
    <3> QED BY <3>1, <3>2 DEF Notes, HandlesAtCommands
  <2> QED BY <2>1, <2>2, <2>3, <2>4, <2>5, <2>6, <2>7, <2>8 DEF Next
<1> QED BY <1>1, <1>2, ListsAlways, SocketsAlways, FreshAlways, AnswersAlways, PTL DEF Spec

\* With JSON input and echo, the handles the kernel has given are noted with
\* the commands that have made the objects, each with its own, and all of
\* them are (json_events_cb, seqnum_to_json), as long as no run with JSON has
\* failed before: what it leaves in json_cmd_assoc_list are freed commands.
THEOREM HandlesAreNoted == Spec => []HandlesAtCommands
<1>1. Notes => HandlesAtCommands
  BY DEF Notes
<1> QED BY <1>1, NotesAlways, PTL
-----------------------------------------------------------------------------
(***************************************************************************)
(* What is sent is what was given.  Blocks goes through a list command by  *)
(* command, so that a list may be replaced by one that has the same effect *)
(* on whatever blocks there are before it.                                 *)
(***************************************************************************)
BlockRecord == [op : Ops, obj : Objs, name : Name, keys : SUBSET (Key \cup {"old"})]

\* Blocks, with some already there.
BlocksFrom(out, s) ==
    LET seen[n \in 0..Len(s)] == IF n = 0 THEN out ELSE WithCommand(seen[n - 1], s[n])
    IN  seen[Len(s)]

\* A command makes a block.
LEMMA BlockType == ASSUME NEW c \in Collapsed(Nat) PROVE Block(c) \in BlockRecord
<1>1. c.elems \in Seq(Elements) /\ c.op \in Ops /\ c.obj \in Objs /\ c.name \in Name
  BY DEF Collapsed, Records
<1>2. KeysOf(c.elems) \in SUBSET (Key \cup {"old"})
  BY <1>1, KeysType
<1> QED BY <1>1, <1>2 DEF Block, BlockRecord

\* Blocks with one more are blocks.
LEMMA PutType ==
    ASSUME NEW out \in Seq(BlockRecord), NEW b \in BlockRecord
    PROVE  PutBlock(out, b) \in Seq(BlockRecord) /\ PutBlock(out, b) # <<>>
<1>1. CASE out # <<>> /\ Continues(b, Last(out))
  <2> DEFINE n == Len(out)
             new == [out[n] EXCEPT !.keys = @ \cup b.keys]
  <2>1. n \in Nat /\ n \in 1..n /\ out[n] \in BlockRecord
    BY <1>1
  <2>2. new \in BlockRecord
    BY <2>1 DEF BlockRecord
  <2>3. PutBlock(out, b) = [out EXCEPT ![n] = new]
    BY <1>1 DEF PutBlock
  <2> HIDE DEF new
  <2>4. [out EXCEPT ![n] = new] \in Seq(BlockRecord) /\ Len([out EXCEPT ![n] = new]) = n /\ n # 0
    BY <1>1, <2>1, <2>2
  <2> QED BY <2>3, <2>4
<1>2. CASE ~(out # <<>> /\ Continues(b, Last(out)))
  <2>1. PutBlock(out, b) = Append(out, b)
    BY <1>2 DEF PutBlock
  <2> QED BY <2>1
<1> QED BY <1>1, <1>2

\* So are blocks with another command.
LEMMA WithType ==
    ASSUME NEW out \in Seq(BlockRecord), NEW c \in Collapsed(Nat)
    PROVE  WithCommand(out, c) \in Seq(BlockRecord)
BY BlockType, PutType DEF WithCommand

\* The blocks after each command of a list.
Folds(f, out, s) ==
    /\ f \in [0..Len(s) -> Seq(BlockRecord)]
    /\ f[0] = out /\ \A n \in 1..Len(s) : f[n] = WithCommand(f[n - 1], s[n])
    /\ BlocksFrom(out, s) = f[Len(s)]

\* That is how BlocksFrom goes.
LEMMA FoldSteps ==
    ASSUME NEW out \in Seq(BlockRecord), NEW s \in Seq(Collapsed(Nat)) PROVE \E f : Folds(f, out, s)
<1> DEFINE n == Len(s)
           V == Seq(BlockRecord)
           Body(f) == [m \in 0..n |-> IF m = 0 THEN out ELSE WithCommand(f[m - 1], s[m])]
           step == [x \in V \X (1..n) |-> WithCommand(x[1], s[x[2]])]
           seen == CHOOSE f : f = Body(f)
<1>1. n \in Nat /\ \A m \in 1..n : s[m] \in Collapsed(Nat)
  OBVIOUS
<1>2. \A x \in V, m \in 1..n : step[<<x, m>>] = WithCommand(x, s[m]) /\ WithCommand(x, s[m]) \in V
  BY <1>1, WithType
<1>3. step \in [V \X (1..n) -> V]
  <2> HIDE DEF n
  <2> QED BY <1>1, WithType
<1> HIDE DEF step
<1>4. PICK g : Recurs(g, n, V, out, step)
  <2> HIDE DEF n
  <2> QED BY <1>1, <1>3, Recursion
<1> HIDE DEF V
<1>5. g = Body(g)
  <2>1. ASSUME NEW m \in 0..n PROVE g[m] = IF m = 0 THEN out ELSE WithCommand(g[m - 1], s[m])
    <3>1. CASE m = 0
      BY <1>4, <3>1 DEF Recurs
    <3>2. CASE m # 0
      <4>1. m \in 1..n /\ m - 1 \in 0..n
        BY <1>1, <3>2
      <4> QED BY <1>2, <1>4, <3>2, <4>1 DEF Recurs
    <3> QED BY <3>1, <3>2
  <2>2. DOMAIN g = 0..n /\ g = [m \in 0..n |-> g[m]]
    BY <1>4 DEF Recurs
  <2> QED BY <2>1, <2>2
<1>6. seen = Body(seen)
  <2> HIDE DEF Body
  <2> QED BY <1>5
<1>7. BlocksFrom(out, s) = seen[n]
  BY DEF BlocksFrom
<1> HIDE DEF seen
<1>8. DOMAIN seen = 0..n /\ \A m \in 0..n : seen[m] = IF m = 0 THEN out ELSE WithCommand(seen[m - 1], s[m])
  BY <1>6
<1> DEFINE T == {m \in 0..n : seen[m] \in V}
<1>9. 0 \in T
  BY <1>1, <1>8 DEF V
<1>10. ASSUME NEW m \in 0..(n - 1), m \in T PROVE m + 1 \in T
  <2>1. m + 1 \in 1..n /\ m + 1 \in 0..n /\ (m + 1) - 1 = m /\ m + 1 # 0
    BY <1>1
  <2>2. seen[m + 1] = WithCommand(seen[m], s[m + 1])
    BY <1>8, <2>1
  <2>3. seen[m] \in V
    BY <1>10
  <2> QED BY <1>2, <2>1, <2>2, <2>3
<1>11. 0..n \subseteq T
  <2> HIDE DEF T
  <2> QED BY <1>1, <1>9, <1>10, Upto
<1>12. seen \in [0..n -> V]
  <2>1. \A m \in 0..n : seen[m] \in V
    BY <1>11
  <2>2. seen = [m \in 0..n |-> seen[m]]
    BY <1>6
  <2> QED BY <2>1, <2>2
<1>13. seen[0] = out
  BY <1>1, <1>8
<1>14. \A m \in 1..n : seen[m] = WithCommand(seen[m - 1], s[m])
  BY <1>1, <1>8
<1>15. Folds(seen, out, s)
  BY <1>7, <1>12, <1>13, <1>14 DEF Folds, V
<1> QED BY <1>15

\* What goes step by step as BlocksFrom does ends where it does.
LEMMA FoldsTo ==
    ASSUME NEW out \in Seq(BlockRecord), NEW s \in Seq(Collapsed(Nat)), NEW h,
           h[0] = out, \A n \in 1..Len(s) : h[n] = WithCommand(h[n - 1], s[n])
    PROVE  BlocksFrom(out, s) = h[Len(s)]
<1> DEFINE n == Len(s)
<1>1. PICK f : Folds(f, out, s)
  BY FoldSteps
<1> DEFINE T == {m \in 0..n : h[m] = f[m]}
<1>2. n \in Nat
  OBVIOUS
<1>3. 0 \in T
  BY <1>1, <1>2 DEF Folds
<1>4. ASSUME NEW m \in 0..(n - 1), m \in T PROVE m + 1 \in T
  <2>1. m + 1 \in 1..n /\ m + 1 \in 0..n /\ (m + 1) - 1 = m
    BY <1>2
  <2>2. f[m + 1] = WithCommand(f[m], s[m + 1])
    BY <1>1, <2>1 DEF Folds
  <2>3. h[m + 1] = WithCommand(h[m], s[m + 1])
    BY <2>1
  <2>4. h[m] = f[m]
    BY <1>4
  <2> QED BY <2>1, <2>2, <2>3, <2>4
<1>5. n \in T
  <2> HIDE DEF T
  <2>1. 0..n \subseteq T
    BY <1>2, <1>3, <1>4, Upto
  <2> QED BY <1>2, <2>1
<1> QED BY <1>1, <1>5 DEF Folds

\* BlocksFrom returns blocks.
LEMMA FromType ==
    ASSUME NEW out \in Seq(BlockRecord), NEW s \in Seq(Collapsed(Nat))
    PROVE  BlocksFrom(out, s) \in Seq(BlockRecord)
<1>1. PICK f : Folds(f, out, s)
  BY FoldSteps
<1>2. Len(s) \in 0..Len(s)
  OBVIOUS
<1> QED BY <1>1, <1>2 DEF Folds

\* No command changes nothing.
LEMMA FromNone == ASSUME NEW out \in Seq(BlockRecord) PROVE BlocksFrom(out, <<>>) = out
<1>1. <<>> \in Seq(Collapsed(Nat)) /\ Len(<<>>) = 0
  OBVIOUS
<1>2. PICK f : Folds(f, out, <<>>)
  BY <1>1, FoldSteps
<1> QED BY <1>1, <1>2 DEF Folds

\* One list after the other.
LEMMA FromJoin ==
    ASSUME NEW out \in Seq(BlockRecord), NEW s \in Seq(Collapsed(Nat)), NEW t \in Seq(Collapsed(Nat))
    PROVE  BlocksFrom(out, s \o t) = BlocksFrom(BlocksFrom(out, s), t)
<1> DEFINE j == Len(s)
           k == Len(t)
<1>1. j \in Nat /\ k \in Nat /\ s \o t \in Seq(Collapsed(Nat)) /\ Len(s \o t) = j + k
  OBVIOUS
<1>2. PICK f : Folds(f, out, s)
  BY FoldSteps
<1>3. PICK g : Folds(g, BlocksFrom(out, s), t)
  BY FoldSteps, FromType
<1> DEFINE h == [n \in 0..(j + k) |-> IF n =< j THEN f[n] ELSE g[n - j]]
<1>4. h[0] = out
  BY <1>1, <1>2 DEF Folds
<1>5. ASSUME NEW n \in 1..(j + k) PROVE h[n] = WithCommand(h[n - 1], (s \o t)[n])
  <2>1. n \in 0..(j + k) /\ n - 1 \in 0..(j + k)
    BY <1>1
  <2>2. CASE n =< j
    <3>1. n \in 1..j /\ n - 1 =< j /\ (s \o t)[n] = s[n]
      BY <1>1, <2>2
    <3>2. f[n] = WithCommand(f[n - 1], s[n])
      BY <1>2, <3>1 DEF Folds
    <3> QED BY <2>1, <2>2, <3>1, <3>2
  <2>3. CASE n > j
    <3>1. n - j \in 1..k /\ (n - j) - 1 = (n - 1) - j /\ (s \o t)[n] = t[n - j]
      BY <1>1, <2>3
    <3>2. g[n - j] = WithCommand(g[(n - 1) - j], t[n - j])
      BY <1>3, <3>1 DEF Folds
    <3>3. h[n] = g[n - j]
      BY <1>1, <2>1, <2>3
    <3>4. h[n - 1] = g[(n - 1) - j]
      <4>1. CASE n - 1 =< j
        <5>1. n - 1 = j /\ (n - 1) - j = 0
          BY <1>1, <2>3, <4>1
        <5>2. h[n - 1] = f[j]
          BY <2>1, <5>1
        <5> QED BY <1>2, <1>3, <5>1, <5>2 DEF Folds
      <4>2. CASE ~(n - 1 =< j)
        BY <2>1, <4>2
      <4> QED BY <4>1, <4>2
    <3> QED BY <3>1, <3>2, <3>3, <3>4
  <2> QED BY <1>1, <2>2, <2>3
<1>6. BlocksFrom(out, s \o t) = h[j + k]
  <2> HIDE DEF h, j, k
  <2> QED BY <1>1, <1>4, <1>5, FoldsTo
<1>7. h[j + k] = g[k]
  <2>1. CASE k = 0
    BY <1>1, <1>2, <1>3, <2>1 DEF Folds
  <2>2. CASE k # 0
    BY <1>1, <2>2
  <2> QED BY <2>1, <2>2
<1>8. g[k] = BlocksFrom(BlocksFrom(out, s), t)
  BY <1>3 DEF Folds
<1> QED BY <1>6, <1>7, <1>8

\* One command.
LEMMA FromOne ==
    ASSUME NEW out \in Seq(BlockRecord), NEW c \in Collapsed(Nat)
    PROVE  BlocksFrom(out, <<c>>) = WithCommand(out, c)
<1> DEFINE one == <<c>>
<1>1. one \in Seq(Collapsed(Nat)) /\ Len(one) = 1 /\ one[1] = c
  OBVIOUS
<1> HIDE DEF one
<1>2. PICK f : Folds(f, out, one)
  BY <1>1, FoldSteps
<1>3. f[1] = WithCommand(f[0], one[1]) /\ f[0] = out /\ BlocksFrom(out, one) = f[1]
  <2>1. 1 \in 1..Len(one) /\ 1 - 1 = 0
    BY <1>1
  <2> QED BY <1>1, <1>2, <2>1 DEF Folds
<1>4. BlocksFrom(out, one) = WithCommand(out, c)
  BY <1>1, <1>3
<1> QED BY <1>4 DEF one

\* Two blocks for one set are one block.
LEMMA PutTwice ==
    ASSUME NEW out \in Seq(BlockRecord), NEW b \in BlockRecord, NEW d \in BlockRecord,
           AddsElements(b), d.op = b.op, d.obj = b.obj, d.name = b.name
    PROVE  PutBlock(PutBlock(out, b), d) = PutBlock(out, [b EXCEPT !.keys = @ \cup d.keys])
<1> DEFINE both == [b EXCEPT !.keys = @ \cup d.keys]
<1>1. b.obj = "elements" /\ AddsElements(d)
  BY DEF AddsElements
<1>2. both \in BlockRecord /\ both.op = b.op /\ both.obj = b.obj /\ both.name = b.name /\ both.keys = b.keys \cup d.keys
  BY DEF BlockRecord
<1>3. CASE out # <<>> /\ Continues(b, Last(out))
  <2> DEFINE n == Len(out)
             new == [out[n] EXCEPT !.keys = @ \cup b.keys]
             newer == [new EXCEPT !.keys = @ \cup d.keys]
             newest == [out[n] EXCEPT !.keys = @ \cup both.keys]
             grown == [out EXCEPT ![n] = new]
  <2>1. n \in Nat /\ n \in 1..n /\ out[n] \in BlockRecord
    BY <1>3
  <2>2. new \in BlockRecord /\ newer = newest
    BY <1>2, <2>1 DEF BlockRecord
  <2>3. PutBlock(out, b) = grown
    BY <1>3 DEF PutBlock
  <2>4. out[n].op = b.op /\ out[n].obj = "elements" /\ out[n].name = b.name
    BY <1>3 DEF Continues, Last
  <2>5. new.op = b.op /\ new.obj = "elements" /\ new.name = b.name
    BY <2>1, <2>4 DEF BlockRecord
  <2>6. PutBlock(out, both) = [out EXCEPT ![n] = newest]
    <3>1. Continues(both, Last(out))
      BY <1>2, <1>3 DEF Continues, AddsElements
    <3> HIDE DEF both
    <3> QED BY <1>3, <3>1 DEF PutBlock
  <2> HIDE DEF new
  <2>7. Len(grown) = n /\ grown[n] = new /\ grown # <<>> /\ [grown EXCEPT ![n] = newest] = [out EXCEPT ![n] = newest]
    <3> HIDE DEF newest
    <3>1. Len(grown) = n /\ grown[n] = new /\ DOMAIN out = 1..n /\ DOMAIN grown = 1..n
      BY <2>1, <2>2
    <3>2. grown # <<>>
      BY <2>1, <3>1
    <3>3. [grown EXCEPT ![n] = newest] = [out EXCEPT ![n] = newest]
      BY <3>1
    <3> QED BY <3>1, <3>2, <3>3
  <2>8. Continues(d, Last(grown))
    <3>1. Last(grown) = new
      BY <2>7 DEF Last
    <3> HIDE DEF grown
    <3> QED BY <1>1, <2>5, <3>1 DEF Continues
  <2>9. PutBlock(grown, d) = [grown EXCEPT ![n].keys = @ \cup d.keys]
    <3> HIDE DEF grown
    <3> QED BY <2>7, <2>8 DEF PutBlock
  <2>10. [grown EXCEPT ![n].keys = @ \cup d.keys] = [grown EXCEPT ![n] = newer]
    <3> HIDE DEF grown
    <3> QED BY <2>7
  <2> HIDE DEF grown, newer, newest
  <2> QED BY <2>2, <2>3, <2>6, <2>7, <2>9, <2>10
<1>4. CASE ~(out # <<>> /\ Continues(b, Last(out)))
  <2> DEFINE n == Len(out) + 1
             grown == Append(out, b)
  <2>1. PutBlock(out, b) = grown
    BY <1>4 DEF PutBlock
  <2>2. grown \in Seq(BlockRecord) /\ Len(grown) = n /\ grown[n] = b /\ grown # <<>> /\ n \in Nat
    OBVIOUS
  <2>3. ~(out # <<>> /\ Continues(both, Last(out)))
    BY <1>2, <1>4 DEF Continues, AddsElements
  <2>4. PutBlock(out, both) = Append(out, both)
    <3> HIDE DEF both
    <3> QED BY <2>3 DEF PutBlock
  <2>5. Last(grown) = b
    <3> HIDE DEF grown
    <3> QED BY <2>2 DEF Last
  <2>6. Continues(d, b)
    BY <1>1 DEF Continues
  <2>7. PutBlock(grown, d) = [grown EXCEPT ![n] = both]
    <3>1. PutBlock(grown, d) = [grown EXCEPT ![n].keys = @ \cup d.keys]
      <4> HIDE DEF grown, n
      <4> QED BY <2>2, <2>5, <2>6 DEF PutBlock
    <3> HIDE DEF grown
    <3> QED BY <2>2, <3>1
  <2>8. [grown EXCEPT ![n] = both] = Append(out, both)
    <3> DEFINE l == [grown EXCEPT ![n] = both]
               r == Append(out, both)
    <3>1. l \in Seq(BlockRecord) /\ Len(l) = n /\ \A i \in 1..n : l[i] = IF i = n THEN both ELSE grown[i]
      <4> HIDE DEF both, grown, n
      <4> QED BY <1>2, <2>2
    <3>2. r \in Seq(BlockRecord) /\ Len(r) = n /\ r[n] = both /\ \A i \in 1..(n - 1) : r[i] = out[i] /\ grown[i] = out[i]
      <4> HIDE DEF both
      <4> QED BY <1>2
    <3>3. \A i \in 1..n : i = n \/ i \in 1..(n - 1)
      BY <2>2
    <3> HIDE DEF l, r, grown, n, both
    <3>4. \A i \in 1..Len(l) : l[i] = r[i]
      BY <3>1, <3>2, <3>3
    <3>5. l = r
      BY <3>1, <3>2, <3>4, SeqEqual
    <3> QED BY <3>5 DEF l, r
  <2> HIDE DEF grown, n, both
  <2>9. PutBlock(PutBlock(out, b), d) = PutBlock(out, both)
    BY <2>1, <2>4, <2>7, <2>8
  <2> QED BY <2>9 DEF both
<1> QED BY <1>3, <1>4

\* The keys of all elements of some commands.
AllKeys(s) == UNION {KeysOf(s[n].elems) : n \in DOMAIN s}

\* Commands on one set make one block.
LEMMA SameBlock ==
    ASSUME NEW s \in Seq(Single(Nat)), s # <<>>, NEW b \in BlockRecord, AddsElements(b),
           \A n \in DOMAIN s : s[n].op = b.op /\ s[n].obj = b.obj /\ s[n].name = b.name,
           b.keys = AllKeys(s),
           NEW out \in Seq(BlockRecord)
    PROVE  BlocksFrom(out, s) = PutBlock(out, b)
<1> DEFINE Same == {c \in Single(Nat) : c.op = b.op /\ c.obj = b.obj /\ c.name = b.name}
           Whole(t) == [b EXCEPT !.keys = AllKeys(t)]
           T == {t \in Seq(Same) : t # <<>> => Whole(t) \in BlockRecord /\ BlocksFrom(out, t) = PutBlock(out, Whole(t))}
<1>1. <<>> \in T
  BY EmptySeq
<1>2. ASSUME NEW t \in Seq(Same), NEW e \in Same, t \in T PROVE t \o <<e>> \in T
  <2> DEFINE one == <<e>>
  <2>1. e \in Single(Nat) /\ e \in Collapsed(Nat) /\ Same \subseteq Collapsed(Nat)
    BY SinglesWider
  <2>2. one \in Seq(Same) /\ t \in Seq(Collapsed(Nat)) /\ one \in Seq(Collapsed(Nat))
    <3>1. one \in Seq(Same)
      OBVIOUS
    <3> HIDE DEF one, Same
    <3> QED BY <2>1, <3>1, Wider
  <2>3. Block(e) \in BlockRecord /\ Block(e).op = b.op /\ Block(e).obj = b.obj /\ Block(e).name = b.name /\ Block(e).keys = KeysOf(e.elems)
    BY <2>1, BlockType DEF Block
  <2>4. WithCommand(BlocksFrom(out, t), e) = PutBlock(BlocksFrom(out, t), Block(e))
    <3>1. Asked(e)
      BY DEF Asked, AddsElements
    <3> QED BY <3>1 DEF WithCommand
  <2>5. BlocksFrom(out, t \o one) = PutBlock(BlocksFrom(out, t), Block(e))
    <3>1. BlocksFrom(out, t \o one) = BlocksFrom(BlocksFrom(out, t), one)
      <4> HIDE DEF one, Same
      <4> QED BY <2>2, FromJoin
    <3>2. BlocksFrom(BlocksFrom(out, t), one) = WithCommand(BlocksFrom(out, t), e)
      BY <2>1, <2>2, FromType, FromOne
    <3> QED BY <2>4, <3>1, <3>2
  <2>6. t \o one \in Seq(Same) /\ Len(t \o one) = Len(t) + 1 /\ Len(t) \in Nat
        /\ \A n \in 1..(Len(t) + 1) : (t \o one)[n] = IF n <= Len(t) THEN t[n] ELSE e
    <3>1. Len(one) = 1 /\ one[1] = e
      OBVIOUS
    <3> HIDE DEF one, Same
    <3>2. /\ t \o one \in Seq(Same) /\ Len(t \o one) = Len(t) + Len(one)
          /\ \A n \in 1..(Len(t) + Len(one)) : (t \o one)[n] = IF n <= Len(t) THEN t[n] ELSE one[n - Len(t)]
      BY <2>2, ConcatProperties
    <3>3. Len(t) \in Nat
      OBVIOUS
    <3>4. \A n \in 1..(Len(t) + 1) : n <= Len(t) \/ n - Len(t) = 1
      BY <3>3
    <3> QED BY <3>1, <3>2, <3>3, <3>4
  <2>7. AllKeys(t \o one) = AllKeys(t) \cup KeysOf(e.elems)
    <3>1. DOMAIN (t \o one) = 1..(Len(t) + 1) /\ DOMAIN t = 1..Len(t)
      <4> HIDE DEF Same, one
      <4> QED BY <2>6
    <3> DEFINE u == t \o one
    <3>2. \A n \in 1..Len(t) : u[n] = t[n]
      BY <2>6
    <3>3. u[Len(t) + 1] = e
      BY <2>6
    <3>4. 1..(Len(t) + 1) = (1..Len(t)) \cup {Len(t) + 1}
      BY <2>6
    <3> HIDE DEF u, Same, one
    <3>5. {KeysOf(u[n].elems) : n \in 1..(Len(t) + 1)} = {KeysOf(t[n].elems) : n \in 1..Len(t)} \cup {KeysOf(e.elems)}
      BY <3>2, <3>3, <3>4
    <3>6. AllKeys(u) = UNION {KeysOf(u[n].elems) : n \in 1..(Len(t) + 1)} /\ AllKeys(t) = UNION {KeysOf(t[n].elems) : n \in 1..Len(t)}
      BY <3>1 DEF AllKeys, u
    <3> QED BY <3>5, <3>6 DEF u
  <2> HIDE DEF one
  <2>8. CASE t = <<>>
    <3>1. BlocksFrom(out, t) = out
      BY <2>8, FromNone
    <3>2. AllKeys(t) = {}
      BY <2>8 DEF AllKeys
    <3>3. Whole(t \o one) = Block(e)
      <4>1. AllKeys(t \o one) = Block(e).keys
        BY <2>3, <2>7, <3>2
      <4>2. Block(e) = [op |-> Block(e).op, obj |-> Block(e).obj, name |-> Block(e).name, keys |-> Block(e).keys]
        BY <2>3 DEF BlockRecord
      <4>3. b = [op |-> b.op, obj |-> b.obj, name |-> b.name, keys |-> b.keys]
        BY DEF BlockRecord
      <4> QED BY <2>3, <4>1, <4>2, <4>3
    <3>4. t \o one \in T
      <4> HIDE DEF Whole, Same
      <4> QED BY <2>3, <2>5, <2>6, <3>1, <3>3
    <3> QED BY <3>4 DEF one
  <2>9. CASE t # <<>>
    <3>1. Whole(t) \in BlockRecord /\ BlocksFrom(out, t) = PutBlock(out, Whole(t))
      BY <1>2, <2>9
    <3>2. Whole(t).op = b.op /\ Whole(t).obj = b.obj /\ Whole(t).name = b.name /\ Whole(t).keys = AllKeys(t)
      BY DEF BlockRecord
    <3>3. Whole(t \o one) = [Whole(t) EXCEPT !.keys = @ \cup Block(e).keys]
      <4>1. AllKeys(t \o one) = AllKeys(t) \cup Block(e).keys
        BY <2>3, <2>7
      <4>2. b = [op |-> b.op, obj |-> b.obj, name |-> b.name, keys |-> b.keys]
        BY DEF BlockRecord
      <4> QED BY <4>1, <4>2
    <3>4. AddsElements(Whole(t))
      BY <3>2 DEF AddsElements
    <3>5. Whole(t \o one) \in BlockRecord
      BY <2>3, <3>1, <3>3 DEF BlockRecord
    <3>6. PutBlock(PutBlock(out, Whole(t)), Block(e)) = PutBlock(out, Whole(t \o one))
      <4> HIDE DEF Whole
      <4> QED BY <2>3, <3>1, <3>2, <3>3, <3>4, PutTwice
    <3>7. t \o one \in T
      <4> HIDE DEF Whole, Same
      <4> QED BY <2>5, <2>6, <3>1, <3>5, <3>6
    <3> QED BY <3>7 DEF one
  <2> QED BY <2>8, <2>9
<1>3. s \in Seq(Same)
  <2>1. DOMAIN s = 1..Len(s) /\ Len(s) \in Nat /\ s = [n \in 1..Len(s) |-> s[n]] /\ \A n \in 1..Len(s) : s[n] \in Single(Nat)
    OBVIOUS
  <2>2. \A n \in 1..Len(s) : s[n] \in Same
    BY <2>1
  <2> HIDE DEF Same
  <2>3. s \in [1..Len(s) -> Same]
    BY <2>1, <2>2
  <2> QED BY <2>1, <2>3, MadeSeq
<1>4. s \in T
  <2> HIDE DEF T, Same
  <2> QED BY <1>1, <1>2, <1>3, EverySeq
<1>5. Whole(s) = b
  BY DEF BlockRecord
<1> HIDE DEF Whole
<1> QED BY <1>4, <1>5

\* A collapsed command knows of each element whose it is, and has merged only
\* commands like itself.
Traced(c) ==
    IF AddsElements(c)
    THEN /\ \A k \in DOMAIN c.elems :
                c.elems[k].cmd = 0 \/ \E j \in DOMAIN c.merged : c.elems[k].cmd = c.merged[j].id
         /\ \A j \in DOMAIN c.merged :
                c.merged[j].op = c.op /\ c.merged[j].obj = c.obj /\ c.merged[j].name = c.name
    ELSE c.merged = <<>>

\* Taken apart, a command leaves commands like itself, with all its keys.
LEMMA ApartKeys ==
    ASSUME NEW c \in Collapsed(Nat), Traced(c), AddsElements(c)
    PROVE  /\ Apart(c) \in Seq(Single(Nat)) /\ Apart(c) # <<>>
           /\ \A n \in DOMAIN Apart(c) : Apart(c)[n].op = c.op /\ Apart(c)[n].obj = c.obj /\ Apart(c)[n].name = c.name
           /\ AllKeys(Apart(c)) = KeysOf(c.elems)
<1>1. Apart(c) \in Seq(Single(Nat))
  BY ApartType
<1>2. c.elems \in Seq(Elements) /\ c.merged \in Seq(Single(Nat))
  BY DEF Collapsed, Records
<1>3. \A s : AllKeys(s) = UNION {KeysOf(x.elems) : x \in Range(s)}
  BY DEF AllKeys, Range
<1>4. CASE c.merged = <<>>
  <2> DEFINE one == <<c>>
  <2>1. Apart(c) = one
    BY <1>4 DEF Apart
  <2>2. one # <<>> /\ DOMAIN one = {1} /\ one[1] = c
    OBVIOUS
  <2> HIDE DEF one
  <2>3. AllKeys(one) = KeysOf(c.elems)
    BY <2>2 DEF AllKeys
  <2> QED BY <1>1, <2>1, <2>2, <2>3
<1>5. CASE c.merged # <<>>
  <2> DEFINE lead == [c EXCEPT !.elems = Of(c, 0), !.merged = <<>>]
             one == <<lead>>
             back == [k \in DOMAIN c.merged |-> Returned(c, c.merged[k])]
  <2>1. Apart(c) = one \o Reverse(back)
    BY <1>5 DEF Apart
  <2>2. lead.elems = Of(c, 0) /\ lead.op = c.op /\ lead.obj = c.obj /\ lead.name = c.name
    BY DEF Collapsed, Records
  <2> HIDE DEF lead
  <2>3. IsSeq(one) /\ one # <<>> /\ Range(one) = {lead}
    BY OneSeq
  <2> HIDE DEF one
  <2>4. DOMAIN c.merged = 1..Len(c.merged) /\ Len(c.merged) \in Nat /\ \A k \in DOMAIN c.merged : c.merged[k] \in Single(Nat)
    BY <1>2
  <2>5. Range(back) = {Returned(c, c.merged[k]) : k \in DOMAIN c.merged}
    BY DEF Range
  <2>6. back \in Seq(Range(back)) /\ Len(back) = Len(c.merged)
    <3>1. back \in [1..Len(c.merged) -> Range(back)]
      BY <2>4, <2>5
    <3> HIDE DEF back
    <3> QED BY <2>4, <3>1, MadeSeq
  <2> HIDE DEF back
  <2>7. Range(Reverse(back)) = Range(back)
    BY <2>6, ReverseRange
  <2>8. IsSeq(Reverse(back))
    <3>1. Reverse(back) \in Seq(Range(back))
      <4>1. \A i \in 1..Len(back) : back[(Len(back) - i) + 1] \in Range(back)
        BY <2>6
      <4>2. Reverse(back) \in [1..Len(back) -> Range(back)]
        BY <4>1 DEF Reverse
      <4>3. Len(back) \in Nat
        BY <2>6
      <4> QED BY <4>2, <4>3, MadeSeq
    <3> QED BY <3>1, AnySeq
  <2>9. Range(Apart(c)) = {lead} \cup {Returned(c, c.merged[k]) : k \in DOMAIN c.merged}
    BY <2>1, <2>3, <2>5, <2>7, <2>8, JoinedSeq
  <2>10. Apart(c) # <<>>
    BY <2>1, <2>3, <2>8, TwoSeq
  <2>11. ASSUME NEW x \in Range(Apart(c)) PROVE x.op = c.op /\ x.obj = c.obj /\ x.name = c.name
    <3>1. CASE x = lead
      BY <2>2, <3>1
    <3>2. ASSUME NEW k \in DOMAIN c.merged, x = Returned(c, c.merged[k]) PROVE x.op = c.op /\ x.obj = c.obj /\ x.name = c.name
      <4>1. c.merged[k].op = c.op /\ c.merged[k].obj = c.obj /\ c.merged[k].name = c.name
        BY DEF Traced
      <4>2. x.op = c.merged[k].op /\ x.obj = c.merged[k].obj /\ x.name = c.merged[k].name
        BY <1>2, <2>4, <3>2, KeysReturned
      <4> QED BY <4>1, <4>2
    <3> QED BY <2>9, <3>1, <3>2
  <2>12. \A n \in DOMAIN Apart(c) : Apart(c)[n] \in Range(Apart(c))
    BY DEF Range
  <2> DEFINE Whose(id) == {k \in DOMAIN c.elems : c.elems[k].cmd = id}
             Keys(id) == UNION {c.elems[n].keys : n \in Whose(id)}
  <2>13. AllKeys(Apart(c)) = Keys(0) \cup UNION {Keys(c.merged[k].id) : k \in DOMAIN c.merged}
    <3>1. KeysOf(lead.elems) = Keys(0)
      BY <1>2, <2>2, KeysOfOwn
    <3>2. ASSUME NEW k \in DOMAIN c.merged PROVE KeysOf(Returned(c, c.merged[k]).elems) = Keys(c.merged[k].id)
      <4>1. KeysOf(Returned(c, c.merged[k]).elems) = KeysOf(Of(c, c.merged[k].id))
        BY <1>2, <2>4, KeysReturned
      <4>2. KeysOf(Of(c, c.merged[k].id)) = Keys(c.merged[k].id)
        BY <1>2, KeysOfOwn
      <4> QED BY <4>1, <4>2
    <3> HIDE DEF Keys
    <3>3. AllKeys(Apart(c)) = UNION {KeysOf(x.elems) : x \in Range(Apart(c))}
      BY <1>3
    <3> DEFINE others == {Returned(c, c.merged[k]) : k \in DOMAIN c.merged}
    <3>4. {KeysOf(x.elems) : x \in others} = {Keys(c.merged[k].id) : k \in DOMAIN c.merged}
      BY <3>2
    <3> HIDE DEF others
    <3>5. {KeysOf(x.elems) : x \in {lead} \cup others} = {KeysOf(lead.elems)} \cup {KeysOf(x.elems) : x \in others}
      OBVIOUS
    <3>6. Range(Apart(c)) = {lead} \cup others
      BY <2>9 DEF others
    <3> DEFINE rest == {Keys(c.merged[k].id) : k \in DOMAIN c.merged}
    <3>7. AllKeys(Apart(c)) = UNION ({Keys(0)} \cup rest)
      BY <3>1, <3>3, <3>4, <3>5, <3>6
    <3> HIDE DEF rest
    <3>8. AllKeys(Apart(c)) = Keys(0) \cup UNION rest
      BY <3>7
    <3> QED BY <3>8 DEF rest
  <2>14. Keys(0) \cup UNION {Keys(c.merged[k].id) : k \in DOMAIN c.merged} = KeysOf(c.elems)
    <3>1. KeysOf(c.elems) = UNION {c.elems[n].keys : n \in DOMAIN c.elems}
      BY DEF KeysOf
    <3>2. \A id : Keys(id) \subseteq KeysOf(c.elems)
      BY <3>1
    <3>3. ASSUME NEW x \in KeysOf(c.elems) PROVE x \in Keys(0) \cup UNION {Keys(c.merged[k].id) : k \in DOMAIN c.merged}
      <4>1. PICK n \in DOMAIN c.elems : x \in c.elems[n].keys
        BY <3>1
      <4>2. x \in Keys(c.elems[n].cmd)
        BY <4>1
      <4>3. c.elems[n].cmd = 0 \/ \E j \in DOMAIN c.merged : c.elems[n].cmd = c.merged[j].id
        BY DEF Traced
      <4> HIDE DEF Keys
      <4> QED BY <4>2, <4>3
    <3> HIDE DEF Keys
    <3> QED BY <3>2, <3>3
  <2>15. AllKeys(Apart(c)) = KeysOf(c.elems)
    BY <2>13, <2>14
  <2> QED BY <1>1, <2>10, <2>11, <2>12, <2>15
<1> QED BY <1>4, <1>5

\* What is sent of a command that adds elements is one block.
LEMMA SendsBlock ==
    ASSUME NEW c \in Collapsed(Nat), Traced(c), AddsElements(c), NEW out \in Seq(BlockRecord)
    PROVE  BlocksFrom(out, Sends(<<c>>)) = PutBlock(out, Block(c))
<1> DEFINE s == Apart(c)
           b == Block(c)
<1>1. /\ s \in Seq(Single(Nat)) /\ s # <<>>
      /\ \A n \in DOMAIN s : s[n].op = c.op /\ s[n].obj = c.obj /\ s[n].name = c.name
      /\ AllKeys(s) = KeysOf(c.elems)
  BY ApartKeys
<1>2. \A n \in DOMAIN s : s[n].obj = "elements"
  BY <1>1 DEF AddsElements
<1>3. b \in BlockRecord /\ b.op = c.op /\ b.obj = c.obj /\ b.name = c.name /\ b.keys = KeysOf(c.elems)
  BY BlockType DEF Block
<1>4. AddsElements(b)
  BY <1>3 DEF AddsElements
<1>5. Sends(<<c>>) = ExpandAll(s)
  BY SendsOne
<1> HIDE DEF s, b
<1>6. ExpandAll(s) = s
  BY <1>1, <1>2, ExpandElements
<1>7. BlocksFrom(out, s) = PutBlock(out, b)
  BY <1>1, <1>3, <1>4, SameBlock
<1> QED BY <1>5, <1>6, <1>7 DEF b

\* Lists that come to the same when they are sent.
Same(x, y) == \A out \in Seq(BlockRecord) : BlocksFrom(out, Sends(x)) = BlocksFrom(out, Sends(y))

\* So do they one after the other.
LEMMA SameJoin ==
    ASSUME NEW x \in Seq(Collapsed(Nat)), NEW y \in Seq(Collapsed(Nat)),
           NEW u \in Seq(Collapsed(Nat)), NEW v \in Seq(Collapsed(Nat)), Same(x, y), Same(u, v)
    PROVE  Same(x \o u, y \o v)
<1>1. ASSUME NEW a \in Seq(Collapsed(Nat)), NEW b \in Seq(Collapsed(Nat)), NEW out \in Seq(BlockRecord)
      PROVE  /\ BlocksFrom(out, Sends(a)) \in Seq(BlockRecord)
             /\ BlocksFrom(out, Sends(a \o b)) = BlocksFrom(BlocksFrom(out, Sends(a)), Sends(b))
  <2>1. Sends(a) \in Seq(Collapsed(Nat)) /\ Sends(b) \in Seq(Collapsed(Nat))
    BY SendsType, SinglesWider
  <2>2. Sends(a \o b) = Sends(a) \o Sends(b)
    BY SendsJoin
  <2> QED BY <2>1, <2>2, FromJoin, FromType
<1>2. ASSUME NEW out \in Seq(BlockRecord)
      PROVE  BlocksFrom(out, Sends(x \o u)) = BlocksFrom(out, Sends(y \o v))
  <2> DEFINE mid == BlocksFrom(out, Sends(x))
  <2>1. mid \in Seq(BlockRecord) /\ mid = BlocksFrom(out, Sends(y))
    BY <1>1 DEF Same
  <2>2. BlocksFrom(out, Sends(x \o u)) = BlocksFrom(mid, Sends(u))
    BY <1>1
  <2>3. BlocksFrom(out, Sends(y \o v)) = BlocksFrom(mid, Sends(v))
    BY <1>1, <2>1
  <2> HIDE DEF mid
  <2>4. BlocksFrom(mid, Sends(u)) = BlocksFrom(mid, Sends(v))
    BY <2>1 DEF Same
  <2> QED BY <2>2, <2>3, <2>4
<1> QED BY <1>2 DEF Same

\* A command whose elements are its own knows of each whose it is.
LEMMA OwnTraced ==
    ASSUME NEW c \in Single(Nat), \A k \in DOMAIN c.elems : c.elems[k].cmd = 0 PROVE Traced(c)
<1>1. c.merged = <<>>
  BY DEF Single, Records
<1> QED BY <1>1 DEF Traced

\* A command that is merged with the one before it comes to what both do.
LEMMA JoinedSame ==
    ASSUME NEW l \in Collapsed(Nat), Traced(l), NEW c \in Single(Nat),
           AddsElements(l), AddsElements(c), Joins(c, l), \A k \in DOMAIN c.elems : c.elems[k].cmd = 0,
           Joined(l, c) \in Collapsed(Nat)
    PROVE  Traced(Joined(l, c)) /\ AddsElements(Joined(l, c)) /\ Same(<<l>> \o <<c>>, <<Joined(l, c)>>)
<1> DEFINE j == Joined(l, c)
           late == [c EXCEPT !.elems = <<>>]
<1>1. l.elems \in Seq(Elements) /\ l.merged \in Seq(Single(Nat)) /\ c.elems \in Seq(Elements) /\ c \in Collapsed(Nat)
  BY SinglesWider DEF Collapsed, Single, Records
<1>2. Given(c) \in Seq(Elements)
  BY GivenType
<1>3. j.elems = l.elems \o Given(c) /\ j.merged = Append(l.merged, late)
      /\ j.op = l.op /\ j.obj = l.obj /\ j.name = l.name
  BY DEF Joined, Collapsed, Records
<1>4. late.id = c.id /\ late.op = l.op /\ late.obj = l.obj /\ late.name = l.name
  BY DEF Joins, AddsElements, Single, Records
<1>5. AddsElements(j)
  BY <1>3 DEF AddsElements
<1> HIDE DEF j, late
<1>6. Traced(j)
  <2> DEFINE m == Len(l.merged)
  <2>1. m \in Nat /\ DOMAIN l.merged = 1..m /\ DOMAIN j.merged = 1..(m + 1) /\ j.merged[m + 1] = late
        /\ \A i \in 1..m : j.merged[i] = l.merged[i]
    BY <1>1, <1>3
  <2>2. ASSUME NEW i \in DOMAIN j.merged PROVE j.merged[i].op = j.op /\ j.merged[i].obj = j.obj /\ j.merged[i].name = j.name
    <3>1. i = m + 1 \/ i \in 1..m
      BY <2>1
    <3>2. \A n \in DOMAIN l.merged : l.merged[n].op = l.op /\ l.merged[n].obj = l.obj /\ l.merged[n].name = l.name
      BY DEF Traced
    <3> QED BY <1>3, <1>4, <2>1, <3>1, <3>2
  <2>3. ASSUME NEW e \in Range(j.elems) PROVE e.cmd = 0 \/ \E i \in DOMAIN j.merged : e.cmd = j.merged[i].id
    <3>1. e \in Range(l.elems) \/ e \in Range(Given(c))
      BY <1>1, <1>2, <1>3, AnySeq, JoinedSeq
    <3>2. CASE e \in Range(l.elems)
      <4>1. PICK k \in DOMAIN l.elems : e = l.elems[k]
        BY <3>2 DEF Range
      <4>2. e.cmd = 0 \/ \E i \in DOMAIN l.merged : e.cmd = l.merged[i].id
        BY <4>1 DEF Traced
      <4>3. \A i \in 1..m : i \in 1..(m + 1)
        BY <2>1
      <4> QED BY <2>1, <4>2, <4>3
    <3>3. CASE e \in Range(Given(c))
      <4>1. PICK k \in DOMAIN c.elems : e = [c.elems[k] EXCEPT !.cmd = c.id]
        BY <3>3 DEF Range, Given
      <4>2. c.elems[k] \in Elements
        BY <1>1
      <4>3. e.cmd = c.id
        BY <4>1, <4>2 DEF Elements
      <4>4. m + 1 \in DOMAIN j.merged
        BY <2>1
      <4> QED BY <1>4, <2>1, <4>3, <4>4
    <3> QED BY <3>1, <3>2, <3>3
  <2>4. \A k \in DOMAIN j.elems : j.elems[k] \in Range(j.elems)
    BY DEF Range
  <2>5. \A k \in DOMAIN j.elems : j.elems[k].cmd = 0 \/ \E i \in DOMAIN j.merged : j.elems[k].cmd = j.merged[i].id
    BY <2>3, <2>4
  <2> QED BY <1>5, <2>2, <2>5 DEF Traced
<1>7. ASSUME NEW out \in Seq(BlockRecord)
      PROVE  BlocksFrom(out, Sends(<<l>> \o <<c>>)) = BlocksFrom(out, Sends(<<j>>))
  <2> DEFINE one == <<l>>
             two == <<c>>
  <2>1. one \in Seq(Collapsed(Nat)) /\ two \in Seq(Collapsed(Nat))
    BY <1>1
  <2>2. BlocksFrom(out, Sends(one)) = PutBlock(out, Block(l))
    BY SendsBlock
  <2>3. \A o \in Seq(BlockRecord) : BlocksFrom(o, Sends(two)) = PutBlock(o, Block(c))
    BY <1>1, OwnTraced, SendsBlock
  <2>4. BlocksFrom(out, Sends(<<j>>)) = PutBlock(out, Block(j))
    BY <1>5, <1>6, SendsBlock DEF j
  <2> HIDE DEF one, two
  <2>5. BlocksFrom(out, Sends(one \o two)) = BlocksFrom(BlocksFrom(out, Sends(one)), Sends(two))
    <3>1. Sends(one) \in Seq(Collapsed(Nat)) /\ Sends(two) \in Seq(Collapsed(Nat))
      BY <2>1, SendsType, SinglesWider
    <3>2. Sends(one \o two) = Sends(one) \o Sends(two)
      BY <2>1, SendsJoin
    <3> QED BY <3>1, <3>2, FromJoin
  <2>6. Block(l) \in BlockRecord /\ Block(c) \in BlockRecord
    BY <1>1, BlockType
  <2>7. PutBlock(out, Block(l)) \in Seq(BlockRecord)
    BY <2>6, PutType
  <2>8. KeysOf(j.elems) = KeysOf(l.elems) \cup KeysOf(c.elems)
    BY <1>1, <1>2, <1>3, KeysJoin, KeysGiven
  <2>9. [Block(l) EXCEPT !.keys = @ \cup Block(c).keys] = Block(j)
    <3>1. j.op = l.op /\ j.obj = l.obj /\ j.name = l.name
      BY <1>3
    <3> DEFINE b == Block(l)
               k == Block(c).keys
               both == [b EXCEPT !.keys = @ \cup k]
    <3>2. b \in BlockRecord /\ b.op = l.op /\ b.obj = l.obj /\ b.name = l.name /\ b.keys = KeysOf(l.elems) /\ k = KeysOf(c.elems)
      BY <2>6 DEF Block
    <3>3. Block(j) = [op |-> b.op, obj |-> b.obj, name |-> b.name, keys |-> b.keys \cup k]
      <4>1. Block(j) = [op |-> j.op, obj |-> j.obj, name |-> j.name, keys |-> KeysOf(j.elems)]
        BY DEF Block
      <4> HIDE DEF b, k
      <4> QED BY <2>8, <3>1, <3>2, <4>1
    <3> HIDE DEF b, k
    <3>4. both = [op |-> b.op, obj |-> b.obj, name |-> b.name, keys |-> b.keys \cup k]
      <4>1. ASSUME NEW x \in BlockRecord, NEW more
            PROVE  [x EXCEPT !.keys = @ \cup more] = [op |-> x.op, obj |-> x.obj, name |-> x.name, keys |-> x.keys \cup more]
        <5>1. x = [op |-> x.op, obj |-> x.obj, name |-> x.name, keys |-> x.keys]
          BY DEF BlockRecord
        <5> DEFINE all == x.keys \cup more
        <5> HIDE DEF all
        <5>2. [x EXCEPT !.keys = all] = [op |-> x.op, obj |-> x.obj, name |-> x.name, keys |-> all]
          BY <5>1
        <5> QED BY <5>2 DEF all
      <4> QED BY <3>2, <4>1
    <3> HIDE DEF both
    <3>5. both = Block(j)
      BY <3>3, <3>4
    <3> QED BY <3>5 DEF both, b, k
  <2>10. AddsElements(Block(l)) /\ Block(c).op = Block(l).op /\ Block(c).obj = Block(l).obj /\ Block(c).name = Block(l).name
    BY DEF AddsElements, Joins, Block
  <2>11. PutBlock(PutBlock(out, Block(l)), Block(c)) = PutBlock(out, Block(j))
    BY <2>6, <2>9, <2>10, PutTwice
  <2>12. BlocksFrom(out, Sends(one \o two)) = BlocksFrom(out, Sends(<<j>>))
    BY <2>2, <2>3, <2>4, <2>5, <2>7, <2>11
  <2> QED BY <2>12 DEF one, two
<1> QED BY <1>5, <1>6, <1>7 DEF Same, j

\* What is collapsed: a list of traced commands, the leader adds elements, and
\* it comes to the same as the commands so far.
Good(acc, cs, m) ==
    /\ acc.out \in Seq(Collapsed(Nat)) /\ acc.lead \in {0, Len(acc.out)}
    /\ \A c \in Range(acc.out) : Traced(c)
    /\ acc.lead # 0 => AddsElements(acc.out[acc.lead])
    /\ Same(acc.out, SubSeq(cs, 1, m))

\* One command more.
LEMMA GoodStep ==
    ASSUME NEW cs \in Seq(Single(Nat)), NEW m \in 1..Len(cs),
           \A k \in DOMAIN cs[m].elems : cs[m].elems[k].cmd = 0,
           NEW acc, Good(acc, cs, m - 1),
           CollapseStep(acc, cs[m]).out \in Seq(Collapsed(Nat))
    PROVE  Good(CollapseStep(acc, cs[m]), cs, m)
<1> DEFINE c == cs[m]
           o == acc.out
           n == Len(o)
           one == <<c>>
           before == SubSeq(cs, 1, m - 1)
           so == SubSeq(cs, 1, m)
           new == CollapseStep(acc, c)
<1>1. c \in Single(Nat) /\ c \in Collapsed(Nat) /\ Traced(c)
  BY OwnTraced, SinglesWider
<1>2. o \in Seq(Collapsed(Nat)) /\ n \in Nat /\ DOMAIN o = 1..n /\ acc.lead \in {0, n} /\ Same(o, before)
      /\ \A x \in Range(o) : Traced(x)
  BY DEF Good
<1>3. one \in Seq(Collapsed(Nat)) /\ IsSeq(one) /\ Range(one) = {c} /\ Append(o, c) = o \o one /\ Len(one) = 1
  <2>1. one \in Seq(Collapsed(Nat)) /\ Len(one) = 1
    BY <1>1
  <2>2. IsSeq(one) /\ Range(one) = {c}
    BY OneSeq
  <2>3. Append(o, c) = o \o one
    <3> HIDE DEF o
    <3>1. o \in Seq(Collapsed(Nat)) /\ c \in Collapsed(Nat)
      BY <1>1, <1>2
    <3> HIDE DEF c
    <3> QED BY <3>1
  <2> QED BY <2>1, <2>2, <2>3
<1>4. so = before \o one /\ before \in Seq(Collapsed(Nat))
  <2>1. Len(cs) \in Nat /\ m - 1 \in 0..Len(cs) /\ (m - 1) + 1 = m /\ \A i \in 1..Len(cs) : cs[i] \in Single(Nat)
    OBVIOUS
  <2>2. so = before \o one
    BY <2>1, SubSeqRecursiveSecond
  <2>3. before \in Seq(Single(Nat))
    <3>1. \A i \in 1..(m - 1) : cs[i] \in Single(Nat)
      BY <2>1
    <3> QED BY <2>1, <3>1, SubSeqProperties
  <2> QED BY <2>2, <2>3, SinglesWider
<1>5. Same(one, one)
  BY DEF Same
<1> HIDE DEF one, before, so
<1>6. Same(o \o one, so)
  BY <1>2, <1>3, <1>4, <1>5, SameJoin
<1>7. o \o one \in Seq(Collapsed(Nat)) /\ Len(o \o one) = n + 1 /\ Range(o \o one) = Range(o) \cup {c}
      /\ (o \o one)[n + 1] = c
  <2>1. Range(o \o one) = Range(o) \cup {c} /\ Len(o \o one) = n + 1
    BY <1>2, <1>3, AnySeq, JoinedSeq
  <2>2. Append(o, c)[n + 1] = c /\ Append(o, c) \in Seq(Collapsed(Nat))
    BY <1>1, <1>2
  <2> QED BY <1>3, <2>1, <2>2
<1>8. CASE ~AddsElements(c)
  <2>1. new = [out |-> o \o one, lead |-> 0]
    BY <1>3, <1>8 DEF CollapseStep
  <2>2. new.out = o \o one /\ new.lead = 0
    BY <2>1
  <2> HIDE DEF new, c, o
  <2>3. Good(new, cs, m)
    BY <1>1, <1>2, <1>6, <1>7, <2>2 DEF Good, so
  <2> QED BY <2>3 DEF new, c
<1>9. CASE AddsElements(c) /\ ~(acc.lead # 0 /\ Joins(c, o[acc.lead]))
  <2>1. new = [out |-> o \o one, lead |-> n + 1]
    BY <1>3, <1>9 DEF CollapseStep
  <2>2. new.out = o \o one /\ new.lead = n + 1
    BY <2>1
  <2> HIDE DEF new, c, o
  <2>3. Good(new, cs, m)
    BY <1>1, <1>2, <1>6, <1>7, <1>9, <2>2 DEF Good, so
  <2> QED BY <2>3 DEF new, c
<1>10. CASE AddsElements(c) /\ acc.lead # 0 /\ Joins(c, o[acc.lead])
  <2> DEFINE l == o[n]
             j == Joined(l, c)
             front == SubSeq(o, 1, n - 1)
             first == <<l>>
             both == <<j>>
             r == [o EXCEPT ![n] = j]
  <2>1. acc.lead = n /\ n \in 1..n /\ l \in Collapsed(Nat) /\ l \in Range(o) /\ AddsElements(l) /\ Joins(c, l)
    BY <1>2, <1>10 DEF Good, Range
  <2>2. new.out = r /\ new.lead = n
    BY <1>10, <2>1 DEF CollapseStep
  <2>3. r \in Seq(Collapsed(Nat))
    BY <2>2
  <2> HIDE DEF j
  <2>4. Len(r) = n /\ DOMAIN r = 1..n /\ r[n] = j /\ \A i \in 1..n : i # n => r[i] = o[i]
    BY <1>2, <2>1
  <2>5. j \in Collapsed(Nat)
    <3> HIDE DEF r
    <3> QED BY <2>1, <2>3, <2>4
  <2>6. Traced(j) /\ AddsElements(j) /\ Same(first \o one, both)
    BY <1>1, <1>2, <1>10, <2>1, <2>5, JoinedSame DEF j, one
  <2>7. first \in Seq(Collapsed(Nat)) /\ both \in Seq(Collapsed(Nat)) /\ Len(both) = 1 /\ both[1] = j
    BY <2>1, <2>5
  <2>8. o = front \o first /\ front \in Seq(Collapsed(Nat)) /\ Len(front) = n - 1 /\ \A i \in 1..(n - 1) : front[i] = o[i]
    <3> HIDE DEF o
    <3>1. n - 1 \in 0..n /\ (n - 1) + 1 = n /\ \A i \in 1..n : o[i] \in Collapsed(Nat)
      BY <1>2, <2>1
    <3>2. SubSeq(o, 1, n) = front \o first
      <4>1. o \in Seq(Collapsed(Nat)) /\ 1 \in 1..Len(o) /\ n \in 1..Len(o)
        BY <1>2, <2>1
      <4> HIDE DEF n
      <4> QED BY <4>1, SubSeqRecursiveSecond
    <3>4. SubSeq(o, 1, n) = o
      BY <1>2, SubSeqFull
    <3>3. front \in Seq(Collapsed(Nat)) /\ Len(front) = n - 1 /\ \A i \in 1..(n - 1) : front[i] = o[i]
      <4>1. \A i \in 1..(n - 1) : o[i] \in Collapsed(Nat)
        BY <3>1
      <4> QED BY <1>2, <3>1, <4>1, SubSeqProperties
    <3> QED BY <3>2, <3>3, <3>4
  <2> HIDE DEF front, first, both, l, r
  <2>9. r = front \o both
    <3>1. /\ front \o both \in Seq(Collapsed(Nat)) /\ Len(front \o both) = n
          /\ \A i \in 1..n : (front \o both)[i] = IF i <= n - 1 THEN front[i] ELSE both[i - (n - 1)]
      <4>1. /\ front \o both \in Seq(Collapsed(Nat)) /\ Len(front \o both) = (n - 1) + 1
            /\ \A i \in 1..((n - 1) + 1) : (front \o both)[i] = IF i <= n - 1 THEN front[i] ELSE both[i - (n - 1)]
        BY <2>7, <2>8, ConcatProperties
      <4>2. (n - 1) + 1 = n
        BY <1>2
      <4> HIDE DEF n
      <4> QED BY <4>1, <4>2
    <3>2. ASSUME NEW i \in 1..n PROVE r[i] = (front \o both)[i]
      <4>1. CASE i = n
        <5>1. ~(n <= n - 1) /\ n - (n - 1) = 1
          BY <1>2
        <5> QED BY <2>4, <2>7, <3>1, <4>1, <5>1
      <4>2. CASE i # n
        <5>1. i <= n - 1 /\ i \in 1..(n - 1)
          BY <1>2, <4>2
        <5> QED BY <2>4, <2>8, <3>1, <4>2, <5>1
      <4> QED BY <4>1, <4>2
    <3> QED BY <2>3, <2>4, <3>1, <3>2, SeqEqual
  <2>10. Same(front \o (first \o one), front \o both)
    <3>1. Same(front, front)
      BY DEF Same
    <3>2. first \o one \in Seq(Collapsed(Nat))
      BY <1>3, <2>7, ConcatProperties
    <3> QED BY <2>6, <2>7, <2>8, <3>1, <3>2, SameJoin
  <2>11. front \o (first \o one) = o \o one
    BY <1>3, <2>7, <2>8, ConcatAssociative
  <2>12. Same(r, so)
    BY <1>6, <2>9, <2>10, <2>11 DEF Same
  <2>13. \A x \in Range(r) : Traced(x)
    <3>1. \A x \in Range(r) : x = j \/ x \in Range(o)
      BY <1>2, <2>4 DEF Range
    <3> QED BY <1>2, <2>6, <3>1
  <2> HIDE DEF new, c, o
  <2>14. Good(new, cs, m)
    BY <2>2, <2>3, <2>4, <2>6, <2>12, <2>13 DEF Good, so
  <2> QED BY <2>14 DEF new, c
<1> QED BY <1>8, <1>9, <1>10

\* What was collapsed comes to what was given, and is traced.
LEMMA CollapseSame ==
    ASSUME NEW cs \in Seq(Single(Nat)),
           \A n \in DOMAIN cs : \A k \in DOMAIN cs[n].elems : cs[n].elems[k].cmd = 0
    PROVE  Same(Collapse(cs), cs) /\ \A c \in Range(Collapse(cs)) : Traced(c)
<1> DEFINE n == Len(cs)
<1>1. n \in Nat /\ DOMAIN cs = 1..n
  OBVIOUS
<1>2. PICK taken : Takes(taken, cs, Nat)
  BY CollapseSteps
<1>3. \A m \in 0..n : taken[m].out \in Seq(Collapsed(Nat))
  BY <1>2 DEF Takes, Taken
<1> DEFINE T == {m \in 0..n : Good(taken[m], cs, m)}
<1>4. 0 \in T
  <2>1. taken[0].out = <<>> /\ taken[0].lead = 0
    BY <1>2 DEF Takes
  <2>2. SubSeq(cs, 1, 0) = <<>> /\ <<>> \in Seq(Collapsed(Nat)) /\ Range(<<>>) = {} /\ Len(<<>>) = 0
    BY SubSeqEmpty DEF Range
  <2>3. Same(<<>>, <<>>)
    BY DEF Same
  <2>4. Good(taken[0], cs, 0)
    BY <2>1, <2>2, <2>3 DEF Good
  <2>5. 0 \in 0..n
    BY <1>1
  <2> QED BY <2>4, <2>5
<1>5. ASSUME NEW m \in 0..(n - 1), m \in T PROVE m + 1 \in T
  <2>1. m + 1 \in 1..n /\ m + 1 \in 0..n /\ (m + 1) - 1 = m
    BY <1>1
  <2>2. taken[m + 1] = CollapseStep(taken[m], cs[m + 1])
    BY <1>2, <2>1 DEF Takes
  <2>3. Good(taken[m], cs, m)
    BY <1>5
  <2>4. CollapseStep(taken[m], cs[m + 1]).out \in Seq(Collapsed(Nat))
    BY <1>3, <2>1, <2>2
  <2>5. \A k \in DOMAIN cs[m + 1].elems : cs[m + 1].elems[k].cmd = 0
    BY <1>1, <2>1
  <2>6. Good(CollapseStep(taken[m], cs[m + 1]), cs, m + 1)
    BY <2>1, <2>3, <2>4, <2>5, GoodStep
  <2> QED BY <2>1, <2>2, <2>6
<1>6. Good(taken[n], cs, n)
  <2>1. 0..n \subseteq T
    <3> HIDE DEF T
    <3> QED BY <1>1, <1>4, <1>5, Upto
  <2> QED BY <1>1, <2>1
<1>7. SubSeq(cs, 1, n) = cs /\ Collapse(cs) = taken[n].out
  BY <1>2, SubSeqFull DEF Takes
<1> QED BY <1>6, <1>7 DEF Good

\* Evaluation loses no key, and makes no element another command's.
LEMMA EvaluatedKeys ==
    ASSUME NEW elems \in Seq(Elements), NEW e \in Evaluated(elems)
    PROVE  /\ KeysOf(e) = KeysOf(elems)
           /\ \A k \in DOMAIN e : e[k].cmd = 0 \/ \E i \in DOMAIN elems : e[k].cmd = elems[i].cmd
<1> DEFINE n == Len(elems)
<1>1. n \in Nat /\ DOMAIN elems = 1..n /\ \A k \in 1..n : elems[k] \in Elements
  OBVIOUS
<1>2. ASSUME NEW m \in DOMAIN elems, e = [elems EXCEPT ![m].cmd = 0]
      PROVE  /\ KeysOf(e) = KeysOf(elems)
             /\ \A k \in DOMAIN e : e[k].cmd = 0 \/ \E i \in DOMAIN elems : e[k].cmd = elems[i].cmd
  <2>1. DOMAIN e = DOMAIN elems /\ \A k \in DOMAIN elems : e[k] = IF k = m THEN [elems[k] EXCEPT !.cmd = 0] ELSE elems[k]
    BY <1>2
  <2>2. \A x \in Elements : [x EXCEPT !.cmd = 0].keys = x.keys /\ [x EXCEPT !.cmd = 0].cmd = 0
    BY DEF Elements
  <2>3. \A k \in DOMAIN elems : e[k].keys = elems[k].keys /\ (e[k].cmd = 0 \/ e[k].cmd = elems[k].cmd)
    BY <1>1, <2>1, <2>2
  <2>4. {e[k].keys : k \in DOMAIN e} = {elems[k].keys : k \in DOMAIN elems}
    BY <2>1, <2>3
  <2>5. KeysOf(e) = KeysOf(elems)
    BY <2>4 DEF KeysOf
  <2> QED BY <2>1, <2>3, <2>5
<1>3. ASSUME NEW m \in 1..(n - 1),
             e = [k \in 1..(n - 1) |->
                    IF k < m THEN elems[k]
                    ELSE IF k = m THEN [elems[m] EXCEPT !.keys = @ \cup elems[m + 1].keys]
                    ELSE elems[k + 1]]
      PROVE  /\ KeysOf(e) = KeysOf(elems)
             /\ \A k \in DOMAIN e : e[k].cmd = 0 \/ \E i \in DOMAIN elems : e[k].cmd = elems[i].cmd
  <2> DEFINE both == [elems[m] EXCEPT !.keys = @ \cup elems[m + 1].keys]
  <2>1. m \in 1..n /\ m + 1 \in 1..n
    BY <1>1
  <2>2. both.keys = elems[m].keys \cup elems[m + 1].keys /\ both.cmd = elems[m].cmd
    <3>1. \A x \in Elements : \A more : [x EXCEPT !.keys = @ \cup more].keys = x.keys \cup more /\ [x EXCEPT !.keys = @ \cup more].cmd = x.cmd
      BY DEF Elements
    <3> QED BY <1>1, <2>1, <3>1
  <2>3. DOMAIN e = 1..(n - 1) /\ \A k \in 1..(n - 1) : e[k] = IF k < m THEN elems[k] ELSE IF k = m THEN both ELSE elems[k + 1]
    BY <1>3
  <2> HIDE DEF both
  <2>4. \A k \in 1..(n - 1) : k \in 1..n /\ k + 1 \in 1..n
    BY <1>1
  <2>5. \A k \in DOMAIN e : e[k].cmd = 0 \/ \E i \in DOMAIN elems : e[k].cmd = elems[i].cmd
    BY <1>1, <2>1, <2>2, <2>3, <2>4
  <2>6. ASSUME NEW x \in KeysOf(e) PROVE x \in KeysOf(elems)
    <3>1. PICK k \in 1..(n - 1) : x \in e[k].keys
      BY <2>3 DEF KeysOf
    <3>2. \E i \in DOMAIN elems : x \in elems[i].keys
      BY <1>1, <2>1, <2>2, <2>3, <2>4, <3>1
    <3> QED BY <3>2 DEF KeysOf
  <2>7. ASSUME NEW x \in KeysOf(elems) PROVE x \in KeysOf(e)
    <3>1. PICK i \in 1..n : x \in elems[i].keys
      BY <1>1 DEF KeysOf
    <3>2. CASE i < m
      <4>1. i \in 1..(n - 1) /\ e[i] = elems[i]
        BY <1>1, <2>3, <3>2
      <4> QED BY <2>3, <3>1, <4>1 DEF KeysOf
    <3>3. CASE i = m \/ i = m + 1
      <4>1. x \in e[m].keys
        BY <2>2, <2>3, <3>1, <3>3
      <4> QED BY <2>3, <4>1 DEF KeysOf
    <3>4. CASE i > m + 1
      <4>1. i - 1 \in 1..(n - 1) /\ ~(i - 1 < m) /\ i - 1 # m /\ (i - 1) + 1 = i
        BY <1>1, <3>4
      <4>2. x \in e[i - 1].keys
        BY <2>3, <3>1, <4>1
      <4> QED BY <2>3, <4>1, <4>2 DEF KeysOf
    <3> QED BY <1>1, <3>2, <3>3, <3>4
  <2> QED BY <2>5, <2>6, <2>7
<1>4. CASE e = elems
  BY <1>4
<1> QED BY <1>2, <1>3, <1>4 DEF Evaluated

\* A command with its elements evaluated comes to what it did, also behind a
\* command that nft has put before it.
LEMMA EvaluatedSame ==
    ASSUME NEW c \in Collapsed(Nat), Traced(c), AddsElements(c), NEW e \in Evaluated(c.elems)
    PROVE  /\ Traced([c EXCEPT !.elems = e]) /\ Same(<<[c EXCEPT !.elems = e]>>, <<c>>)
           /\ Traced(Purge(c)) /\ Same(<<Purge(c), [c EXCEPT !.elems = e]>>, <<c>>)
<1> DEFINE d == [c EXCEPT !.elems = e]
           p == Purge(c)
           one == <<c>>
           new == <<d>>
           own == <<p>>
<1>1. c.elems \in Seq(Elements) /\ e \in Seq(Elements) /\ c.name \in Name
  BY EvaluatedType DEF Collapsed, Records
<1>2. d \in Collapsed(Nat) /\ d.op = c.op /\ d.obj = c.obj /\ d.name = c.name /\ d.merged = c.merged /\ d.elems = e
  BY <1>1 DEF Collapsed, Records
<1>3. p \in Collapsed(Nat) /\ p.merged = <<>> /\ p.op = "delete" /\ p.obj = "elements" /\ p.id = 0
  BY <1>1, PurgeType DEF Purge, Cmd
<1> HIDE DEF d, p
<1>4. Traced(p)
  BY <1>3 DEF Traced, AddsElements
<1>5. AddsElements(d) /\ Traced(d)
  <2>1. AddsElements(d)
    BY <1>2 DEF AddsElements
  <2>2. \A k \in DOMAIN e : e[k].cmd = 0 \/ \E i \in DOMAIN c.elems : e[k].cmd = c.elems[i].cmd
    BY <1>1, EvaluatedKeys
  <2>3. /\ \A k \in DOMAIN c.elems : c.elems[k].cmd = 0 \/ \E j \in DOMAIN c.merged : c.elems[k].cmd = c.merged[j].id
        /\ \A j \in DOMAIN c.merged : c.merged[j].op = c.op /\ c.merged[j].obj = c.obj /\ c.merged[j].name = c.name
    BY DEF Traced
  <2>4. \A k \in DOMAIN e : e[k].cmd = 0 \/ \E j \in DOMAIN c.merged : e[k].cmd = c.merged[j].id
    BY <2>2, <2>3
  <2> QED BY <1>2, <2>1, <2>3, <2>4 DEF Traced
<1>6. Block(d) = Block(c)
  <2>1. KeysOf(d.elems) = KeysOf(c.elems)
    BY <1>1, <1>2, EvaluatedKeys
  <2> QED BY <1>2, <2>1 DEF Block
<1>7. new \in Seq(Collapsed(Nat)) /\ own \in Seq(Collapsed(Nat)) /\ one \in Seq(Collapsed(Nat))
  BY <1>2, <1>3
<1>8. Same(new, one)
  <2>1. ASSUME NEW out \in Seq(BlockRecord) PROVE BlocksFrom(out, Sends(new)) = BlocksFrom(out, Sends(one))
    <3>1. BlocksFrom(out, Sends(<<d>>)) = PutBlock(out, Block(d))
      BY <1>2, <1>5, SendsBlock
    <3>2. BlocksFrom(out, Sends(<<c>>)) = PutBlock(out, Block(c))
      BY SendsBlock
    <3> QED BY <1>6, <3>1, <3>2
  <2> HIDE DEF new, one
  <2> QED BY <2>1 DEF Same
<1>9. Same(own, <<>>)
  <2>1. ASSUME NEW out \in Seq(BlockRecord) PROVE BlocksFrom(out, Sends(own)) = BlocksFrom(out, Sends(<<>>))
    <3>1. Sends(<<p>>) = Expand(p)
      BY <1>3, SendsSingle
    <3>2. Expand(p) = <<p>>
      BY <1>3 DEF Expand
    <3>3. BlocksFrom(out, <<p>>) = WithCommand(out, p)
      BY <1>3, FromOne
    <3>4. WithCommand(out, p) = out
      BY <1>3 DEF WithCommand, Asked
    <3>5. BlocksFrom(out, Sends(<<>>)) = out
      BY SendsNone, FromNone
    <3> QED BY <3>1, <3>2, <3>3, <3>4, <3>5
  <2> HIDE DEF own
  <2> QED BY <2>1 DEF Same
<1>10. <<p, d>> = own \o new /\ <<>> \o one = one /\ <<>> \in Seq(Collapsed(Nat))
  <2>1. <<p, d>> = own \o new
    OBVIOUS
  <2> HIDE DEF one
  <2> QED BY <1>7, <2>1, ConcatEmptySeq, EmptySeq
<1> HIDE DEF own, new, one
<1>11. Same(<<p, d>>, one)
  <2>1. Same(own \o new, <<>> \o one)
    BY <1>7, <1>8, <1>9, <1>10, SameJoin
  <2> QED BY <1>10, <2>1
<1> QED BY <1>4, <1>5, <1>8, <1>11 DEF d, p, new, one

\* Single commands are expanded where they are.
LEMMA SendsRaw == ASSUME NEW s \in Seq(Single(Nat)) PROVE Sends(s) = ExpandAll(s)
<1>1. s \in Seq(Collapsed(Nat))
  BY SinglesWider
<1>2. \A n \in DOMAIN s : ApartMap[s[n]] = <<s[n]>>
  <2>1. \A c \in Single(Nat) : c \in Collapsed(Nat) /\ c.merged = <<>>
    BY SinglesWider DEF Single, Records
  <2>2. \A c \in Single(Nat) : Apart(c) = <<c>>
    BY <2>1 DEF Apart
  <2>3. \A n \in DOMAIN s : s[n] \in Single(Nat)
    OBVIOUS
  <2> QED BY <2>1, <2>2, <2>3, Passes
<1>3. FlatMap(ApartMap, s) = s
  <2> DEFINE A == Collapsed(Nat)
             B == Collapsed(Nat)
  <2>1. ApartMap \in [A -> Seq(B)] /\ A \subseteq B /\ s \in Seq(A)
    BY <1>1, Passes, SinglesWider
  <2> HIDE DEF A, B
  <2> QED BY <1>2, <2>1, FlatSame
<1>4. Uncollapse(s) = s
  BY <1>1, <1>3, Passes
<1> QED BY <1>4 DEF Sends

\* A message about elements has some, and is not a flush.
LEMMA ElementsSent ==
    ASSUME NEW I, NEW c \in Single(I), NEW k \in DOMAIN Messages(c), Messages(c)[k].obj = "elements"
    PROVE  Messages(c)[k].op # "flush" /\ Messages(c)[k].keys # {}
<1> DEFINE n == Len(c.elems)
           parts == (n + Room - 1) \div Room
           from == (k - 1) * Room + 1
           to == IF k * Room < n THEN k * Room ELSE n
           part == SubSeq(c.elems, from, to)
<1>1. c.elems \in Seq(Elements) /\ n \in Nat /\ Room \in Nat \ {0} /\ (c.obj = "elements" => c.op # "flush")
      /\ DOMAIN c.elems = 1..n /\ \A i \in 1..n : c.elems[i] \in Elements
  <2>1. c.elems \in Seq(Elements) /\ (c.obj = "elements" => c.op # "flush")
    BY DEF Single, Records
  <2> QED BY <2>1, RoomAssumption
<1>2. CASE c.obj # "elements" \/ ~IsMessage(c)
  <2>1. IsMessage(c) /\ Messages(c) = <<Message(c, Located(c))>>
    BY <1>2 DEF Messages
  <2> DEFINE m == Message(c, Located(c))
  <2>2. m.obj = c.obj
    BY DEF Message
  <2> HIDE DEF m
  <2>3. Messages(c)[k] = m
    BY <2>1 DEF m
  <2> QED BY <1>2, <2>1, <2>2, <2>3
<1>3. CASE c.obj = "elements" /\ IsMessage(c)
  <2>1. Messages(c) = ElemMessages(c)
    BY <1>3 DEF Messages
  <2>2. DOMAIN Messages(c) = 1..parts
    BY <2>1 DEF ElemMessages, Chunks
  <2>3. Chunks(c.elems)[k] = part
    BY <2>2 DEF Chunks
  <2> HIDE DEF part
  <2>4. Messages(c)[k].op = c.op /\ Messages(c)[k].keys = KeysOf(part)
    <3> DEFINE attrs == [i \in DOMAIN part |-> part[i].keys]
               m == Message(c, attrs)
    <3>1. ElemMessages(c)[k] = [m EXCEPT !.keys = KeysOf(part)]
      BY <2>1, <2>2, <2>3 DEF ElemMessages
    <3>2. m.op = c.op /\ DOMAIN m = {"cmd", "op", "obj", "name", "flags", "attrs", "keys", "needs"}
      <4> HIDE DEF attrs
      <4> QED BY DEF Message
    <3> HIDE DEF m
    <3> QED BY <2>1, <3>1, <3>2
  <2>5. from \in 1..n /\ from <= to /\ to \in 1..n
    <3>1. n + Room - 1 \in Nat /\ k \in Nat /\ k >= 1 /\ k <= parts /\ parts \in Nat
      BY <1>1, <2>2
    <3>2. parts * Room <= n + Room - 1
      <4>1. \A x \in Nat, r \in Nat \ {0} : (x \div r) * r <= x
        OBVIOUS
      <4> QED BY <1>1, <3>1, <4>1
    <3> HIDE DEF parts
    <3>3. k * Room <= parts * Room
      BY <1>1, <3>1
    <3> DEFINE kr == k * Room
               pr == parts * Room
    <3>4. (k - 1) * Room = kr - Room /\ kr \in Nat /\ pr \in Nat /\ kr >= Room
      BY <1>1, <3>1
    <3> HIDE DEF kr, pr
    <3>5. kr <= n + Room - 1
      BY <1>1, <3>2, <3>3, <3>4 DEF kr, pr
    <3> QED BY <1>1, <3>4, <3>5 DEF kr
  <2> HIDE DEF from, to
  <2>6. part \in Seq(Elements) /\ Len(part) >= 1 /\ part[1] = c.elems[from]
    <3>1. \A i \in from..to : c.elems[i] \in Elements
      BY <1>1, <2>5
    <3> QED BY <1>1, <2>5, <3>1 DEF part
  <2>7. part[1].keys # {} /\ 1 \in DOMAIN part
    <3>1. c.elems[from].keys # {}
      BY <1>1, <2>5 DEF Elements
    <3>2. 1 \in DOMAIN part
      BY <2>6
    <3> QED BY <2>6, <3>1, <3>2
  <2>8. KeysOf(part) # {}
    BY <2>7 DEF KeysOf
  <2> QED BY <1>1, <1>3, <2>4, <2>8
<1> QED BY <1>2, <1>3

\* Commands are exchanged for some that come to the same.
LEMMA SameWithin ==
    ASSUME NEW a \in Seq(Collapsed(Nat)), NEW x \in Seq(Collapsed(Nat)),
           NEW y \in Seq(Collapsed(Nat)), NEW d \in Seq(Collapsed(Nat)), Same(x, y)
    PROVE  Same(a \o x \o d, a \o y \o d)
<1>1. Same(a, a) /\ Same(d, d)
  BY DEF Same
<1>2. a \o x \in Seq(Collapsed(Nat)) /\ a \o y \in Seq(Collapsed(Nat))
  BY ConcatProperties
<1>3. Same(a \o x, a \o y)
  BY <1>1, SameJoin
<1> QED BY <1>1, <1>2, <1>3, SameJoin

\* What evaluation does to the list: one command is replaced, or two put in
\* its place.
IsEvaluated(new, cs, m, u) == new = SubSeq(cs, 1, m) \o u \o SubSeq(cs, m + 2, Len(cs))

Evaluates(new, cs, m, d, p) ==
    \/ new = [cs EXCEPT ![m + 1] = d]
    \/ new = SubSeq(cs, 1, m) \o <<p, d>> \o SubSeq(cs, m + 2, Len(cs))

\* The command is replaced, and what is before and after it is left alone.
Splits(S, new, cs, m, d, p) ==
    /\ SubSeq(cs, 1, m) \in Seq(S) /\ SubSeq(cs, m + 2, Len(cs)) \in Seq(S)
    /\ IsEvaluated(cs, cs, m, <<cs[m + 1]>>) /\ cs[m + 1] \in S
    /\ \E u \in {<<d>>, <<p, d>>} : u \in Seq(S) /\ IsEvaluated(new, cs, m, u)

\* It replaces nothing else.
LEMMA EvaluatedSplit ==
    ASSUME NEW S, NEW cs \in Seq(S), NEW m \in 0..(Len(cs) - 1), NEW d \in S, NEW p \in S, NEW new,
           Evaluates(new, cs, m, d, p)
    PROVE  Splits(S, new, cs, m, d, p)
<1> DEFINE n == m + 1
           len == Len(cs)
           one == <<d>>
           two == <<p, d>>
<1>1. len \in Nat /\ n \in 1..len /\ n - 1 = m /\ n + 1 = m + 2 /\ cs[n] \in S
  OBVIOUS
<1>2. IsEvaluated(cs, cs, m, <<cs[n]>>)
  <2>1. cs = SubSeq(cs, 1, n - 1) \o <<cs[n]>> \o SubSeq(cs, n + 1, len)
    <3> HIDE DEF n
    <3> QED BY <1>1, Around
  <2> HIDE DEF n
  <2> QED BY <1>1, <2>1 DEF IsEvaluated
<1>3. SubSeq(cs, 1, m) \in Seq(S) /\ SubSeq(cs, m + 2, len) \in Seq(S)
  <2>1. (\A i \in 1..m : cs[i] \in S) /\ (\A i \in (m + 2)..len : cs[i] \in S)
    OBVIOUS
  <2>2. m \in Int /\ len \in Int /\ m + 2 \in Int
    BY <1>1
  <2> HIDE DEF len
  <2> QED BY <2>1, <2>2, SubSeqProperties
<1>4. one \in Seq(S) /\ two \in Seq(S)
  OBVIOUS
<1>5. \E u \in {one, two} : IsEvaluated(new, cs, m, u)
  <2>1. CASE new = [cs EXCEPT ![m + 1] = d]
    <3>1. new \in Seq(S) /\ Len(new) = len /\ new[n] = d /\ \A i \in 1..len : i # n => new[i] = cs[i]
      BY <1>1, <2>1
    <3> HIDE DEF n
    <3>2. new = SubSeq(cs, 1, n - 1) \o <<new[n]>> \o SubSeq(cs, n + 1, len)
      BY <1>1, <3>1, Around
    <3> QED BY <1>1, <3>1, <3>2 DEF IsEvaluated
  <2>2. CASE new = SubSeq(cs, 1, m) \o <<p, d>> \o SubSeq(cs, m + 2, Len(cs))
    BY <2>2 DEF IsEvaluated
  <2> QED BY <2>1, <2>2 DEF Evaluates
<1> HIDE DEF one, two
<1>6. \E u \in {one, two} : u \in Seq(S) /\ IsEvaluated(new, cs, m, u)
  BY <1>4, <1>5
<1> QED BY <1>1, <1>2, <1>3, <1>6 DEF one, two, Splits

\* One command of a list evaluated.
LEMMA EvaluatedList ==
    ASSUME NEW cs \in Seq(Collapsed(Nat)), \A x \in Range(cs) : Traced(x),
           NEW m \in 0..(Len(cs) - 1), AddsElements(cs[m + 1]), NEW e \in Evaluated(cs[m + 1].elems),
           NEW d, d = [cs[m + 1] EXCEPT !.elems = e], NEW new, Evaluates(new, cs, m, d, Purge(cs[m + 1]))
    PROVE  Same(new, cs) /\ \A x \in Range(new) : Traced(x)
<1> DEFINE c == cs[m + 1]
           p == Purge(c)
           one == <<c>>
           ones == <<d>>
           twos == <<p, d>>
           front == SubSeq(cs, 1, m)
           back == SubSeq(cs, m + 2, Len(cs))
           S == {x \in Collapsed(Nat) : Traced(x)}
<1>1. c \in Collapsed(Nat) /\ c \in Range(cs)
  BY DEF Range
<1>2. Traced(c) /\ Traced(d) /\ Same(ones, one) /\ Traced(p) /\ Same(twos, one)
  BY <1>1, EvaluatedSame
<1>3. c.elems \in Seq(Elements) /\ e \in Seq(Elements) /\ c.name \in Name
  BY <1>1, EvaluatedType DEF Collapsed, Records
<1>4. d \in S /\ p \in S /\ c \in S
  BY <1>1, <1>2, <1>3, PurgeType DEF Collapsed, Records
<1>5. cs \in Seq(S) /\ S \subseteq Collapsed(Nat)
  BY DEF Range
<1>6. Evaluates(new, cs, m, d, p) /\ m \in 0..(Len(cs) - 1)
  OBVIOUS
<1> HIDE DEF p, S
<1>7. /\ front \in Seq(S) /\ back \in Seq(S) /\ IsEvaluated(cs, cs, m, one)
      /\ \E u \in {ones, twos} : u \in Seq(S) /\ IsEvaluated(new, cs, m, u)
  <2> HIDE DEF c
  <2>1. Splits(S, new, cs, m, d, p)
    BY <1>4, <1>5, <1>6, EvaluatedSplit
  <2>2. cs[m + 1] = c
    BY DEF c
  <2> QED BY <2>1, <2>2 DEF Splits
<1>8. one \in Seq(S)
  BY <1>4
<1> HIDE DEF one, ones, twos, c
<1>9. PICK u \in {ones, twos} : u \in Seq(S) /\ IsEvaluated(new, cs, m, u)
  BY <1>7
<1>10. Same(u, one)
  BY <1>2, <1>9
<1>11. cs = front \o one \o back /\ new = front \o u \o back
  BY <1>7, <1>9 DEF IsEvaluated
<1> HIDE DEF front, back
<1>12. Same(new, cs)
  BY <1>5, <1>7, <1>8, <1>9, <1>10, <1>11, SameWithin, Wider
<1>13. front \o u \in Seq(S) /\ front \o u \o back \in Seq(S)
  BY <1>7, <1>9, ConcatProperties
<1>14. \A x \in Range(new) : x \in S
  <2>1. new \in Seq(S)
    BY <1>11, <1>13
  <2> QED BY <2>1 DEF Range
<1> QED BY <1>12, <1>14 DEF S

\* On its way into the batch, the list comes to what was given.
Kept ==
    /\ \A n \in DOMAIN input : \A k \in DOMAIN input[n].elems : input[n].elems[k].cmd = 0
    /\ pc \in Loading \cup {"collapse"} => cmds = input
    /\ pc \in {"eval", "uncollapse"} => Same(cmds, input) /\ \A c \in Range(cmds) : Traced(c)
    /\ pc \in {"send"} \cup After => Blocks(cmds) = Blocks(ExpandAll(input))

\* What is sent was given.
THEOREM SentIsGiven == Spec => []SentAsGiven
<1>1. Init => Kept
  <2>1. Init => DOMAIN input = {} /\ pc = "idle"
    BY DEF Init
  <2> QED BY <2>1 DEF Kept, Loading, After
<1>2. Lists /\ Lists' /\ Kept /\ [Next]_vars => Kept'
  <2> SUFFICES ASSUME Lists, Lists', Kept, [Next]_vars PROVE Kept'
    OBVIOUS
  <2> DEFINE Ids == 0..Len(input)
             Own0(i) == \A n \in DOMAIN i : \A k \in DOMAIN i[n].elems : i[n].elems[k].cmd = 0
  <2>t. input \in Seq(Single(Nat)) /\ Ids \subseteq Nat /\ Own0(input)
    BY DEF Lists, Kept
  <2>w. Seq(Collapsed(Ids)) \subseteq Seq(Collapsed(Nat)) /\ Seq(Single(Ids)) \subseteq Seq(Single(Nat))
    <3> HIDE DEF Ids
    <3> QED BY <2>t, IdsWider
  <2> USE DEF After, Loading
  <2>1. CASE Begin
    <3>1. PICK i \in Inputs : input' = [n \in DOMAIN i |-> [i[n] EXCEPT !.id = n]] /\ cmds' = input'
      BY <2>1 DEF Begin
    <3>2. i \in Seq(Single({0})) /\ Own0(i)
      BY InputAssumption
    <3>3. \A n \in DOMAIN i : [i[n] EXCEPT !.id = n].elems = i[n].elems
      <4>1. \A n \in DOMAIN i : i[n] \in Single({0})
        BY <3>2
      <4>2. \A c \in Single({0}) : \A n : [c EXCEPT !.id = n].elems = c.elems
        BY DEF Single, Records
      <4> QED BY <4>1, <4>2
    <3>4. Own0(input')
      <4>1. DOMAIN input' = DOMAIN i /\ \A n \in DOMAIN i : input'[n] = [i[n] EXCEPT !.id = n]
        BY <3>1
      <4>2. \A n \in DOMAIN i : input'[n].elems = i[n].elems
        BY <3>3, <4>1
      <4>3. Own0(i)
        BY <3>2
      <4> QED BY <4>1, <4>2, <4>3
    <3>5. pc' = "genid"
      BY <2>1 DEF Begin
    <3>6. cmds' = input'
      BY <3>1
    <3> QED BY <3>4, <3>5, <3>6 DEF Kept
  <2>2. CASE Genid \/ Dump \/ GenidStop
    <3>1. UNCHANGED <<input, cmds>> /\ pc \in Loading /\ pc' \in Loading \cup {"collapse", "finish"}
      BY <2>2 DEF Genid, Dump, GenidStop, GenidGet, Fail, given, list
    <3> QED BY <3>1 DEF Kept
  <2>3. CASE CollapseAll
    <3>1. pc = "collapse" /\ cmds' = Collapse(cmds) /\ pc' = "eval" /\ UNCHANGED input
      BY <2>3 DEF CollapseAll, given
    <3>2. cmds = input
      BY <3>1 DEF Kept
    <3>3. Same(Collapse(input), input) /\ \A c \in Range(Collapse(input)) : Traced(c)
      BY <2>t, CollapseSame
    <3> QED BY <2>t, <3>1, <3>2, <3>3 DEF Kept
  <2>4. CASE Evaluate
    <3> DEFINE c == cmds[at + 1]
    <3>1. pc = "eval" /\ pc' = "eval" /\ UNCHANGED input /\ at < Len(cmds)
      BY <2>4 DEF Evaluate, given
    <3>2. cmds \in Seq(Collapsed(Nat)) /\ cmds' \in Seq(Collapsed(Nat)) /\ at \in 0..Len(cmds)
      <4>1. cmds \in Seq(Collapsed(Ids)) /\ at \in 0..Len(cmds)
        BY <3>1 DEF Lists
      <4>2. cmds' \in Seq(Collapsed(Ids))
        BY <3>1 DEF Lists
      <4> QED BY <2>w, <4>1, <4>2
    <3>3. at \in 0..(Len(cmds) - 1)
      BY <3>1, <3>2
    <3>4. Same(cmds, input) /\ \A x \in Range(cmds) : Traced(x)
      BY <3>1 DEF Kept
    <3>5. CASE AddsElements(c)
      <4>1. PICK elems \in Evaluated(c.elems) :
               \/ cmds' = [cmds EXCEPT ![at + 1].elems = elems]
               \/ cmds' = SubSeq(cmds, 1, at) \o <<Purge(c), [c EXCEPT !.elems = elems]>>
                          \o SubSeq(cmds, at + 2, Len(cmds))
        BY <2>4, <3>5 DEF Evaluate
      <4>2. Same(cmds', cmds) /\ \A x \in Range(cmds') : Traced(x)
        <5>1. PICK d : d = [cmds[at + 1] EXCEPT !.elems = elems]
          OBVIOUS
        <5>2. Evaluates(cmds', cmds, at, d, Purge(cmds[at + 1]))
          BY <4>1, <5>1 DEF Evaluates
        <5> QED BY <3>2, <3>3, <3>4, <3>5, <4>1, <5>1, <5>2, EvaluatedList
      <4>3. Same(cmds', input)
        BY <3>4, <4>2 DEF Same
      <4> QED BY <2>t, <3>1, <4>2, <4>3 DEF Kept
    <3>6. CASE ~AddsElements(c)
      <4>1. cmds' = cmds
        BY <2>4, <3>6 DEF Evaluate
      <4> QED BY <2>t, <3>1, <3>4, <4>1 DEF Kept
    <3> QED BY <3>5, <3>6
  <2>5. CASE EvaluateFails
    <3>1. pc = "eval" /\ pc' \in {"eval", "uncollapse"} /\ UNCHANGED <<input, cmds>>
      BY <2>5 DEF EvaluateFails, given
    <3> QED BY <3>1 DEF Kept
  <2>6. CASE UncollapseAll
    <3>1. /\ pc \in {"eval", "uncollapse"} /\ UNCHANGED input
          /\ \/ pc' = "send" /\ cmds' = ExpandAll(Uncollapse(cmds))
             \/ pc' = "finish"
      BY <2>6 DEF UncollapseAll, given, Fail
    <3>2. CASE pc' = "send" /\ cmds' = ExpandAll(Uncollapse(cmds))
      <4>1. Same(cmds, input)
        BY <3>1 DEF Kept
      <4>2. Sends(cmds) = cmds' /\ Sends(input) = ExpandAll(input)
        BY <2>t, <3>2, SendsRaw DEF Sends
      <4>3. <<>> \in Seq(BlockRecord)
        BY EmptySeq
      <4>4. \A s : Blocks(s) = BlocksFrom(<<>>, s)
        BY DEF Blocks, BlocksFrom
      <4>5. BlocksFrom(<<>>, cmds') = BlocksFrom(<<>>, ExpandAll(input))
        BY <4>1, <4>2, <4>3 DEF Same
      <4>6. Blocks(cmds') = Blocks(ExpandAll(input))
        BY <4>4, <4>5
      <4> QED BY <2>t, <3>1, <3>2, <4>6 DEF Kept
    <3>3. CASE pc' = "finish"
      BY <2>t, <3>1, <3>3 DEF Kept
    <3> QED BY <3>1, <3>2, <3>3
  <2>7. CASE Send \/ KernelTakes \/ KernelRefuses \/ Receive \/ ReceiveFails \/ Signal \/ AllReceived \/ Attribute \/ AllAttributed
    <3>1. UNCHANGED <<input, cmds>> /\ pc \in {"send"} \cup After /\ pc' \in After \cup {"finish"}
      BY <2>7 DEF Send, KernelTakes, KernelRefuses, Receive, ReceiveFails, Signal, AllReceived, Attribute, AllAttributed, Fail, given, list
    <3> QED BY <3>1 DEF Kept
  <2>8. CASE SendFails \/ Finish
    <3>1. UNCHANGED <<input, cmds>> /\ pc' \in {"finish", "idle"}
      BY <2>8 DEF SendFails, Finish, Fail, given, list
    <3> QED BY <3>1 DEF Kept
  <2>9. CASE UNCHANGED vars
    <3>1. UNCHANGED <<pc, input, cmds>>
      BY <2>9 DEF vars, given, list
    <3> QED BY <3>1 DEF Kept
  <2> QED BY <2>1, <2>2, <2>3, <2>4, <2>5, <2>6, <2>7, <2>8, <2>9 DEF Next
<1>3. Lists /\ Kept => SentAsGiven
  <2> SUFFICES ASSUME Lists, Kept PROVE SentAsGiven
    OBVIOUS
  <2>1. ASSUME pc = "kernel", NEW n \in DOMAIN batch, batch[n].msg.obj = "elements"
        PROVE  batch[n].msg.op # "flush" /\ batch[n].msg.keys # {}
    <3>1. PICK s \in DOMAIN cmds : \E k \in DOMAIN Messages(cmds[s]) : batch[n] = [msg |-> Messages(cmds[s])[k], seq |-> s]
      BY <2>1 DEF Lists, After, IsMade
    <3>2. cmds[s] \in Single(0..Len(input))
      BY <2>1, <3>1 DEF Lists, After
    <3> QED BY <2>1, <3>1, <3>2, ElementsSent
  <2>2. pc \in {"send", "kernel", "receive", "attribute"} => Blocks(cmds) = Blocks(ExpandAll(input))
    BY DEF Kept, After
  <2> QED BY <2>1, <2>2 DEF SentAsGiven
<1>4. Spec => []Lists
  BY ListsAlways
<1> QED BY <1>1, <1>2, <1>3, <1>4, PTL DEF Spec

\* Items are in order: each needs no more than is known before the list, or
\* made by an item before it.  What an item x needs and makes is w[x].
Ordered(w, s, known) ==
    \A n \in DOMAIN s : w[s[n]].needs \subseteq known \cup UNION {w[s[k]].makes : k \in 1..(n - 1)}

AllMade(w, s) == UNION {w[s[k]].makes : k \in DOMAIN s}

\* That is, name by name.
LEMMA OrderedNames ==
    ASSUME NEW w, NEW u, NEW known
    PROVE  Ordered(w, u, known) <=>
             \A n \in DOMAIN u : \A x \in w[u[n]].needs : x \in known \/ \E k \in 1..(n - 1) : x \in w[u[k]].makes
BY DEF Ordered

\* In order after less is in order after more.
LEMMA OrderedMore ==
    ASSUME NEW w, NEW s, NEW known, Ordered(w, s, known), NEW more, known \subseteq more
    PROVE  Ordered(w, s, more)
BY DEF Ordered

\* A list after a list.
LEMMA OrderedJoin ==
    ASSUME NEW w, NEW S, NEW s \in Seq(S), NEW t \in Seq(S), NEW known,
           Ordered(w, s, known), Ordered(w, t, known \cup AllMade(w, s))
    PROVE  Ordered(w, s \o t, known)
<1> DEFINE a == Len(s)
           b == Len(t)
           u == s \o t
<1>1. a \in Nat /\ b \in Nat /\ DOMAIN s = 1..a /\ DOMAIN t = 1..b
  OBVIOUS
<1>2. Len(u) = a + b /\ DOMAIN u = 1..(a + b) /\ \A n \in 1..(a + b) : u[n] = IF n <= a THEN s[n] ELSE t[n - a]
  <2>1. u \in Seq(S) /\ Len(u) = Len(s) + Len(t) /\ \A n \in 1..(Len(s) + Len(t)) : u[n] = IF n <= Len(s) THEN s[n] ELSE t[n - Len(s)]
    BY ConcatProperties
  <2> QED BY <2>1
<1> HIDE DEF u, a, b
<1>0. ASSUME NEW n \in 1..(a + b), NEW x \in w[u[n]].needs
      PROVE  x \in known \/ \E k \in 1..(n - 1) : x \in w[u[k]].makes
  <2>1. CASE n <= a
    <3>1. n \in DOMAIN s /\ u[n] = s[n] /\ \A k \in 1..(n - 1) : u[k] = s[k]
      BY <1>1, <1>2, <2>1
    <3>2. w[s[n]].needs \subseteq known \cup UNION {w[s[k]].makes : k \in 1..(n - 1)}
      BY <3>1 DEF Ordered
    <3> QED BY <3>1, <3>2
  <2>2. CASE ~(n <= a)
    <3> DEFINE m == n - a
    <3>1. m \in DOMAIN t /\ u[n] = t[m] /\ \A k \in 1..a : u[k] = s[k] /\ k \in 1..(n - 1)
      BY <1>1, <1>2, <2>2
    <3>2. \A k \in 1..(m - 1) : a + k \in 1..(n - 1) /\ u[a + k] = t[k]
      BY <1>1, <1>2, <2>2
    <3> HIDE DEF m
    <3>3. w[t[m]].needs \subseteq (known \cup AllMade(w, s)) \cup UNION {w[t[k]].makes : k \in 1..(m - 1)}
      BY <3>1 DEF Ordered
    <3>4. CASE x \in known
      BY <3>4
    <3>5. CASE x \in AllMade(w, s)
      BY <1>1, <3>1, <3>5 DEF AllMade
    <3>6. CASE \E k \in 1..(m - 1) : x \in w[t[k]].makes
      BY <3>2, <3>6
    <3> QED BY <3>1, <3>3, <3>4, <3>5, <3>6
  <2> QED BY <2>1, <2>2
<1>5. Ordered(w, u, known)
  BY <1>0, <1>2, OrderedNames
<1> QED BY <1>5 DEF u

\* What lists make, one after the other.
LEMMA MadeJoin ==
    ASSUME NEW w, NEW S, NEW s \in Seq(S), NEW t \in Seq(S)
    PROVE  AllMade(w, s \o t) = AllMade(w, s) \cup AllMade(w, t)
<1>1. Range(s \o t) = Range(s) \cup Range(t)
  BY AnySeq, JoinedSeq
<1>2. \A u : AllMade(w, u) = UNION {w[x].makes : x \in Range(u)}
  BY DEF AllMade, Range
<1> QED BY <1>1, <1>2

\* The first part of a list in order is.
LEMMA OrderedFirst ==
    ASSUME NEW w, NEW S, NEW s \in Seq(S), NEW t \in Seq(S), NEW known, Ordered(w, s \o t, known)
    PROVE  Ordered(w, s, known) /\ Ordered(w, t, known \cup AllMade(w, s))
<1> DEFINE a == Len(s)
           b == Len(t)
           u == s \o t
<1>1. a \in Nat /\ b \in Nat /\ DOMAIN s = 1..a /\ DOMAIN t = 1..b
  OBVIOUS
<1>2. Len(u) = a + b /\ DOMAIN u = 1..(a + b) /\ \A n \in 1..(a + b) : u[n] = IF n <= a THEN s[n] ELSE t[n - a]
  <2>1. u \in Seq(S) /\ Len(u) = Len(s) + Len(t) /\ \A n \in 1..(Len(s) + Len(t)) : u[n] = IF n <= Len(s) THEN s[n] ELSE t[n - Len(s)]
    BY ConcatProperties
  <2> QED BY <2>1
<1>0. \A n \in DOMAIN u : \A x \in w[u[n]].needs : x \in known \/ \E k \in 1..(n - 1) : x \in w[u[k]].makes
  <2>1. Ordered(w, u, known)
    OBVIOUS
  <2> HIDE DEF u
  <2> QED BY <2>1, OrderedNames
<1> HIDE DEF u, a, b
<1>3. ASSUME NEW n \in 1..a, NEW x \in w[s[n]].needs
      PROVE  x \in known \/ \E k \in 1..(n - 1) : x \in w[s[k]].makes
  <2>1. n \in DOMAIN u /\ u[n] = s[n] /\ \A k \in 1..(n - 1) : u[k] = s[k]
    BY <1>1, <1>2
  <2>2. x \in known \/ \E k \in 1..(n - 1) : x \in w[u[k]].makes
    BY <1>0, <1>3, <2>1
  <2> QED BY <2>1, <2>2
<1>4. ASSUME NEW m \in 1..b, NEW x \in w[t[m]].needs
      PROVE  x \in known \/ x \in AllMade(w, s) \/ \E k \in 1..(m - 1) : x \in w[t[k]].makes
  <2> DEFINE i == a + m
  <2>1. i \in DOMAIN u /\ u[i] = t[m]
    BY <1>1, <1>2
  <2> HIDE DEF i
  <2>2. x \in known \/ \E k \in 1..(i - 1) : x \in w[u[k]].makes
    BY <1>0, <1>4, <2>1
  <2>3. ASSUME NEW k \in 1..(i - 1), x \in w[u[k]].makes
        PROVE  x \in AllMade(w, s) \/ \E j \in 1..(m - 1) : x \in w[t[j]].makes
    <3>1. CASE k <= a
      <4>1. k \in DOMAIN s /\ u[k] = s[k]
        BY <1>1, <1>2, <3>1 DEF i
      <4> QED BY <2>3, <4>1 DEF AllMade
    <3>2. CASE ~(k <= a)
      <4>1. k - a \in 1..(m - 1) /\ u[k] = t[k - a]
        BY <1>1, <1>2, <3>2 DEF i
      <4> QED BY <2>3, <4>1
    <3> QED BY <3>1, <3>2
  <2> QED BY <2>2, <2>3
<1>5. Ordered(w, s, known)
  BY <1>1, <1>3, OrderedNames
<1>6. Ordered(w, t, known \cup AllMade(w, s))
  <2>1. \A m \in DOMAIN t : \A x \in w[t[m]].needs :
          x \in known \cup AllMade(w, s) \/ \E k \in 1..(m - 1) : x \in w[t[k]].makes
    BY <1>1, <1>4
  <2> QED BY <2>1, OrderedNames
<1> QED BY <1>5, <1>6

\* Every item is replaced by a list that needs and makes no more and no less.
LEMMA OrderedFlat ==
    ASSUME NEW A, NEW B, NEW f \in [A -> Seq(B)], NEW w, NEW v,
           \A a \in A : Ordered(v, f[a], w[a].needs) /\ AllMade(v, f[a]) = w[a].makes,
           NEW s \in Seq(A), NEW known, Ordered(w, s, known)
    PROVE  Ordered(v, FlatMap(f, s), known) /\ AllMade(v, FlatMap(f, s)) = AllMade(w, s)
<1>0. \A t \in Seq(A) : \A e \in A : t \o <<e>> \in Seq(A) /\ FlatMap(f, t \o <<e>>) = FlatMap(f, t) \o f[e]
  BY FlatMore, ZenonT(40)
<1> DEFINE T == {t \in Seq(A) : Ordered(w, t, known) =>
                    Ordered(v, FlatMap(f, t), known) /\ AllMade(v, FlatMap(f, t)) = AllMade(w, t)}
<1>1. <<>> \in T
  <2>1. <<>> \in Seq(A) /\ FlatMap(f, <<>>) = <<>> /\ DOMAIN <<>> = {}
    BY FlatNone, EmptySeq
  <2>2. Ordered(v, <<>>, known) /\ AllMade(v, <<>>) = {} /\ AllMade(w, <<>>) = {}
    BY <2>1 DEF Ordered, AllMade
  <2> QED BY <2>1, <2>2
<1>2. ASSUME NEW t \in Seq(A), NEW e \in A, t \in T PROVE t \o <<e>> \in T
  <2> DEFINE one == <<e>>
             all == t \o one
  <2>1. one \in Seq(A) /\ FlatMap(f, one) = f[e] /\ DOMAIN one = 1..1 /\ one[1] = e
    BY FlatOne
  <2> HIDE DEF one
  <2>2. all \in Seq(A) /\ FlatMap(f, all) = FlatMap(f, t) \o f[e]
    <3>1. t \o <<e>> \in Seq(A) /\ FlatMap(f, t \o <<e>>) = FlatMap(f, t) \o f[e]
      BY <1>0
    <3> QED BY <3>1 DEF one
  <2>3. AllMade(w, all) = AllMade(w, t) \cup AllMade(w, one)
    BY <2>1, MadeJoin
  <2>4. AllMade(w, one) = w[e].makes
    BY <2>1 DEF AllMade
  <2>5. ASSUME Ordered(w, all, known)
        PROVE  Ordered(v, FlatMap(f, all), known) /\ AllMade(v, FlatMap(f, all)) = AllMade(w, all)
    <3>1. Ordered(w, t, known) /\ Ordered(w, one, known \cup AllMade(w, t))
      BY <2>1, <2>5, OrderedFirst
    <3>2. Ordered(v, FlatMap(f, t), known) /\ AllMade(v, FlatMap(f, t)) = AllMade(w, t)
      BY <1>2, <3>1
    <3>3. w[e].needs \subseteq known \cup AllMade(w, t)
      <4>1. w[one[1]].needs \subseteq (known \cup AllMade(w, t)) \cup UNION {w[one[k]].makes : k \in 1..(1 - 1)}
        <5>1. 1 \in DOMAIN one
          BY <2>1
        <5> QED BY <3>1, <5>1 DEF Ordered
      <4>2. 1..(1 - 1) = {}
        OBVIOUS
      <4> QED BY <2>1, <4>1, <4>2
    <3>4. Ordered(v, f[e], known \cup AllMade(w, t))
      BY <3>3, OrderedMore
    <3>5. FlatMap(f, t) \in Seq(B) /\ f[e] \in Seq(B)
      BY FlatParts
    <3>6. Ordered(v, FlatMap(f, t) \o f[e], known)
      BY <3>2, <3>4, <3>5, OrderedJoin
    <3>7. AllMade(v, FlatMap(f, t) \o f[e]) = AllMade(v, FlatMap(f, t)) \cup AllMade(v, f[e])
      BY <3>5, MadeJoin
    <3> QED BY <2>2, <2>3, <2>4, <3>2, <3>6, <3>7
  <2>6. all \in T
    BY <2>2, <2>5
  <2> QED BY <2>6 DEF one
<1>3. s \in T
  <2> HIDE DEF T
  <2> QED BY <1>1, <1>2, EverySeq
<1> QED BY <1>3

\* What a command makes, with all that it declares, and what it refers to,
\* with what was merged with it.
Names(c) == MadeBy(Range(Expand(c)))
Wants(c) == Refers(c) \cup NeedsOf(Range(c.merged))

\* Only commands about elements are merged.
Clustered(c) == c.merged # <<>> => c.obj = "elements" /\ \A m \in Range(c.merged) : m.obj = "elements"
Groups == {c \in Collapsed(Nat) : Clustered(c)}

OfList == [c \in Groups |-> [needs |-> Wants(c), makes |-> Names(c)]]
OfCommand == [c \in Single(Nat) |-> [needs |-> c.needs, makes |-> Makes(c)]]

\* What a list makes, item by item.
LEMMA MadeItems ==
    ASSUME NEW w, NEW s PROVE AllMade(w, s) = UNION {w[x].makes : x \in Range(s)}
BY DEF AllMade, Range

\* A list is in order if nothing in it needs anything of it.
LEMMA OrderedAll ==
    ASSUME NEW w, NEW s, NEW known, \A x \in Range(s) : w[x].needs \subseteq known
    PROVE  Ordered(w, s, known)
BY DEF Ordered, Range

\* A list of one.
LEMMA OrderedOne ==
    ASSUME NEW w, NEW x, NEW known
    PROVE  /\ Ordered(w, <<x>>, known) <=> w[x].needs \subseteq known
           /\ AllMade(w, <<x>>) = w[x].makes
<1> DEFINE one == <<x>>
<1>1. DOMAIN one = 1..1 /\ one[1] = x /\ Range(one) = {x} /\ 1 \in 1..1 /\ \A n \in 1..1 : n = 1
  BY OneSeq
<1> HIDE DEF one
<1>2. AllMade(w, one) = w[x].makes
  BY <1>1, MadeItems
<1>3. Ordered(w, one, known) <=> w[x].needs \subseteq known
  <2>1. 1..(1 - 1) = {}
    OBVIOUS
  <2>2. Ordered(w, one, known) => w[one[1]].needs \subseteq known \cup UNION {w[one[k]].makes : k \in 1..(1 - 1)}
    BY <1>1 DEF Ordered
  <2>3. Ordered(w, one, known) => w[x].needs \subseteq known
    BY <1>1, <2>1, <2>2
  <2> QED BY <1>1, <2>3, OrderedAll
<1> QED BY <1>2, <1>3 DEF one

\* Kinds of commands are also commands of the other kinds.
LEMMA Singles ==
    /\ Plain \subseteq Declarations /\ Declarations \subseteq Single(Nat) /\ Single(Nat) \subseteq Groups
    /\ Groups \subseteq Collapsed(Nat) /\ \A c \in Single(Nat) : c.merged = <<>> /\ c \in Groups
<1>1. Plain \subseteq Declarations /\ Declarations \subseteq Single(Nat) /\ Single(Nat) \subseteq Collapsed(Nat)
  BY Kinship
<1>2. \A c \in Single(Nat) : c.merged = <<>>
  BY DEF Single, Records
<1> QED BY <1>1, <1>2 DEF Groups, Clustered

\* A command of the list, and of the batch.
LEMMA ItemOf ==
    /\ \A c \in Groups : OfList[c].needs = Wants(c) /\ OfList[c].makes = Names(c)
    /\ \A c \in Single(Nat) : OfCommand[c].needs = c.needs /\ OfCommand[c].makes = Makes(c)
    /\ \A c \in Single(Nat) : OfList[c].needs = Refers(c) /\ OfList[c].makes = Names(c)
<1>1. \A c \in Groups : OfList[c].needs = Wants(c) /\ OfList[c].makes = Names(c)
  BY DEF OfList
<1>2. \A c \in Single(Nat) : OfCommand[c].needs = c.needs /\ OfCommand[c].makes = Makes(c)
  BY DEF OfCommand
<1>3. \A c \in Single(Nat) : Wants(c) = Refers(c)
  <2>1. Range(<<>>) = {}
    BY DEF Range
  <2> QED BY <2>1, Singles DEF Wants, NeedsOf
<1> QED BY <1>1, <1>2, <1>3, Singles

\* What commands make, and what is made by the items of a list of commands.
LEMMA MadeCommands ==
    ASSUME NEW s \in Seq(Single(Nat)) PROVE AllMade(OfCommand, s) = MadeBy(Range(s))
<1>1. \A x \in Range(s) : x \in Single(Nat)
  BY DEF Range
<1>2. \A x \in Range(s) : OfCommand[x].makes = Makes(x)
  BY <1>1, ItemOf
<1> QED BY <1>2, MadeItems DEF MadeBy

\* What is declared in a set follows it.
LEMMA DeclaredOrdered ==
    ASSUME NEW b \in Declarations
    PROVE  /\ Declared(b) \in Seq(Single(Nat))
           /\ Ordered(OfCommand, Declared(b), b.needs \cup (NeedsOf(Range(b.body)) \ Makes(b)))
           /\ AllMade(OfCommand, Declared(b)) = Makes(b) \cup MadeBy(Range(b.body))
<1> DEFINE c == [b EXCEPT !.body = <<>>]
           one == <<c>>
           body == b.body
           known == b.needs \cup (NeedsOf(Range(body)) \ Makes(b))
<1>1. c \in Single(Nat) /\ c.needs = b.needs /\ Makes(c) = Makes(b) /\ body \in Seq(Single(Nat))
  <2>1. body \in Seq(Plain)
    BY DEF Declarations, Records
  <2>2. body \in Seq(Single(Nat))
    BY <2>1, Singles, Wider
  <2>3. <<>> \in Seq(Plain)
    OBVIOUS
  <2>4. c \in Declarations /\ c.needs = b.needs /\ c.op = b.op /\ c.obj = b.obj /\ c.name = b.name
    BY <2>3 DEF Declarations, Records
  <2> QED BY <2>2, <2>4, Singles DEF Makes
<1> HIDE DEF c
<1>2. one \in Seq(Single(Nat))
  BY <1>1
<1>3. Ordered(OfCommand, one, known) /\ AllMade(OfCommand, one) = Makes(b)
  BY <1>1, ItemOf, OrderedOne
<1>4. Ordered(OfCommand, body, known \cup Makes(b)) /\ AllMade(OfCommand, body) = MadeBy(Range(body))
  <2>1. \A x \in Range(body) : x \in Single(Nat)
    BY <1>1 DEF Range
  <2>2. \A x \in Range(body) : OfCommand[x].needs \subseteq known \cup Makes(b)
    BY <2>1, ItemOf DEF NeedsOf
  <2> QED BY <1>1, <2>2, MadeCommands, OrderedAll
<1> HIDE DEF one, body, known
<1>5. Ordered(OfCommand, one \o body, known) /\ AllMade(OfCommand, one \o body) = Makes(b) \cup MadeBy(Range(body))
  BY <1>1, <1>2, <1>3, <1>4, OrderedJoin, MadeJoin
<1>6. one \o body \in Seq(Single(Nat))
  BY <1>1, <1>2, ConcatProperties
<1>7. Declared(b) = one \o body
  BY DEF Declared, one, body, c
<1> QED BY <1>5, <1>6, <1>7 DEF known, body

\* What the declarations of one kind need, and make.
KindNeeds(body, kind) ==
    UNION {b.needs \cup (NeedsOf(Range(b.body)) \ Makes(b)) : b \in {d \in Range(body) : d.obj = kind}}
KindMakes(body, kind) ==
    UNION {Makes(b) \cup MadeBy(Range(b.body)) : b \in {d \in Range(body) : d.obj = kind}}

\* One kind after the other.
LEMMA KindOrdered ==
    ASSUME NEW body \in Seq(Declarations), NEW kind
    PROVE  /\ OfKind(body, kind) \in Seq(Single(Nat))
           /\ Ordered(OfCommand, OfKind(body, kind), KindNeeds(body, kind))
           /\ AllMade(OfCommand, OfKind(body, kind)) = KindMakes(body, kind)
<1> DEFINE D == Declarations
           B == Single(Nat)
           Parts(b) == IF b.obj = kind THEN Declared(b) ELSE <<>>
           f == [b \in D |-> Parts(b)]
           Item(b) == IF b.obj = kind
                      THEN [needs |-> b.needs \cup (NeedsOf(Range(b.body)) \ Makes(b)),
                            makes |-> Makes(b) \cup MadeBy(Range(b.body))]
                      ELSE [needs |-> {}, makes |-> {}]
           w == [b \in D |-> Item(b)]
           need == KindNeeds(body, kind)
<1>1. ASSUME NEW b \in D
      PROVE  Parts(b) \in Seq(B) /\ Ordered(OfCommand, Parts(b), Item(b).needs) /\ AllMade(OfCommand, Parts(b)) = Item(b).makes
  <2>1. CASE b.obj = kind
    BY <2>1, DeclaredOrdered
  <2>2. CASE b.obj # kind
    <3>1. Parts(b) = <<>> /\ <<>> \in Seq(B) /\ Range(<<>>) = {} /\ Item(b).needs = {} /\ Item(b).makes = {}
      BY <2>2 DEF Range
    <3>2. Ordered(OfCommand, <<>>, {}) /\ AllMade(OfCommand, <<>>) = {}
      BY <3>1, OrderedAll, MadeItems
    <3> QED BY <3>1, <3>2
  <2> QED BY <2>1, <2>2
<1>2. \A x \in Range(body) : x \in D
  BY DEF Range
<1>3. \A x \in Range(body) : w[x].needs \subseteq need
  BY <1>2 DEF KindNeeds
<1>4. Ordered(w, body, need)
  <2> HIDE DEF w, need
  <2> QED BY <1>3, OrderedAll
<1>5. AllMade(w, body) = KindMakes(body, kind)
  <2>1. AllMade(w, body) = UNION {w[x].makes : x \in Range(body)}
    <3> HIDE DEF w
    <3> QED BY MadeItems
  <2>2. \A x \in Range(body) : w[x].makes = IF x.obj = kind THEN Makes(x) \cup MadeBy(Range(x.body)) ELSE {}
    BY <1>2
  <2> HIDE DEF w
  <2> QED BY <2>1, <2>2 DEF KindMakes
<1>6. f \in [D -> Seq(B)]
  <2> HIDE DEF Parts, D, B
  <2>1. \A b \in D : Parts(b) \in Seq(B)
    BY <1>1
  <2> QED BY <2>1
<1>7. \A b \in D : Ordered(OfCommand, f[b], w[b].needs) /\ AllMade(OfCommand, f[b]) = w[b].makes
  <2>1. \A b \in D : f[b] = Parts(b) /\ w[b] = Item(b)
    OBVIOUS
  <2> HIDE DEF f, w, Parts, Item, D
  <2> QED BY <1>1, <2>1
<1>8. FlatMap(f, body) = OfKind(body, kind)
  <2>1. \A n \in DOMAIN body : f[body[n]] = Parts(body[n])
    OBVIOUS
  <2> HIDE DEF f
  <2> QED BY <2>1 DEF FlatMap, Pieces, OfKind
<1>9. body \in Seq(D)
  OBVIOUS
<1> HIDE DEF f, w, need, D, B
<1>10. Ordered(OfCommand, FlatMap(f, body), need) /\ AllMade(OfCommand, FlatMap(f, body)) = AllMade(w, body)
  BY <1>4, <1>6, <1>7, <1>9, OrderedFlat, ZenonT(60)
<1>11. FlatMap(f, body) \in Seq(B)
  BY <1>6, <1>9, FlatParts
<1> QED BY <1>5, <1>8, <1>10, <1>11 DEF need, B

\* A table that is declared as a whole: what its things refer to comes first,
\* because the kinds are in this order.
LEMMA KindsOrdered ==
    ASSUME NEW c, c.body \in Seq(Declarations), NEW w, NEW known,
           \A n \in DOMAIN Kinds : w[Kinds[n]].needs = KindNeeds(c.body, Kinds[n]) /\ w[Kinds[n]].makes = KindMakes(c.body, Kinds[n]),
           c.op = "add", c.obj = "table", Refers(c) \cup Makes(c) \subseteq known
    PROVE  Ordered(w, Kinds, known)
<1> DEFINE body == c.body
           Earlier(kind) == MadeBy({d \in Range(body) : d.obj \in Targets[kind]})
<1>1. DOMAIN Kinds = 1..5 /\ Kinds[1] = "chain" /\ Kinds[2] = "object" /\ Kinds[3] = "set" /\ Kinds[4] = "flowtable" /\ Kinds[5] = "rule"
  BY DEF Kinds
<1>2. ASSUME NEW n \in 1..5, NEW x \in KindNeeds(body, Kinds[n])
      PROVE  x \in known \/ x \in Earlier(Kinds[n])
  <2>1. PICK b \in Range(body) : b.obj = Kinds[n] /\ x \in b.needs \cup (NeedsOf(Range(b.body)) \ Makes(b))
    BY <1>2 DEF KindNeeds
  <2>2. Kinds[n] \in Range(Kinds)
    BY <1>1 DEF Range
  <2>3. x \in Refers(c) \/ x \in Makes(c) \/ x \in Earlier(b.obj)
    <3> DEFINE Inside(d) == Makes(c) \cup MadeBy({e \in Range(c.body) : e.obj \in Targets[d.obj]})
               Beyond(d) == (d.needs \cup (NeedsOf(Range(d.body)) \ Makes(d))) \ Inside(d)
               Declares == {d \in Range(c.body) : d.obj \in Range(Kinds)}
    <3>1. Refers(c) = c.needs \cup UNION {Beyond(d) : d \in Declares}
      BY DEF Refers
    <3>2. b \in Declares
      BY <2>1, <2>2
    <3>3. Beyond(b) \subseteq Refers(c)
      <4> HIDE DEF Beyond, Declares
      <4> QED BY <3>1, <3>2
    <3>4. x \in Beyond(b) \/ x \in Inside(b)
      BY <2>1
    <3> QED BY <3>3, <3>4
  <2> QED BY <2>1, <2>3
<1>3. ASSUME NEW n \in 1..5, NEW x \in Earlier(Kinds[n])
      PROVE  \E k \in 1..(n - 1) : x \in KindMakes(body, Kinds[k])
  <2>1. PICK d \in Range(body) : d.obj \in Targets[Kinds[n]] /\ x \in Makes(d)
    BY <1>3 DEF MadeBy
  <2>2. PICK k \in 1..(n - 1) : d.obj = Kinds[k]
    <3>1. n \in {1, 2, 3, 4, 5}
      OBVIOUS
    <3>2. CASE n = 3
      <4>1. d.obj \in {"chain", "object"} /\ 1 \in 1..(n - 1) /\ 2 \in 1..(n - 1)
        BY <1>1, <2>1, <3>2 DEF Targets
      <4> QED BY <1>1, <4>1
    <3>3. CASE n = 5
      <4>1. d.obj \in {"chain", "object", "set", "flowtable"} /\ \A j \in {1, 2, 3, 4} : j \in 1..(n - 1)
        BY <1>1, <2>1, <3>3 DEF Targets
      <4> QED BY <1>1, <4>1
    <3>4. CASE n \in {1, 2, 4}
      <4>1. d.obj \in {}
        BY <1>1, <2>1, <3>4 DEF Targets
      <4> QED BY <4>1
    <3> QED BY <3>1, <3>2, <3>3, <3>4
  <2> QED BY <2>1, <2>2 DEF KindMakes
<1> HIDE DEF Earlier, body
<1>4. ASSUME NEW n \in DOMAIN Kinds, NEW x \in w[Kinds[n]].needs
      PROVE  x \in known \/ \E k \in 1..(n - 1) : x \in w[Kinds[k]].makes
  <2>1. n \in 1..5 /\ x \in KindNeeds(body, Kinds[n])
    BY <1>1, <1>4 DEF body
  <2>2. CASE x \in known
    BY <2>2
  <2>3. CASE x \in Earlier(Kinds[n])
    <3>1. PICK k \in 1..(n - 1) : x \in KindMakes(body, Kinds[k])
      BY <1>3, <2>1, <2>3
    <3>2. k \in DOMAIN Kinds
      BY <1>1, <2>1
    <3> QED BY <3>1, <3>2 DEF body
  <2> QED BY <1>2, <2>1, <2>2, <2>3
<1> QED BY <1>4, OrderedNames

\* Whatever a command declares follows it, in an order that the kernel takes.
LEMMA ExpandOrdered ==
    ASSUME NEW c \in Single(Nat)
    PROVE  Ordered(OfCommand, Expand(c), Refers(c)) /\ AllMade(OfCommand, Expand(c)) = Names(c)
<1> DEFINE d == [c EXCEPT !.body = <<>>]
           one == <<d>>
           body == c.body
           known == Refers(c)
<1>1. AllMade(OfCommand, Expand(c)) = Names(c)
  BY ExpandType, MadeCommands DEF Names
<1>2. c.needs \subseteq known
  BY DEF Refers
<1>3. CASE c.op # "add" \/ c.obj \notin {"table", "set"}
  <2>1. Expand(c) = <<c>>
    BY <1>3 DEF Expand
  <2>2. OfCommand[c].needs \subseteq known
    BY <1>2, ItemOf
  <2> HIDE DEF known
  <2>3. Ordered(OfCommand, <<c>>, known)
    BY <2>2, OrderedOne
  <2> QED BY <1>1, <2>1, <2>3 DEF known
<1>4. CASE c.op = "add" /\ c.obj \in {"table", "set"}
  <2>1. body \in Seq(Declarations) /\ body \in Seq(Single(Nat))
    <3>1. body \in Seq(Declarations)
      BY DEF Single, Records
    <3> QED BY <3>1, Singles, Wider
  <2>2. d \in Single(Nat) /\ d.needs = c.needs /\ Makes(d) = Makes(c)
    <3>1. <<>> \in Seq(Declarations)
      OBVIOUS
    <3>2. d \in Single(Nat) /\ d.needs = c.needs /\ d.op = c.op /\ d.obj = c.obj /\ d.name = c.name
      BY <3>1 DEF Single, Records
    <3> QED BY <3>2 DEF Makes
  <2> HIDE DEF d
  <2>3. one \in Seq(Single(Nat))
    BY <2>2
  <2>4. Ordered(OfCommand, one, known) /\ AllMade(OfCommand, one) = Makes(c)
    BY <1>2, <2>2, ItemOf, OrderedOne
  <2>5. ASSUME NEW rest \in Seq(Single(Nat)), Ordered(OfCommand, rest, known \cup Makes(c)), Expand(c) = one \o rest
        PROVE  Ordered(OfCommand, Expand(c), known)
    <3> HIDE DEF one, known
    <3>1. Ordered(OfCommand, rest, known \cup AllMade(OfCommand, one))
      BY <2>4, <2>5
    <3> QED BY <2>3, <2>4, <2>5, <3>1, OrderedJoin
  <2>6. CASE c.obj = "set"
    <3>1. Expand(c) = one \o body
      BY <1>4, <2>6 DEF Expand, d
    <3>2. NeedsOf(Range(body)) \subseteq known \cup Makes(c)
      BY <1>4, <2>6 DEF Refers
    <3>3. \A x \in Range(body) : OfCommand[x].needs \subseteq known \cup Makes(c)
      <4>1. \A x \in Range(body) : x \in Single(Nat)
        BY <2>1 DEF Range
      <4> QED BY <3>2, <4>1, ItemOf DEF NeedsOf
    <3> HIDE DEF known, body
    <3>4. Ordered(OfCommand, body, known \cup Makes(c))
      BY <3>3, OrderedAll
    <3> QED BY <1>1, <2>1, <2>5, <3>1, <3>4 DEF known
  <2>7. CASE c.obj = "table"
    <3> DEFINE K == Range(Kinds)
               B == Single(Nat)
               f == [kind \in K |-> OfKind(body, kind)]
               w == [kind \in K |-> [needs |-> KindNeeds(body, kind), makes |-> KindMakes(body, kind)]]
               more == known \cup Makes(c)
    <3>1. Expand(c) = one \o FlattenSeq([k \in DOMAIN Kinds |-> OfKind(body, Kinds[k])])
      BY <1>4, <2>7 DEF Expand, d
    <3>2. Kinds \in Seq(K) /\ \A n \in DOMAIN Kinds : Kinds[n] \in K
      <4>1. Kinds \in Seq({"chain", "object", "set", "flowtable", "rule"})
        BY DEF Kinds
      <4> QED BY <4>1, AnySeq DEF IsSeq, Range
    <3>3. f \in [K -> Seq(B)]
      <4>1. \A kind \in K : OfKind(body, kind) \in Seq(B)
        BY <2>1, KindOrdered
      <4> HIDE DEF K, B, body
      <4> QED BY <4>1
    <3>4. \A kind \in K : Ordered(OfCommand, f[kind], w[kind].needs) /\ AllMade(OfCommand, f[kind]) = w[kind].makes
      <4>1. \A kind \in K : f[kind] = OfKind(body, kind) /\ w[kind].needs = KindNeeds(body, kind) /\ w[kind].makes = KindMakes(body, kind)
        OBVIOUS
      <4>2. \A kind \in K : Ordered(OfCommand, OfKind(body, kind), KindNeeds(body, kind)) /\ AllMade(OfCommand, OfKind(body, kind)) = KindMakes(body, kind)
        BY <2>1, KindOrdered
      <4> HIDE DEF f, w, K, body
      <4> QED BY <4>1, <4>2
    <3>5. Ordered(w, Kinds, more)
      <4>1. \A n \in DOMAIN Kinds : w[Kinds[n]].needs = KindNeeds(c.body, Kinds[n]) /\ w[Kinds[n]].makes = KindMakes(c.body, Kinds[n])
        BY <3>2
      <4> HIDE DEF w
      <4> QED BY <1>4, <2>1, <2>7, <4>1, KindsOrdered
    <3>6. FlatMap(f, Kinds) = FlattenSeq([k \in DOMAIN Kinds |-> OfKind(body, Kinds[k])])
      <4>1. \A k \in DOMAIN Kinds : f[Kinds[k]] = OfKind(body, Kinds[k])
        BY <3>2
      <4> HIDE DEF f, body
      <4> QED BY <4>1 DEF FlatMap, Pieces
    <3> HIDE DEF f, w, K, B, more
    <3>7. Ordered(OfCommand, FlatMap(f, Kinds), more)
      BY <3>2, <3>3, <3>4, <3>5, OrderedFlat
    <3>8. FlatMap(f, Kinds) \in Seq(B)
      BY <3>2, <3>3, FlatParts
    <3> QED BY <1>1, <2>5, <3>1, <3>6, <3>7, <3>8 DEF B, more
  <2> QED BY <1>1, <1>4, <2>6, <2>7
<1> QED BY <1>3, <1>4

\* A command about elements makes nothing, and refers to what it needs.
LEMMA ElementsOrdered ==
    ASSUME NEW c, c.obj = "elements"
    PROVE  Expand(c) = <<c>> /\ Makes(c) = {} /\ Names(c) = {} /\ Refers(c) = c.needs
<1>1. Expand(c) = <<c>> /\ Makes(c) = {}
  BY DEF Expand, Makes
<1>2. Range(<<c>>) = {c}
  BY OneSeq
<1>3. Names(c) = {}
  BY <1>1, <1>2 DEF Names, MadeBy
<1>4. Refers(c) = c.needs
  BY DEF Refers
<1> QED BY <1>1, <1>3, <1>4

\* A command taken apart needs and makes what it did.
LEMMA ApartOrdered ==
    ASSUME NEW c \in Groups
    PROVE  /\ Apart(c) \in Seq(Single(Nat))
           /\ Ordered(OfList, Apart(c), Wants(c)) /\ AllMade(OfList, Apart(c)) = Names(c)
<1>0. c \in Collapsed(Nat) /\ Apart(c) \in Seq(Single(Nat)) /\ c.merged \in Seq(Single(Nat)) /\ c.elems \in Seq(Elements)
  <2>1. c \in Collapsed(Nat)
    BY DEF Groups
  <2>2. Apart(c) \in Seq(Single(Nat))
    BY <2>1, ApartType
  <2> QED BY <2>1, <2>2 DEF Collapsed, Records
<1>1. CASE c.merged = <<>>
  <2>1. Apart(c) = <<c>>
    BY <1>1 DEF Apart
  <2>2. OfList[c].needs = Wants(c) /\ OfList[c].makes = Names(c)
    BY ItemOf
  <2>3. Ordered(OfList, <<c>>, Wants(c)) /\ AllMade(OfList, <<c>>) = Names(c)
    BY <2>2, OrderedOne
  <2> QED BY <1>0, <2>1, <2>3
<1>2. CASE c.merged # <<>>
  <2> DEFINE lead == [c EXCEPT !.elems = Of(c, 0), !.merged = <<>>]
             back == [k \in DOMAIN c.merged |-> Returned(c, c.merged[k])]
             one == <<lead>>
             all == one \o Reverse(back)
  <2>1. c.obj = "elements" /\ \A m \in Range(c.merged) : m.obj = "elements"
    BY <1>2 DEF Groups, Clustered
  <2>2. Apart(c) = all
    BY <1>2 DEF Apart
  <2>3. lead.obj = "elements" /\ lead.needs = c.needs
    BY <1>0, <2>1 DEF Collapsed, Records
  <2>4. ASSUME NEW k \in DOMAIN c.merged
        PROVE  /\ Returned(c, c.merged[k]) \in Single(Nat) /\ Returned(c, c.merged[k]).obj = "elements"
               /\ Returned(c, c.merged[k]).needs \subseteq NeedsOf(Range(c.merged))
    <3> DEFINE m == c.merged[k]
    <3>1. m \in Single(Nat) /\ m \in Range(c.merged)
      BY <1>0 DEF Range
    <3>2. m.obj = "elements" /\ m.needs \subseteq NeedsOf(Range(c.merged))
      BY <2>1, <3>1 DEF NeedsOf
    <3>3. Returned(c, m).obj = m.obj
      BY <1>0, <3>1, KeysReturned
    <3>4. Returned(c, m).needs = m.needs
      BY <3>1 DEF Returned, Single, Records
    <3>5. Returned(c, m) \in Single(Nat)
      BY <1>0, <3>1, ReturnedType
    <3> QED BY <3>2, <3>3, <3>4, <3>5
  <2>5. back \in Seq(Single(Nat))
    <3>1. DOMAIN c.merged = 1..Len(c.merged) /\ Len(c.merged) \in Nat
      BY <1>0
    <3>2. back \in [1..Len(c.merged) -> Single(Nat)]
      BY <2>4, <3>1
    <3> HIDE DEF back
    <3> QED BY <3>1, <3>2, MadeSeq
  <2>6. \A x \in Range(back) : x.obj = "elements" /\ x.needs \subseteq NeedsOf(Range(c.merged))
    BY <2>4 DEF Range
  <2> HIDE DEF lead, back
  <2>7. Range(Reverse(back)) = Range(back) /\ IsSeq(Reverse(back)) /\ IsSeq(one) /\ Range(one) = {lead}
    <3>1. Reverse(back) \in Seq(Single(Nat))
      BY <2>5, ReverseType
    <3> QED BY <2>5, <3>1, ReverseRange, OneSeq, AnySeq
  <2> HIDE DEF one
  <2>8. Range(all) = {lead} \cup Range(back)
    BY <2>7, JoinedSeq
  <2> HIDE DEF all
  <2>9. \A x \in Range(all) : x \in Single(Nat) /\ x.obj = "elements" /\ x.needs \subseteq Wants(c)
    <3>1. \A x \in Range(all) : x \in Single(Nat)
      BY <1>0, <2>2 DEF Range
    <3>2. Wants(c) = c.needs \cup NeedsOf(Range(c.merged))
      BY <2>1, ElementsOrdered DEF Wants
    <3> QED BY <2>3, <2>6, <2>8, <3>1, <3>2
  <2>10. \A x \in Range(all) : OfList[x].needs \subseteq Wants(c) /\ OfList[x].makes = {}
    BY <2>9, ItemOf, ElementsOrdered
  <2>11. Names(c) = {}
    BY <2>1, ElementsOrdered
  <2>12. AllMade(OfList, all) = {}
    <3>1. AllMade(OfList, all) = UNION {OfList[x].makes : x \in Range(all)}
      BY MadeItems
    <3> QED BY <2>10, <3>1
  <2>13. Ordered(OfList, all, Wants(c))
    BY <2>10, OrderedAll
  <2> QED BY <1>0, <2>2, <2>11, <2>12, <2>13
<1> QED BY <1>1, <1>2

\* A list in order is sent in order.
LEMMA SendsOrdered ==
    ASSUME NEW x \in Seq(Groups), Ordered(OfList, x, {})
    PROVE  Ordered(OfCommand, Sends(x), {})
<1> DEFINE B == Single(Nat)
           f == [c \in Groups |-> Apart(c)]
           u == Uncollapse(x)
<1>1. f \in [Groups -> Seq(B)] /\ \A c \in Groups : f[c] = Apart(c)
  BY ApartOrdered
<1>2. \A c \in Groups : Ordered(OfList, f[c], OfList[c].needs) /\ AllMade(OfList, f[c]) = OfList[c].makes
  BY <1>1, ApartOrdered, ItemOf
<1>3. FlatMap(f, x) = u
  <2>1. \A n \in DOMAIN x : f[x[n]] = Apart(x[n])
    BY <1>1
  <2> HIDE DEF f
  <2> QED BY <2>1 DEF FlatMap, Pieces, Uncollapse
<1> HIDE DEF f, u, B
<1>4. Ordered(OfList, u, {})
  <2>1. Ordered(OfList, FlatMap(f, x), {})
    BY <1>1, <1>2, OrderedFlat
  <2> QED BY <1>3, <2>1
<1>5. u \in Seq(B)
  BY <1>1, <1>3, FlatParts
<1>6. ExpandMap \in [B -> Seq(B)] /\ ExpandAll(u) = FlatMap(ExpandMap, u) /\ \A c \in B : ExpandMap[c] = Expand(c)
  BY <1>5, Passes DEF B
<1>7. \A c \in B : Ordered(OfCommand, ExpandMap[c], OfList[c].needs) /\ AllMade(OfCommand, ExpandMap[c]) = OfList[c].makes
  BY <1>6, ExpandOrdered, ItemOf DEF B
<1>8. Ordered(OfCommand, FlatMap(ExpandMap, u), {})
  BY <1>4, <1>5, <1>6, <1>7, OrderedFlat
<1> QED BY <1>6, <1>8 DEF Sends, u

\* What is collapsed is in order, and makes what the commands so far make.
InOrder(acc, cs, m) ==
    /\ acc.out \in Seq(Groups) /\ acc.lead \in {0, Len(acc.out)}
    /\ acc.lead # 0 => AddsElements(acc.out[acc.lead])
    /\ Ordered(OfList, acc.out, {})
    /\ AllMade(OfList, acc.out) = AllMade(OfList, SubSeq(cs, 1, m))

\* One command more that needs no more than was made.
LEMMA AppendOrdered ==
    ASSUME NEW o \in Seq(Groups), Ordered(OfList, o, {}), NEW c \in Groups, Wants(c) \subseteq AllMade(OfList, o)
    PROVE  /\ Append(o, c) \in Seq(Groups) /\ Len(Append(o, c)) = Len(o) + 1 /\ Append(o, c)[Len(o) + 1] = c
           /\ Ordered(OfList, Append(o, c), {}) /\ AllMade(OfList, Append(o, c)) = AllMade(OfList, o) \cup Names(c)
<1> DEFINE one == <<c>>
<1>1. one \in Seq(Groups) /\ Append(o, c) = o \o one /\ Append(o, c) \in Seq(Groups)
      /\ Len(Append(o, c)) = Len(o) + 1 /\ Append(o, c)[Len(o) + 1] = c
  OBVIOUS
<1>2. Ordered(OfList, one, {} \cup AllMade(OfList, o)) /\ AllMade(OfList, one) = Names(c)
  BY ItemOf, OrderedOne
<1> HIDE DEF one
<1> QED BY <1>1, <1>2, OrderedJoin, MadeJoin

\* The list with the elements of a command put to the last one's.
Lengthened(o, c) == [o EXCEPT ![Len(o)] = Joined(o[Len(o)], c)]

\* Elements join their leader: nothing between makes what they refer to.
LEMMA JoinedOrdered ==
    ASSUME NEW o \in Seq(Groups), Ordered(OfList, o, {}), NEW n \in Nat \ {0}, n = Len(o), AddsElements(o[n]),
           NEW c \in Single(Nat), AddsElements(c), Wants(c) \subseteq AllMade(OfList, o),
           NEW new, new = Lengthened(o, c), new \in Seq(Collapsed(Nat))
    PROVE  /\ new \in Seq(Groups) /\ Len(new) = n /\ AddsElements(new[n])
           /\ Ordered(OfList, new, {}) /\ AllMade(OfList, new) = AllMade(OfList, o)
<1> DEFINE l == o[n]
           j == Joined(l, c)
           first == SubSeq(o, 1, n - 1)
           one == <<l>>
           two == <<j>>
           rest == SubSeq(o, n + 1, Len(o))
<1>1. n \in 1..Len(o) /\ l \in Groups /\ l \in Collapsed(Nat) /\ Len(new) = Len(o) /\ new[n] = j /\ j \in Collapsed(Nat)
      /\ \A i \in 1..Len(o) : i # n => new[i] = o[i]
  <2>1. n \in 1..Len(o) /\ l \in Groups /\ Len(new) = Len(o) /\ new[n] = j
        /\ \A i \in 1..Len(o) : i # n => new[i] = o[i]
    <3>1. new = [o EXCEPT ![n] = j]
      BY DEF Lengthened
    <3> HIDE DEF j
    <3> QED BY <3>1
  <2>2. new[n] \in Collapsed(Nat)
    BY <2>1
  <2> QED BY <2>1, <2>2, Singles
<1>2. l.merged \in Seq(Single(Nat)) /\ c.obj = "elements" /\ l.obj = "elements"
  <2>1. l.merged \in Seq(Single(Nat))
    BY <1>1 DEF Collapsed, Records
  <2> QED BY <2>1 DEF AddsElements
<1>3. j.op = l.op /\ j.obj = "elements" /\ j.needs = l.needs /\ j.merged = Append(l.merged, [c EXCEPT !.elems = <<>>])
  BY <1>1, <1>2 DEF Joined, Collapsed, Records
<1>4. j \in Groups /\ Wants(j) = Wants(l) \cup c.needs
  <2> DEFINE m == [c EXCEPT !.elems = <<>>]
             ms == <<m>>
  <2>1. m \in Single(Nat) /\ m.obj = "elements" /\ m.needs = c.needs
    <3>1. <<>> \in Seq(Elements)
      OBVIOUS
    <3> QED BY <1>2, <3>1 DEF Single, Records
  <2> HIDE DEF m
  <2>2. j.merged = l.merged \o ms /\ IsSeq(l.merged) /\ IsSeq(ms) /\ Range(ms) = {m}
    <3>1. Append(l.merged, m) = l.merged \o ms
      <4> DEFINE was == l.merged
      <4>1. was \in Seq(Single(Nat)) /\ m \in Single(Nat)
        BY <1>2, <2>1
      <4> HIDE DEF was
      <4>2. Append(was, m) = was \o <<m>>
        BY ONLY <4>1
      <4> QED BY <4>2 DEF was
    <3> QED BY <1>2, <1>3, <3>1, AnySeq, OneSeq DEF m
  <2> HIDE DEF ms
  <2>3. Range(j.merged) = Range(l.merged) \cup {m}
    BY <2>2, JoinedSeq
  <2>4. \A x \in Range(l.merged) : x.obj = "elements"
    <3>1. l.merged = <<>> => Range(l.merged) = {}
      BY DEF Range
    <3> QED BY <1>1, <3>1 DEF Groups, Clustered
  <2>5. j \in Groups
    BY <1>1, <1>3, <2>1, <2>3, <2>4 DEF Groups, Clustered
  <2>6. Refers(j) = l.needs /\ Refers(l) = l.needs
    BY <1>2, <1>3, ElementsOrdered
  <2>7. NeedsOf(Range(j.merged)) = NeedsOf(Range(l.merged)) \cup c.needs
    BY <2>1, <2>3 DEF NeedsOf
  <2> QED BY <2>5, <2>6, <2>7 DEF Wants
<1>5. Names(j) = {} /\ Names(l) = {} /\ c.needs \subseteq AllMade(OfList, o)
  <2>1. c.needs \subseteq Wants(c)
    BY DEF Wants, Refers
  <2> QED BY <1>2, <1>3, <2>1, ElementsOrdered
<1>6. rest = <<>> /\ first \in Seq(Groups)
  <2>1. \A i \in 1..(n - 1) : o[i] \in Groups
    BY <1>1
  <2>2. first \in Seq(Groups)
    BY <2>1, SubSeqProperties
  <2> QED BY <2>2, SubSeqEmpty
<1> HIDE DEF j, l
<1>7. o = first \o one \o <<>>
  <2>1. o = SubSeq(o, 1, n - 1) \o <<o[n]>> \o SubSeq(o, n + 1, Len(o))
    BY <1>1, Around
  <2> QED BY <1>6, <2>1 DEF l
<1>8. new = first \o two \o <<>>
  <2>1. new = SubSeq(o, 1, n - 1) \o <<new[n]>> \o SubSeq(o, n + 1, Len(o))
    <3>1. new \in Seq(Collapsed(Nat)) /\ o \in Seq(Collapsed(Nat))
      BY Singles, Wider
    <3> QED BY <1>1, <3>1, Around
  <2> QED BY <1>1, <1>6, <2>1
<1>9. one \in Seq(Groups) /\ two \in Seq(Groups)
  BY <1>1, <1>4
<1> HIDE DEF first, one, two, rest
<1>10. o = first \o one /\ new = first \o two /\ new \in Seq(Groups)
  <2>1. first \o one \in Seq(Groups) /\ first \o two \in Seq(Groups)
    BY <1>6, <1>9, ConcatProperties
  <2>2. (first \o one) \o <<>> = first \o one /\ (first \o two) \o <<>> = first \o two
    BY <2>1, ConcatEmptySeq
  <2> QED BY <1>7, <1>8, <2>1, <2>2
<1>11. Ordered(OfList, first, {}) /\ Ordered(OfList, one, {} \cup AllMade(OfList, first))
  BY <1>6, <1>9, <1>10, OrderedFirst
<1>12. Wants(l) \subseteq AllMade(OfList, first) /\ AllMade(OfList, one) = {} /\ AllMade(OfList, two) = {}
  <2>1. OfList[l].needs = Wants(l) /\ OfList[l].makes = {} /\ OfList[j].makes = {}
    BY <1>1, <1>4, <1>5, ItemOf
  <2>2. AllMade(OfList, one) = OfList[l].makes /\ AllMade(OfList, two) = OfList[j].makes
    BY OrderedOne DEF one, two
  <2>3. OfList[l].needs \subseteq {} \cup AllMade(OfList, first)
    BY <1>11, OrderedOne DEF one
  <2> QED BY <2>1, <2>2, <2>3
<1>13. AllMade(OfList, o) = AllMade(OfList, first) /\ AllMade(OfList, new) = AllMade(OfList, first)
  <2>1. AllMade(OfList, first \o one) = AllMade(OfList, first) \cup AllMade(OfList, one)
    BY <1>6, <1>9, MadeJoin
  <2>2. AllMade(OfList, first \o two) = AllMade(OfList, first) \cup AllMade(OfList, two)
    BY <1>6, <1>9, MadeJoin
  <2> QED BY <1>10, <1>12, <2>1, <2>2
<1>14. Ordered(OfList, two, {} \cup AllMade(OfList, first))
  <2>1. OfList[j].needs \subseteq {} \cup AllMade(OfList, first)
    BY <1>4, <1>5, <1>12, <1>13, ItemOf
  <2> QED BY <2>1, OrderedOne DEF two
<1>15. Ordered(OfList, new, {})
  <2>1. Ordered(OfList, first \o two, {})
    BY <1>6, <1>9, <1>11, <1>14, OrderedJoin
  <2> QED BY <1>10, <2>1
<1>16. AddsElements(new[n])
  BY <1>1, <1>3 DEF AddsElements, l
<1> QED BY <1>1, <1>10, <1>13, <1>15, <1>16

\* A round of nft_cmd_collapse keeps the order.
LEMMA OrderStep ==
    ASSUME NEW cs \in Seq(Single(Nat)), NEW m \in 1..Len(cs), Ordered(OfList, cs, {}),
           NEW acc, InOrder(acc, cs, m - 1), CollapseStep(acc, cs[m]).out \in Seq(Collapsed(Nat))
    PROVE  InOrder(CollapseStep(acc, cs[m]), cs, m)
<1> DEFINE c == cs[m]
           o == acc.out
           before == SubSeq(cs, 1, m - 1)
           so == SubSeq(cs, 1, m)
           new == CollapseStep(acc, c)
<1>1. c \in Single(Nat) /\ c \in Groups
  BY Singles
<1>2. o \in Seq(Groups) /\ acc.lead \in {0, Len(o)} /\ Ordered(OfList, o, {}) /\ AllMade(OfList, o) = AllMade(OfList, before)
  BY DEF InOrder
<1>3. before \in Seq(Single(Nat)) /\ so = before \o <<c>>
  <2>1. m \in 1..Len(cs) /\ 1 \in 1..Len(cs) /\ (m - 1) + 1 = m
    OBVIOUS
  <2>2. \A i \in 1..(m - 1) : cs[i] \in Single(Nat)
    OBVIOUS
  <2>3. before \in Seq(Single(Nat)) /\ Len(before) = m - 1 /\ \A i \in 1..(m - 1) : before[i] = cs[i]
    BY <2>2, SubSeqProperties
  <2>4. so = before \o <<c>>
    <3> DEFINE k == m - 1
    <3>1. k \in 0..(Len(cs) - 1) /\ k + 1 = m
      OBVIOUS
    <3>2. SubSeq(cs, 1, k + 1) = SubSeq(cs, 1, k) \o <<cs[k + 1]>>
      <4> HIDE DEF k
      <4>1. 1 \in 1..Len(cs) /\ k \in 0..Len(cs) /\ k + 1 \in 1..Len(cs)
        BY <3>1
      <4> QED BY <3>1, <4>1, SubSeqRecursiveSecond
    <3> QED BY <3>1, <3>2
  <2> QED BY <2>3, <2>4
<1>4. Wants(c) \subseteq AllMade(OfList, o) /\ AllMade(OfList, so) = AllMade(OfList, o) \cup Names(c)
  <2>1. OfList[cs[m]].needs \subseteq {} \cup UNION {OfList[cs[k]].makes : k \in 1..(m - 1)}
    BY DEF Ordered
  <2>2. AllMade(OfList, before) = UNION {OfList[cs[k]].makes : k \in 1..(m - 1)}
    <3>1. DOMAIN before = 1..(m - 1) /\ \A k \in 1..(m - 1) : before[k] = cs[k]
      <4>1. \A i \in 1..(m - 1) : cs[i] \in Single(Nat)
        OBVIOUS
      <4>2. Len(before) = m - 1 /\ \A i \in 1..(m - 1) : before[i] = cs[i]
        BY <4>1, SubSeqProperties
      <4> HIDE DEF before
      <4> QED BY <1>3, <4>2
    <3> HIDE DEF before
    <3> QED BY <3>1 DEF AllMade
  <2>3. OfList[c].needs = Wants(c) /\ OfList[c].makes = Names(c)
    BY <1>1, ItemOf
  <2> HIDE DEF before, so, c
  <2>4. AllMade(OfList, so) = AllMade(OfList, before) \cup AllMade(OfList, <<c>>)
    <3> DEFINE one == <<c>>
               S == Single(Nat)
    <3>1. before \in Seq(S) /\ one \in Seq(S)
      BY <1>1, <1>3
    <3>2. so = before \o one
      BY <1>3
    <3> HIDE DEF one, S
    <3>3. AllMade(OfList, before \o one) = AllMade(OfList, before) \cup AllMade(OfList, one)
      BY <3>1, MadeJoin
    <3> QED BY <3>2, <3>3 DEF one
  <2>5. AllMade(OfList, <<c>>) = Names(c)
    BY <2>3, OrderedOne
  <2> QED BY <1>2, <2>1, <2>2, <2>3, <2>4, <2>5 DEF c
<1> HIDE DEF c, o, so, before
<1>5. /\ Append(o, c) \in Seq(Groups) /\ Len(Append(o, c)) = Len(o) + 1 /\ Append(o, c)[Len(o) + 1] = c
      /\ Ordered(OfList, Append(o, c), {}) /\ AllMade(OfList, Append(o, c)) = AllMade(OfList, so)
  BY <1>1, <1>2, <1>4, AppendOrdered
<1>6. CASE ~AddsElements(c)
  <2>1. new.out = Append(o, c) /\ new.lead = 0
    BY <1>6 DEF CollapseStep, o
  <2> QED BY <1>5, <2>1 DEF InOrder, so, c
<1>7. CASE AddsElements(c) /\ ~(acc.lead # 0 /\ Joins(c, o[acc.lead]))
  <2>1. new.out = Append(o, c) /\ new.lead = Len(o) + 1
    BY <1>7 DEF CollapseStep, o
  <2> QED BY <1>5, <1>7, <2>1 DEF InOrder, so, c
<1>8. CASE AddsElements(c) /\ acc.lead # 0 /\ Joins(c, o[acc.lead])
  <2> DEFINE n == acc.lead
  <2>1. new.out = [o EXCEPT ![n] = Joined(o[n], c)] /\ new.lead = n
    BY <1>8 DEF CollapseStep, o
  <2>2. n = Len(o) /\ n \in Nat \ {0} /\ AddsElements(o[n])
    BY <1>2, <1>8 DEF InOrder, o
  <2>3. new.out \in Seq(Collapsed(Nat))
    BY DEF c
  <2> DEFINE x == new.out
  <2>4. x = Lengthened(o, c) /\ x \in Seq(Collapsed(Nat))
    BY <2>1, <2>2, <2>3 DEF Lengthened
  <2> HIDE DEF n, x, new
  <2>5. /\ x \in Seq(Groups) /\ Len(x) = n /\ AddsElements(x[n])
        /\ Ordered(OfList, x, {}) /\ AllMade(OfList, x) = AllMade(OfList, o)
    BY <1>1, <1>2, <1>4, <1>8, <2>2, <2>4, JoinedOrdered
  <2>6. Names(c) = {}
    BY <1>8, ElementsOrdered DEF AddsElements
  <2> QED BY <1>4, <2>1, <2>5, <2>6 DEF InOrder, so, c, x, new
<1> QED BY <1>6, <1>7, <1>8 DEF new, c

\* What was in order is, collapsed.
LEMMA CollapseOrdered ==
    ASSUME NEW cs \in Seq(Single(Nat)), Ordered(OfList, cs, {})
    PROVE  Collapse(cs) \in Seq(Groups) /\ Ordered(OfList, Collapse(cs), {})
<1> DEFINE n == Len(cs)
<1>1. n \in Nat /\ DOMAIN cs = 1..n
  OBVIOUS
<1>2. PICK taken : Takes(taken, cs, Nat)
  BY CollapseSteps
<1>3. \A m \in 0..n : taken[m].out \in Seq(Collapsed(Nat))
  BY <1>2 DEF Takes, Taken
<1> DEFINE T == {m \in 0..n : InOrder(taken[m], cs, m)}
<1>4. 0 \in T
  <2>1. taken[0].out = <<>> /\ taken[0].lead = 0
    BY <1>2 DEF Takes
  <2>2. SubSeq(cs, 1, 0) = <<>> /\ <<>> \in Seq(Groups) /\ Range(<<>>) = {} /\ Len(<<>>) = 0
    BY SubSeqEmpty DEF Range
  <2>3. Ordered(OfList, <<>>, {})
    BY <2>2, OrderedAll
  <2>4. InOrder(taken[0], cs, 0)
    BY <2>1, <2>2, <2>3 DEF InOrder
  <2>5. 0 \in 0..n
    BY <1>1
  <2> QED BY <2>4, <2>5
<1>5. ASSUME NEW m \in 0..(n - 1), m \in T PROVE m + 1 \in T
  <2>1. m + 1 \in 1..n /\ m + 1 \in 0..n /\ (m + 1) - 1 = m
    BY <1>1
  <2>2. taken[m + 1] = CollapseStep(taken[m], cs[m + 1])
    BY <1>2, <2>1 DEF Takes
  <2>3. InOrder(taken[m], cs, m)
    BY <1>5
  <2>4. CollapseStep(taken[m], cs[m + 1]).out \in Seq(Collapsed(Nat))
    BY <1>3, <2>1, <2>2
  <2>5. InOrder(CollapseStep(taken[m], cs[m + 1]), cs, m + 1)
    BY <2>1, <2>3, <2>4, OrderStep
  <2> QED BY <2>1, <2>2, <2>5
<1>6. InOrder(taken[n], cs, n)
  <2>1. 0..n \subseteq T
    <3> HIDE DEF T
    <3> QED BY <1>1, <1>4, <1>5, Upto
  <2> QED BY <1>1, <2>1
<1>7. Collapse(cs) = taken[n].out
  BY <1>2 DEF Takes
<1> QED BY <1>6, <1>7 DEF InOrder

\* Items are exchanged for others that need and make no more and no less.
LEMMA OrderedWithin ==
    ASSUME NEW w, NEW S, NEW a \in Seq(S), NEW s \in Seq(S), NEW t \in Seq(S), NEW b \in Seq(S),
           Ordered(w, (a \o s) \o b, {}), AllMade(w, t) = AllMade(w, s),
           \A known : Ordered(w, s, known) => Ordered(w, t, known)
    PROVE  Ordered(w, (a \o t) \o b, {}) /\ (a \o t) \o b \in Seq(S)
<1>1. a \o s \in Seq(S) /\ a \o t \in Seq(S) /\ (a \o t) \o b \in Seq(S)
  <2>1. a \o s \in Seq(S) /\ a \o t \in Seq(S)
    BY ConcatProperties
  <2> DEFINE u == a \o t
  <2>2. u \in Seq(S)
    BY <2>1
  <2> HIDE DEF u
  <2>3. u \o b \in Seq(S)
    BY <2>2, ConcatProperties
  <2> QED BY <2>1, <2>3 DEF u
<1>2. Ordered(w, a \o s, {}) /\ Ordered(w, b, {} \cup AllMade(w, a \o s))
  BY <1>1, OrderedFirst
<1>3. Ordered(w, a, {}) /\ Ordered(w, s, {} \cup AllMade(w, a))
  BY <1>2, OrderedFirst
<1>4. AllMade(w, a \o t) = AllMade(w, a \o s)
  <2>1. \A x \in Seq(S) : \A y \in Seq(S) : AllMade(w, x \o y) = AllMade(w, x) \cup AllMade(w, y)
    BY MadeJoin
  <2>2. AllMade(w, a \o s) = AllMade(w, a) \cup AllMade(w, s)
    BY <2>1
  <2>3. AllMade(w, a \o t) = AllMade(w, a) \cup AllMade(w, t)
    BY <2>1
  <2> QED BY <2>2, <2>3
<1>5. Ordered(w, a \o t, {})
  <2>1. Ordered(w, t, {} \cup AllMade(w, a))
    BY <1>3
  <2> QED BY <1>3, <2>1, OrderedJoin
<1>6. Ordered(w, (a \o t) \o b, {})
  <2>1. Ordered(w, b, {} \cup AllMade(w, a \o t))
    BY <1>2, <1>4
  <2> QED BY <1>1, <1>5, <2>1, OrderedJoin
<1> QED BY <1>1, <1>6

\* Evaluated elements refer to what they did; those deleted refer to nothing.
LEMMA EvaluatedOrdered ==
    ASSUME NEW cs \in Seq(Groups), Ordered(OfList, cs, {}),
           NEW m \in 0..(Len(cs) - 1), AddsElements(cs[m + 1]), NEW e \in Evaluated(cs[m + 1].elems), NEW new,
           \/ new = [cs EXCEPT ![m + 1].elems = e]
           \/ new = SubSeq(cs, 1, m) \o <<Purge(cs[m + 1]), [cs[m + 1] EXCEPT !.elems = e]>>
                    \o SubSeq(cs, m + 2, Len(cs))
    PROVE  new \in Seq(Groups) /\ Ordered(OfList, new, {})
<1> DEFINE c == cs[m + 1]
           d == [c EXCEPT !.elems = e]
           p == Purge(c)
           front == SubSeq(cs, 1, m)
           back == SubSeq(cs, m + 2, Len(cs))
           one == <<c>>
<1>1. c \in Groups /\ c \in Collapsed(Nat) /\ c.obj = "elements" /\ c.name \in Name /\ c.elems \in Seq(Elements)
  <2>1. c \in Groups
    OBVIOUS
  <2> HIDE DEF c
  <2>2. c \in Collapsed(Nat)
    BY <2>1, Singles
  <2> QED BY <2>1, <2>2 DEF AddsElements, Collapsed, Records, c
<1>2. d \in Groups /\ Wants(d) = Wants(c) /\ d.obj = "elements"
  <2>1. e \in Seq(Elements)
    BY <1>1, EvaluatedType
  <2> HIDE DEF c
  <2>2. d \in Collapsed(Nat) /\ d.obj = "elements" /\ d.needs = c.needs /\ d.merged = c.merged
    BY <1>1, <2>1 DEF Collapsed, Records
  <2>3. Refers(d) = Refers(c)
    BY <1>1, <2>2, ElementsOrdered
  <2> HIDE DEF d
  <2> QED BY <1>1, <2>2, <2>3 DEF Groups, Clustered, Wants
<1>3. p \in Groups /\ Wants(p) = {} /\ p.obj = "elements"
  <2>1. p \in Collapsed(Nat)
    BY <1>1, PurgeType
  <2>2. p.obj = "elements" /\ p.needs = {} /\ p.merged = <<>>
    BY DEF Purge, Cmd
  <2>3. Range(<<>>) = {}
    BY DEF Range
  <2> QED BY <2>1, <2>2, <2>3, ElementsOrdered DEF Groups, Clustered, Wants, NeedsOf
<1>4. Evaluates(new, cs, m, d, p)
  BY DEF Evaluates
<1> HIDE DEF d, p
<1>5. /\ front \in Seq(Groups) /\ back \in Seq(Groups) /\ IsEvaluated(cs, cs, m, one)
      /\ \E u \in {<<d>>, <<p, d>>} : u \in Seq(Groups) /\ IsEvaluated(new, cs, m, u)
  <2>1. Splits(Groups, new, cs, m, d, p)
    BY <1>2, <1>3, <1>4, EvaluatedSplit
  <2> QED BY <2>1 DEF Splits
<1>6. PICK u \in {<<d>>, <<p, d>>} : u \in Seq(Groups) /\ IsEvaluated(new, cs, m, u)
  BY <1>5
<1>7. one \in Seq(Groups) /\ cs = (front \o one) \o back /\ new = (front \o u) \o back
  <2>1. one \in Seq(Groups)
    BY <1>1
  <2>2. cs = (front \o one) \o back
    <3>1. IsEvaluated(cs, cs, m, one)
      BY <1>5
    <3> HIDE DEF one
    <3> QED BY ONLY <3>1 DEF IsEvaluated
  <2>3. new = (front \o u) \o back
    BY ONLY <1>6 DEF IsEvaluated
  <2> QED BY <2>1, <2>2, <2>3
<1>8. \A x \in Range(u) : x \in {p, d}
  <2>1. DOMAIN <<d>> = {1} /\ <<d>>[1] = d /\ DOMAIN <<p, d>> = {1, 2} /\ <<p, d>>[1] = p /\ <<p, d>>[2] = d
    OBVIOUS
  <2> QED BY <1>6, <2>1 DEF Range
<1>9. OfList[c].needs = Wants(c) /\ OfList[c].makes = {} /\ \A x \in {p, d} : OfList[x].needs \subseteq Wants(c) /\ OfList[x].makes = {}
  BY <1>1, <1>2, <1>3, ItemOf, ElementsOrdered
<1> HIDE DEF c
<1>10. AllMade(OfList, one) = {} /\ AllMade(OfList, u) = {} /\ \A known : Ordered(OfList, one, known) => Ordered(OfList, u, known)
  <2>1. AllMade(OfList, one) = {} /\ \A known : Ordered(OfList, one, known) <=> Wants(c) \subseteq known
    <3>1. OfList[c].needs = Wants(c) /\ OfList[c].makes = {}
      BY <1>9
    <3> QED BY ONLY <3>1, OrderedOne
  <2>2. AllMade(OfList, u) = {}
    BY <1>8, <1>9, MadeItems
  <2>3. ASSUME NEW known, Wants(c) \subseteq known PROVE Ordered(OfList, u, known)
    BY <1>8, <1>9, <2>3, OrderedAll
  <2> QED BY <2>1, <2>2, <2>3
<1> HIDE DEF one, front, back
<1>11. Ordered(OfList, (front \o u) \o back, {}) /\ (front \o u) \o back \in Seq(Groups)
  <2>1. AllMade(OfList, u) = AllMade(OfList, one) /\ Ordered(OfList, (front \o one) \o back, {})
    BY <1>7, <1>10
  <2> QED BY <1>5, <1>6, <1>7, <1>10, <2>1, OrderedWithin, ZenonT(40)
<1> QED BY <1>7, <1>11

\* The messages of a command need what it needs, and make what it makes.
LEMMA MessagesNeed ==
    ASSUME NEW c \in Single(Nat)
    PROVE  /\ \A k \in DOMAIN Messages(c) : Messages(c)[k].needs = c.needs /\ Makes(Messages(c)[k]) = Makes(c)
           /\ DOMAIN Messages(c) = {} => Makes(c) = {}
<1>1. CASE ~IsMessage(c)
  <2>1. Messages(c) = <<>>
    BY <1>1 DEF Messages
  <2>2. Makes(c) = {}
    BY <1>1 DEF IsMessage, Makes
  <2> QED BY <2>1, <2>2
<1>2. CASE IsMessage(c) /\ c.obj = "elements"
  <2>1. Messages(c) = ElemMessages(c) /\ DOMAIN ElemMessages(c) = DOMAIN Chunks(c.elems)
    BY <1>2 DEF Messages, ElemMessages
  <2>2. ASSUME NEW k \in DOMAIN Chunks(c.elems)
        PROVE  ElemMessages(c)[k].needs = c.needs /\ ElemMessages(c)[k].obj = c.obj
    BY DEF ElemMessages, Message
  <2>3. \A m : m.obj = "elements" => Makes(m) = {}
    BY DEF Makes
  <2> QED BY <1>2, <2>1, <2>2, <2>3
<1>3. CASE IsMessage(c) /\ c.obj # "elements"
  <2> DEFINE m == Message(c, Located(c))
  <2>1. m.needs = c.needs /\ m.op = c.op /\ m.obj = c.obj /\ m.name = c.name
    BY DEF Message
  <2>2. Messages(c) = <<m>>
    BY <1>3 DEF Messages
  <2> HIDE DEF m
  <2>3. DOMAIN <<m>> = {1} /\ <<m>>[1] = m
    OBVIOUS
  <2>4. Makes(m) = Makes(c)
    BY <2>1 DEF Makes
  <2> QED BY <2>1, <2>2, <2>3, <2>4
<1> QED BY <1>1, <1>2, <1>3

\* Every message of a batch finds what it refers to.
Resolves(b) == \A n \in DOMAIN b : b[n].msg.needs \subseteq UNION {Makes(b[k].msg) : k \in 1..(n - 1)}

\* It does if every command of the list does.
LEMMA BatchResolves ==
    ASSUME cmds \in Seq(Single(Nat)), Ordered(OfCommand, cmds, {})
    PROVE  Resolves(FlattenSeq([n \in DOMAIN cmds |-> Numbered(n)]))
<1> DEFINE A == DOMAIN cmds
           B == UNION {Range(Numbered(n)) : n \in A}
           f == [n \in A |-> Numbered(n)]
           w == [n \in A |-> [needs |-> cmds[n].needs, makes |-> Makes(cmds[n])]]
           v == [x \in B |-> [needs |-> x.msg.needs, makes |-> Makes(x.msg)]]
           all == FlattenSeq(f)
<1>1. A = 1..Len(cmds) /\ Len(cmds) \in Nat /\ \A n \in A : cmds[n] \in Single(Nat)
  OBVIOUS
<1>2. ASSUME NEW n \in A
      PROVE  /\ Numbered(n) \in Seq(B) /\ DOMAIN Numbered(n) = DOMAIN Messages(cmds[n])
             /\ \A k \in DOMAIN Numbered(n) : Numbered(n)[k].msg = Messages(cmds[n])[k] /\ Numbered(n)[k] \in B
  <2> DEFINE own == Messages(cmds[n])
             s == [k \in DOMAIN own |-> [msg |-> own[k], seq |-> n]]
  <2>1. DOMAIN own = 1..Len(own) /\ IsSeq(own)
    BY <1>1, MessagesType
  <2>2. Len(own) \in Nat
    BY <2>1 DEF IsSeq
  <2>3. Numbered(n) = s
    BY DEF Numbered
  <2>4. \A k \in DOMAIN own : s[k] \in Range(Numbered(n)) /\ s[k].msg = own[k]
    BY <2>3 DEF Range
  <2>5. \A k \in DOMAIN own : s[k] \in B
    BY <2>4
  <2>6. s \in [1..Len(own) -> B]
    <3>1. DOMAIN s = 1..Len(own) /\ s = [k \in DOMAIN own |-> s[k]]
      BY <2>1
    <3> HIDE DEF s, B
    <3> QED BY <2>1, <2>5, <3>1
  <2>7. s \in Seq(B)
    <3> HIDE DEF s, B, own
    <3> QED BY <2>2, <2>6, MadeSeq
  <2>8. DOMAIN s = DOMAIN own
    OBVIOUS
  <2> HIDE DEF s, B
  <2> QED BY <2>3, <2>4, <2>5, <2>7, <2>8
<1>3. f \in [A -> Seq(B)] /\ \A n \in A : f[n] = Numbered(n)
  <2> HIDE DEF A, B
  <2> QED BY <1>2
<1>4. ASSUME NEW n \in A PROVE Ordered(v, f[n], w[n].needs) /\ AllMade(v, f[n]) = w[n].makes
  <2> DEFINE s == Numbered(n)
  <2>1. w[n].needs = cmds[n].needs /\ w[n].makes = Makes(cmds[n])
    OBVIOUS
  <2>2. \A x \in B : v[x].needs = x.msg.needs /\ v[x].makes = Makes(x.msg)
    OBVIOUS
  <2> HIDE DEF v, w, B
  <2>3. \A x \in Range(s) : x \in B /\ v[x].needs = cmds[n].needs /\ v[x].makes = Makes(cmds[n])
    <3>1. ASSUME NEW k \in DOMAIN s PROVE s[k] \in B /\ v[s[k]].needs = cmds[n].needs /\ v[s[k]].makes = Makes(cmds[n])
      <4>1. cmds[n] \in Single(Nat) /\ k \in DOMAIN Messages(cmds[n]) /\ s[k] \in B /\ s[k].msg = Messages(cmds[n])[k]
        BY <1>1, <1>2
      <4>2. Messages(cmds[n])[k].needs = cmds[n].needs /\ Makes(Messages(cmds[n])[k]) = Makes(cmds[n])
        BY <4>1, MessagesNeed
      <4> HIDE DEF s
      <4> QED BY <2>2, <4>1, <4>2
    <3> QED BY <3>1 DEF Range
  <2>4. Range(s) = {} => Makes(cmds[n]) = {}
    <3>1. Range(s) = {} => DOMAIN s = {}
      BY DEF Range
    <3> QED BY <1>1, <1>2, <3>1, MessagesNeed
  <2> HIDE DEF s
  <2>5. Ordered(v, s, w[n].needs)
    BY <2>1, <2>3, OrderedAll
  <2>6. AllMade(v, s) = w[n].makes
    <3>1. AllMade(v, s) = UNION {v[x].makes : x \in Range(s)}
      BY MadeItems
    <3>2. UNION {v[x].makes : x \in Range(s)} = UNION {Makes(cmds[n]) : x \in Range(s)}
      BY <2>3
    <3> QED BY <2>1, <2>4, <3>1, <3>2
  <2> QED BY <1>3, <2>5, <2>6 DEF s
<1> DEFINE places == [n \in A |-> n]
<1>5. places \in Seq(A) /\ DOMAIN places = A /\ \A n \in A : places[n] = n
  <2>1. places \in [1..Len(cmds) -> A]
    BY <1>1
  <2>2. places \in Seq(A)
    <3> HIDE DEF places, A
    <3> QED BY <1>1, <2>1, MadeSeq
  <2> QED BY <2>2
<1>6. Ordered(w, places, {})
  <2>1. \A n \in A : w[n].needs = OfCommand[cmds[n]].needs /\ w[n].makes = OfCommand[cmds[n]].makes
    <3>1. \A n \in A : w[n].needs = cmds[n].needs /\ w[n].makes = Makes(cmds[n])
      OBVIOUS
    <3> HIDE DEF w
    <3> QED BY <1>1, <3>1, ItemOf
  <2>2. \A n \in A : \A k \in 1..(n - 1) : k \in A
    BY <1>1
  <2> HIDE DEF w, places
  <2>3. ASSUME NEW n \in A, NEW x \in w[places[n]].needs
        PROVE  \E k \in 1..(n - 1) : x \in w[places[k]].makes
    <3>1. x \in OfCommand[cmds[n]].needs
      BY <1>5, <2>1, <2>3
    <3>2. PICK k \in 1..(n - 1) : x \in OfCommand[cmds[k]].makes
      BY <3>1, OrderedNames
    <3>3. k \in A /\ places[k] = k /\ w[k].makes = OfCommand[cmds[k]].makes
      BY <1>5, <2>1, <2>2
    <3> QED BY <3>2, <3>3
  <2> QED BY <1>5, <2>3, OrderedNames
<1>7. FlatMap(f, places) = all
  <2>1. [n \in DOMAIN places |-> f[places[n]]] = f
    BY <1>5
  <2> HIDE DEF f, places
  <2> QED BY <2>1 DEF FlatMap, Pieces
<1> HIDE DEF f, v, w, places, A, B
<1>8. Ordered(v, FlatMap(f, places), {})
  BY <1>3, <1>4, <1>5, <1>6, OrderedFlat
<1>9. FlatMap(f, places) \in Seq(B)
  BY <1>3, <1>5, FlatParts
<1> HIDE DEF all
<1>10. Ordered(v, all, {}) /\ all \in Seq(B)
  BY <1>7, <1>8, <1>9
<1>11. \A n \in DOMAIN all : v[all[n]].needs = all[n].msg.needs /\ v[all[n]].makes = Makes(all[n].msg)
  <2>1. \A n \in DOMAIN all : all[n] \in B
    BY <1>10
  <2> QED BY <2>1 DEF v
<1>12. \A n \in DOMAIN all : \A k \in 1..(n - 1) : k \in DOMAIN all
  BY <1>10
<1>13. Resolves(all)
  <2>1. ASSUME NEW n \in DOMAIN all, NEW x \in all[n].msg.needs PROVE \E k \in 1..(n - 1) : x \in Makes(all[k].msg)
    <3>1. x \in v[all[n]].needs
      BY <1>11, <2>1
    <3>2. PICK k \in 1..(n - 1) : x \in v[all[k]].makes
      BY <1>10, <3>1, OrderedNames
    <3> QED BY <1>11, <1>12, <3>2
  <2> QED BY <2>1 DEF Resolves
<1> QED BY <1>13 DEF all, f, A

\* Numbering a command changes neither what it refers to nor what it makes.
LEMMA NumberedSame ==
    ASSUME NEW c \in Single({0}), NEW n \in Nat
    PROVE  /\ [c EXCEPT !.id = n] \in Single(Nat) /\ c \in Single(Nat)
           /\ Refers([c EXCEPT !.id = n]) = Refers(c) /\ Names([c EXCEPT !.id = n]) = Names(c)
<1> DEFINE d == [c EXCEPT !.id = n]
           c1 == [c EXCEPT !.body = <<>>]
           d1 == [d EXCEPT !.body = <<>>]
           rest == IF c.obj = "table" THEN FlattenSeq([k \in DOMAIN Kinds |-> OfKind(c.body, Kinds[k])]) ELSE c.body
<1>1. c \in Single(Nat) /\ d \in Single(Nat)
  BY DEF Single, Records
<1>2. d.op = c.op /\ d.obj = c.obj /\ d.name = c.name /\ d.needs = c.needs /\ d.body = c.body
  BY DEF Single, Records
<1>3. c1.op = c.op /\ c1.obj = c.obj /\ c1.name = c.name
  BY <1>1 DEF Single, Records
<1> HIDE DEF d
<1>4. d1.op = c.op /\ d1.obj = c.obj /\ d1.name = c.name
  BY <1>1, <1>2 DEF Single, Records
<1>5. Makes(d) = Makes(c) /\ Makes(c1) = Makes(c) /\ Makes(d1) = Makes(c)
  BY <1>2, <1>3, <1>4 DEF Makes
<1>6. Refers(d) = Refers(c)
  BY <1>2, <1>5 DEF Refers
<1>7. Names(d) = Names(c)
  <2>1. CASE c.op # "add" \/ c.obj \notin {"table", "set"}
    <3>1. Expand(c) = <<c>> /\ Expand(d) = <<d>>
      BY <1>2, <2>1 DEF Expand
    <3>2. Range(<<c>>) = {c} /\ Range(<<d>>) = {d}
      BY OneSeq
    <3> QED BY <1>5, <3>1, <3>2 DEF Names, MadeBy
  <2>2. CASE c.op = "add" /\ c.obj \in {"table", "set"}
    <3>1. Expand(c) = <<c1>> \o rest /\ Expand(d) = <<d1>> \o rest
      BY <1>2, <2>2 DEF Expand
    <3>2. rest \in Seq(Single(Nat))
      <4>1. c.body \in Seq(Declarations)
        BY <1>1 DEF Single, Records
      <4>2. CASE c.obj = "table"
        <5> DEFINE parts == [k \in DOMAIN Kinds |-> OfKind(c.body, Kinds[k])]
        <5>1. DOMAIN Kinds = 1..5
          BY DEF Kinds
        <5>2. \A k \in DOMAIN Kinds : OfKind(c.body, Kinds[k]) \in Seq(Single(Nat))
          BY <4>1, KindOrdered
        <5>3. parts \in Seq(Seq(Single(Nat)))
          BY <5>1, <5>2, MadeSeq
        <5> QED BY <4>2, <5>3, FlattenType
      <4>3. CASE c.obj # "table"
        BY <4>1, <4>3, Singles, Wider
      <4> QED BY <4>2, <4>3
    <3> HIDE DEF rest, c1, d1
    <3>3. Range(<<c1>> \o rest) = {c1} \cup Range(rest) /\ Range(<<d1>> \o rest) = {d1} \cup Range(rest)
      <4>1. IsSeq(rest)
        BY <3>2, AnySeq
      <4>2. \A x : Range(<<x>> \o rest) = {x} \cup Range(rest)
        <5> SUFFICES ASSUME NEW x PROVE Range(<<x>> \o rest) = {x} \cup Range(rest)
          OBVIOUS
        <5> DEFINE one == <<x>>
        <5>1. IsSeq(one) /\ Range(one) = {x}
          BY OneSeq
        <5> HIDE DEF one
        <5>2. Range(one \o rest) = Range(one) \cup Range(rest)
          BY <4>1, <5>1, JoinedSeq
        <5> QED BY <5>1, <5>2 DEF one
      <4> QED BY <4>2
    <3>4. Names(c) = Makes(c1) \cup MadeBy(Range(rest)) /\ Names(d) = Makes(d1) \cup MadeBy(Range(rest))
      BY <3>1, <3>3 DEF Names, MadeBy
    <3> QED BY <1>5, <3>4
  <2> QED BY <2>1, <2>2
<1> QED BY <1>1, <1>6, <1>7 DEF d

\* The input is in order.
LEMMA InputOrdered ==
    ASSUME ReferencesGiven, NEW i \in Inputs, NEW s, s = [n \in DOMAIN i |-> [i[n] EXCEPT !.id = n]]
    PROVE  Ordered(OfList, s, {})
<1>1. DOMAIN i = 1..Len(i) /\ Len(i) \in Nat /\ DOMAIN s = DOMAIN i /\ \A n \in DOMAIN i : i[n] \in Single({0}) /\ n \in Nat
  <2>1. i \in Seq(Single({0}))
    BY InputAssumption
  <2> QED BY <2>1
<1>2. ASSUME NEW n \in DOMAIN i PROVE OfList[s[n]].needs = Refers(i[n]) /\ OfList[s[n]].makes = MadeBy(Range(Expand(i[n])))
  <2> DEFINE c == i[n]
  <2>1. s[n] = [c EXCEPT !.id = n] /\ c \in Single({0}) /\ n \in Nat
    BY <1>1
  <2> HIDE DEF c
  <2>2. s[n] \in Single(Nat) /\ Refers(s[n]) = Refers(c) /\ Names(s[n]) = Names(c)
    BY <2>1, NumberedSame
  <2>3. OfList[s[n]].needs = Refers(c) /\ OfList[s[n]].makes = Names(c)
    BY <2>2, ItemOf
  <2> QED BY <2>3 DEF c, Names
<1>3. ASSUME NEW n \in DOMAIN s, NEW x \in OfList[s[n]].needs PROVE \E k \in 1..(n - 1) : x \in OfList[s[k]].makes
  <2>1. Refers(i[n]) \subseteq UNION {MadeBy(Range(Expand(i[k]))) : k \in 1..(n - 1)}
    BY <1>1 DEF ReferencesGiven
  <2>2. PICK k \in 1..(n - 1) : x \in MadeBy(Range(Expand(i[k])))
    BY <1>1, <1>2, <1>3, <2>1
  <2>3. k \in DOMAIN i
    BY <1>1, <1>3
  <2> QED BY <1>2, <2>2, <2>3
<1> QED BY <1>3, OrderedNames

\* The list is in order, before and after it is expanded, and so is the batch.
References ==
    /\ pc \in Loading \cup {"collapse"} => Ordered(OfList, cmds, {})
    /\ pc \in {"eval", "uncollapse"} => cmds \in Seq(Groups) /\ Ordered(OfList, cmds, {})
    /\ pc \in {"send", "kernel"} => Ordered(OfCommand, cmds, {})
    /\ pc = "kernel" => Resolves(batch)

\* Every message finds what it refers to, if the input has it at all.
THEOREM ReferencesComeFirst == ReferencesGiven => (Spec => []ReferencesFirst)
<1> SUFFICES ASSUME ReferencesGiven PROVE Spec => []ReferencesFirst
  OBVIOUS
<1>1. Init => References
  BY DEF Init, References, Loading
<1>2. Lists /\ References /\ [Next]_vars => References'
  <2> SUFFICES ASSUME Lists, References, [Next]_vars PROVE References'
    OBVIOUS
  <2> DEFINE Ids == 0..Len(input)
  <2>t. Ids \subseteq Nat
    BY DEF Lists
  <2>w. Seq(Single(Ids)) \subseteq Seq(Single(Nat))
    <3> HIDE DEF Ids
    <3> QED BY <2>t, IdsWider
  <2> USE DEF Loading
  <2>1. CASE Begin
    <3>1. PICK i \in Inputs : cmds' = [n \in DOMAIN i |-> [i[n] EXCEPT !.id = n]]
      BY <2>1 DEF Begin
    <3>2. Ordered(OfList, cmds', {})
      BY <3>1, InputOrdered
    <3>3. pc' = "genid"
      BY <2>1 DEF Begin
    <3> QED BY <3>2, <3>3 DEF References
  <2>2. CASE Genid \/ Dump \/ GenidStop
    <3>1. UNCHANGED cmds /\ pc \in Loading /\ pc' \in Loading \cup {"collapse", "finish"}
      BY <2>2 DEF Genid, Dump, GenidStop, GenidGet, Fail, list
    <3> QED BY <3>1 DEF References
  <2>3. CASE CollapseAll
    <3>1. pc = "collapse" /\ cmds' = Collapse(cmds) /\ pc' = "eval"
      BY <2>3 DEF CollapseAll
    <3>2. cmds \in Seq(Single(Nat))
      BY <2>w, <3>1 DEF Lists
    <3>3. Ordered(OfList, cmds, {})
      BY <3>1 DEF References
    <3>4. cmds' \in Seq(Groups) /\ Ordered(OfList, cmds', {})
      BY <3>1, <3>2, <3>3, CollapseOrdered
    <3> QED BY <3>1, <3>4 DEF References
  <2>4. CASE Evaluate
    <3> DEFINE c == cmds[at + 1]
    <3>1. pc = "eval" /\ pc' = "eval" /\ at < Len(cmds)
      BY <2>4 DEF Evaluate
    <3>2. cmds \in Seq(Groups) /\ Ordered(OfList, cmds, {})
      BY <3>1 DEF References
    <3>3. at \in 0..(Len(cmds) - 1)
      <4>1. at \in 0..Len(cmds)
        BY <3>1 DEF Lists
      <4> QED BY <3>1, <3>2, <4>1
    <3>4. CASE AddsElements(c)
      <4>1. PICK elems \in Evaluated(c.elems) :
               \/ cmds' = [cmds EXCEPT ![at + 1].elems = elems]
               \/ cmds' = SubSeq(cmds, 1, at) \o <<Purge(c), [c EXCEPT !.elems = elems]>>
                          \o SubSeq(cmds, at + 2, Len(cmds))
        BY <2>4, <3>4 DEF Evaluate
      <4>2. cmds' \in Seq(Groups) /\ Ordered(OfList, cmds', {})
        BY <3>2, <3>3, <3>4, <4>1, EvaluatedOrdered
      <4> QED BY <3>1, <4>2 DEF References
    <3>5. CASE ~AddsElements(c)
      <4>1. cmds' = cmds
        BY <2>4, <3>5 DEF Evaluate
      <4> QED BY <3>1, <3>2, <4>1 DEF References
    <3> QED BY <3>4, <3>5
  <2>5. CASE EvaluateFails
    <3>1. pc = "eval" /\ pc' \in {"eval", "uncollapse"} /\ UNCHANGED cmds
      BY <2>5 DEF EvaluateFails
    <3> QED BY <3>1 DEF References
  <2>6. CASE UncollapseAll
    <3>1. /\ pc \in {"eval", "uncollapse"}
          /\ \/ pc' = "send" /\ cmds' = ExpandAll(Uncollapse(cmds))
             \/ pc' = "finish"
      BY <2>6 DEF UncollapseAll, Fail
    <3>2. CASE pc' = "send" /\ cmds' = ExpandAll(Uncollapse(cmds))
      <4>1. cmds \in Seq(Groups) /\ Ordered(OfList, cmds, {})
        BY <3>1 DEF References
      <4>2. Ordered(OfCommand, Sends(cmds), {})
        BY <4>1, SendsOrdered
      <4>3. Ordered(OfCommand, cmds', {})
        BY <3>2, <4>2 DEF Sends
      <4> QED BY <3>2, <4>3 DEF References
    <3>3. CASE pc' = "finish"
      BY <3>3 DEF References
    <3> QED BY <3>1, <3>2, <3>3
  <2>7. CASE Send
    <3>1. /\ pc = "send" /\ UNCHANGED cmds /\ pc' \in {"kernel", "finish"}
          /\ batch' = FlattenSeq([n \in DOMAIN cmds |-> Numbered(n)])
      BY <2>7 DEF Send, list
    <3>2. cmds \in Seq(Single(Nat)) /\ Ordered(OfCommand, cmds, {})
      BY <2>w, <3>1 DEF Lists, References
    <3>3. Resolves(FlattenSeq([n \in DOMAIN cmds |-> Numbered(n)]))
      BY <3>2, BatchResolves
    <3>4. Resolves(batch')
      BY <3>1, <3>3
    <3> QED BY <3>1, <3>2, <3>4 DEF References, Resolves
  <2>8. CASE KernelTakes \/ KernelRefuses \/ Receive \/ ReceiveFails \/ Signal \/ AllReceived \/ Attribute \/ AllAttributed \/ SendFails \/ Finish
    <3>1. pc' \in {"receive", "attribute", "finish", "idle"}
      BY <2>8 DEF KernelTakes, KernelRefuses, Receive, ReceiveFails, Signal, AllReceived, Attribute, AllAttributed, SendFails, Finish, Fail
    <3> QED BY <3>1 DEF References
  <2>9. CASE UNCHANGED vars
    <3>1. UNCHANGED <<pc, cmds, batch>>
      BY <2>9 DEF vars, list
    <3> QED BY <3>1 DEF References, Resolves
  <2> QED BY <2>1, <2>2, <2>3, <2>4, <2>5, <2>6, <2>7, <2>8, <2>9 DEF Next
<1>3. References => ReferencesFirst
  BY DEF References, Resolves, ReferencesFirst, Unresolved
<1>4. Spec => []Lists
  BY ListsAlways
<1> QED BY <1>1, <1>2, <1>3, <1>4, PTL DEF Spec

=============================================================================
