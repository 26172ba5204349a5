------------------------------ MODULE Intervals ------------------------------
(***************************************************************************)
(* An interval set while commands add elements to it and delete elements   *)
(* from it (src/intervals.c).  The kernel holds the ends of the intervals. *)
(* nft keeps a copy of the intervals, works out with it what to ask the    *)
(* kernel for, and changes the copy as if the kernel had done so already:  *)
(* the commands of a batch are all evaluated before the batch is sent.     *)
(* With auto-merge, elements that overlap or touch are merged and parts of *)
(* elements can be deleted: the elements changed are deleted (purged), the *)
(* new ones added.                                                         *)
(*                                                                         *)
(* Here the kernel does at once what the batch will ask it for.  A command *)
(* that fails, or that the kernel refuses, ends the run and nft drops its  *)
(* copy; another run loads it again.                                       *)
(***************************************************************************)
EXTENDS IntervalEnds, Sequences, FiniteSets, SequencesExt

CONSTANTS
    Stored,      \* what the set may hold at the start: sets of spans
    Given,       \* the elements a command may name: sequences of spans
    MaxCommands  \* bound: commands

ASSUME StoredAssumption ==
    \A S \in Stored : S \subseteq Spans /\ \A r, s \in S : r = s \/ r.hi < s.lo \/ s.hi < r.lo

ASSUME GivenAssumption == Given \subseteq Seq(Spans)

ASSUME BoundAssumption == MaxCommands \in Nat

VARIABLES
    automerge,  \* the set was declared with auto-merge
    ends,       \* the elements in the kernel: [key, end]
    cached,     \* nft's copy: existing_set->init
    bare,       \* the copy was loaded from a set without elements
    status,     \* "open", an "error" of nft, or "refused" by the kernel
    last,       \* the last command: its operation and elements
    n           \* commands so far

vars == <<automerge, ends, cached, bare, status, last, n>>

\* An expression in a list of elements; "kernel" is EXPR_F_KERNEL.
Elem(s, k) == [lo |-> s.lo, hi |-> s.hi, kernel |-> k]
Span(e) == [lo |-> e.lo, hi |-> e.hi]
Elems(spans, k) == [i \in DOMAIN spans |-> Elem(spans[i], k)]
SpansOf(list) == {Span(list[i]) : i \in DOMAIN list}

-----------------------------------------------------------------------------
(***************************************************************************)
(* src/mergesort.c, as the order that comes out.                           *)
(***************************************************************************)
\* The list in an order of its places, given as pairs of them.
Arranged(list, before) ==
    LET Earlier(i) == {j \in DOMAIN list : <<j, i>> \in before}
    IN  [k \in DOMAIN list |->
            list[CHOOSE i \in DOMAIN list : Cardinality(Earlier(i)) = k - 1]]

\* Of elements that start alike, the later one comes first.
ExprSort(list) ==
    LET Before(i, j) == list[i].lo < list[j].lo \/ (list[i].lo = list[j].lo /\ i > j)
    IN  Arranged(list, {p \in (DOMAIN list) \X (DOMAIN list) : Before(p[1], p[2])})

\* Merges a list into another, which is sorted: an element of this one is
\* left behind as soon as one of the list starts no earlier.
SpliceSorted(list, head) ==
    LET len == Len(list)
        all == list \o head
        Behind(h, l) == \E m \in 1..l : all[h].lo <= all[m].lo
        Before(i, j) == IF i <= len /\ len < j THEN ~Behind(j, i)
                        ELSE IF j <= len /\ len < i THEN Behind(i, j)
                        ELSE i < j
    IN  Arranged(all, {p \in (DOMAIN all) \X (DOMAIN all) : Before(p[1], p[2])})

-----------------------------------------------------------------------------
\* The first elements of a set come with an end at zero, unless the first
\* one starts there.
FirstSegment(S) == {End(0) : s \in {r \in S : bare /\ \A q \in S : 0 < q.lo}}

Loaded(E) ==
    LET S == Decompose(E)
        Earlier(s) == {r \in S : r.lo < s.lo}
    IN  [i \in 1..Cardinality(S) |-> Elem(CHOOSE s \in S : Cardinality(Earlier(s)) = i - 1, TRUE)]

-----------------------------------------------------------------------------
(***************************************************************************)
(* setelem_automerge: goes through the list and merges every element with  *)
(* the one before where it overlaps or touches it.  low and high are those *)
(* of the element before, which is the last one kept so far.               *)
(***************************************************************************)
\* Variant: elements the kernel does not have yet are deleted, too.
PurgedAll(st, e) == [st EXCEPT !.purge = @ \cup {Span(e)}]

Purged(st, e) == [st EXCEPT !.purge = @ \cup {x \in {Span(e)} : e.kernel}]

Kept(st, e) == [kept |-> Append(st.kept, e), purge |-> st.purge, low |-> e.lo, high |-> e.hi]

Merged(st, e) ==
    LET prev == Last(st.kept)
        one == IF prev.kernel THEN [e EXCEPT !.lo = prev.lo] ELSE [prev EXCEPT !.hi = e.hi]
        gone == IF prev.kernel THEN prev ELSE e
    IN  [kept |-> Append(Front(st.kept), one), purge |-> Purged(st, gone).purge,
         low |-> st.low, high |-> e.hi]

\* Variant: elements that touch are left apart.
TouchesNot(st, e) == e.lo <= st.high

Touches(st, e) == e.lo <= st.high + 1

MergeStep(st, e) ==
    IF st.kept = <<>> THEN Kept(st, e)
    ELSE IF st.low <= e.lo /\ e.hi <= st.high THEN Purged(st, e)
    ELSE IF Touches(st, e) THEN Merged(st, e)
    ELSE Kept(st, e)

NoneMerged == [kept |-> <<>>, purge |-> {}, low |-> 0, high |-> 0]

Automerge(list) ==
    LET merged[k \in 0..Len(list)] ==
            IF k = 0 THEN NoneMerged ELSE MergeStep(merged[k - 1], list[k])
    IN  merged[Len(list)]

\* Variant: an element that starts in the one before may end behind it.
OverlapInside(list) ==
    \E i \in 1..(Len(list) - 1) :
        Span(list[i]) # Span(list[i + 1]) /\ list[i + 1].hi <= list[i].hi

\* setelem_overlap: compares every element with the one before.
Overlap(list) ==
    \E i \in 1..(Len(list) - 1) :
        Span(list[i]) # Span(list[i + 1]) /\ list[i + 1].lo <= list[i].hi

-----------------------------------------------------------------------------
(***************************************************************************)
(* setelem_delete, for one element to remove: it is looked for behind the  *)
(* elements that start no later.  The last of these has to be equal or, if *)
(* parts can be removed, to contain it.  What is left of an element is put *)
(* at the head of the list, or at its tail.                                *)
(***************************************************************************)
\* Variant: what is left on the right starts where the removed part ends.
LeftOnRightOffByOne(e, r) ==
    IF r.hi < e.hi THEN <<Elem([lo |-> r.hi, hi |-> e.hi], FALSE)>> ELSE <<>>

LeftOnRight(e, r) ==
    IF r.hi < e.hi THEN <<Elem([lo |-> r.hi + 1, hi |-> e.hi], FALSE)>> ELSE <<>>

LeftOnLeft(e, r) ==
    IF e.lo < r.lo THEN <<Elem([lo |-> e.lo, hi |-> r.lo - 1], FALSE)>> ELSE <<>>

Without(list, i, r) ==
    LET left == LeftOnLeft(list[i], r)
        right == LeftOnRight(list[i], r)
    IN  IF left = <<>> THEN right \o RemoveAt(list, i) ELSE left \o RemoveAt(list, i) \o right

DeleteStep(st, r) ==
    LET list == ExprSort(st.list)
        i == Cardinality({j \in DOMAIN list : list[j].lo <= r.lo})
        exact == i > 0 /\ Span(list[i]) = r
        part == i > 0 /\ ~exact /\ automerge /\ r.hi <= list[i].hi
    IN  IF st.failed \/ ~(exact \/ part) THEN [st EXCEPT !.failed = TRUE]
        ELSE [list |-> IF exact /\ ~list[i].kernel THEN list ELSE Without(list, i, r),
              purge |-> Purged(st, list[i]).purge, parted |-> st.parted \/ part, failed |-> FALSE]

NoneDeleted == [list |-> cached, purge |-> {}, parted |-> FALSE, failed |-> FALSE]

DeleteAll(spans) ==
    LET deleted[k \in 0..Len(spans)] ==
            IF k = 0 THEN NoneDeleted ELSE DeleteStep(deleted[k - 1], spans[k])
    IN  deleted[Len(spans)]

-----------------------------------------------------------------------------
(***************************************************************************)
(* The kernel: elements to delete have to be there, elements to add must   *)
(* not overlap with others or with each other, but may be there already.   *)
(***************************************************************************)
AddRefused(E, S) ==
    \E s \in S : \E r \in Decompose(E) \cup S : r # s /\ r.lo <= s.hi /\ s.lo <= r.hi

Refused(purge, add) == ~(Ends(purge) \subseteq ends) \/ AddRefused(ends \ Ends(purge), add)

Send(purge, add, list) ==
    IF Refused(purge, add)
    THEN status' = "refused" /\ cached' = <<>> /\ UNCHANGED ends
    ELSE /\ ends' = (ends \ Ends(purge)) \cup Ends(add) \cup FirstSegment(add)
         /\ cached' = [i \in DOMAIN list |-> Elem(list[i], TRUE)]
         /\ UNCHANGED status

Fail == status' = "error" /\ cached' = <<>> /\ UNCHANGED ends

Command(op, given) ==
    /\ status = "open" /\ n < MaxCommands
    /\ n' = n + 1
    /\ last' = [op |-> op, given |-> {given[i] : i \in DOMAIN given}]
    /\ UNCHANGED <<automerge, bare>>

NewOnes(list) == {Span(e) : e \in {list[i] : i \in {j \in DOMAIN list : ~list[j].kernel}}}

\* set_sort_splice: the new elements with those in the copy.
SortSplice(given) == SpliceSorted(cached, ExprSort(Elems(given, FALSE)))

\* set_automerge: a command that deletes what is purged goes first.
AddMerging(given) ==
    /\ automerge /\ Command("add", given)
    /\ LET st == Automerge(SortSplice(given)) IN Send(st.purge, NewOnes(st.kept), st.kept)

\* set_overlap
AddApart(given) ==
    /\ ~automerge /\ Command("add", given)
    /\ LET list == SortSplice(given) IN
       IF Overlap(list) THEN Fail ELSE Send({}, NewOnes(list), list)

(***************************************************************************)
(* set_delete: a command that adds what is left goes last.  When a part    *)
(* was removed, the flags of the element given are read after it was       *)
(* freed, and still say, or not, that it is to be removed: then it does    *)
(* not exist.                                                              *)
(***************************************************************************)
DeleteOnes(given) ==
    LET sorted == Automerge(ExprSort(Elems(given, FALSE))).kept
    IN  IF automerge THEN [i \in DOMAIN sorted |-> Span(sorted[i])] ELSE given

Delete(given) ==
    /\ Command("delete", given)
    /\ LET st == DeleteAll(DeleteOnes(given)) IN
       \/ (st.failed \/ st.parted) /\ Fail
       \/ ~st.failed /\ Send(st.purge, NewOnes(st.list), st.list)

\* The next run loads the set again.
Load ==
    /\ status' = "open"
    /\ cached' = Loaded(ends) /\ bare' = (ends = {})
    /\ UNCHANGED <<automerge, ends, last, n>>

Init ==
    /\ automerge \in BOOLEAN
    /\ \E S \in Stored : ends = Ends(S)
    /\ cached = Loaded(ends) /\ bare = (ends = {})
    /\ status = "open" /\ last = [op |-> "none", given |-> {}] /\ n = 0

Next ==
    \/ \E given \in Given : AddMerging(given) \/ AddApart(given) \/ Delete(given)
    \/ Load

Spec == Init /\ [][Next]_vars

-----------------------------------------------------------------------------
\* An element of the copy has the flag EXPR_F_KERNEL.
TypeInv ==
    /\ automerge \in BOOLEAN /\ bare \in BOOLEAN
    /\ ends \in SUBSET [key : Int, end : BOOLEAN]
    /\ cached \in Seq([lo : Int, hi : Int, kernel : {TRUE}])
    /\ status \in {"open", "error", "refused"}
    /\ last \in [op : {"none", "add", "delete"}, given : SUBSET Spans]
    /\ n \in 0..MaxCommands

Points(S) == UNION {s.lo..s.hi : s \in S}
Held == Decompose(ends)

\* No two intervals overlap; with auto-merge, none touch.
Apart(S) ==
    \A r, s \in S : r = s \/ (r.hi < s.lo /\ (automerge => r.hi + 1 < s.lo))
                            \/ (s.hi < r.lo /\ (automerge => s.hi + 1 < r.lo))

\* The elements in the kernel are the ends of intervals, but for one at zero.
Whole == ends \ {End(0)} = Ends(Held)

\* The copy is what the kernel holds, in order, each element once.
Known == SpansOf(cached) = Held
InOrder == \A i \in 1..(Len(cached) - 1) : cached[i].lo <= cached[i + 1].lo
Faithful ==
    Whole /\ Known /\ InOrder /\ Len(cached) = Cardinality(Held) /\ Apart(Held)

Commanded(op) == n' = n + 1 /\ last'.op = op

\* set_automerge, set_overlap: after an add the kernel holds the keys it held
\* and those of the command, no others, in intervals that are merged if they
\* are to be; and the copy says so, but may say twice what is added again.
AddsExactly ==
    [][Commanded("add") /\ Faithful /\ status' = "open"
        => /\ Points(Held') = Points(Held) \cup Points(last'.given)
           /\ Whole' /\ Known' /\ InOrder' /\ Apart(Held)'
           /\ automerge => Faithful']_vars

\* set_delete: after a delete the kernel holds the keys it held without those
\* of the command; and the copy has all that is left, in any order.
DeletesExactly ==
    [][Commanded("delete") /\ Faithful /\ status' = "open"
        => /\ Points(Held') = Points(Held) \ Points(last'.given)
           /\ Whole' /\ Known' /\ Apart(Held)']_vars

\* What nft works out from a faithful copy is nothing the kernel refuses: no
\* element is deleted that is not there, none added over another.
KernelAgrees == [][Faithful => status' # "refused"]_vars

\* Without auto-merge, nft finds an overlap if and only if there is one,
\* although it compares neighbours only.
OverlapsAreErrors ==
    [][Commanded("add") /\ Faithful /\ ~automerge
        => (status' = "error" <=> ~Apart(Held \cup last'.given))]_vars
=============================================================================
