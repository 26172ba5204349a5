---------------------------- MODULE IntervalEnds ----------------------------
(***************************************************************************)
(* Between the intervals of a set and the elements the kernel has for      *)
(* them: where an interval starts and where it has ended.  An interval     *)
(* that reaches the largest key has no end.                                *)
(***************************************************************************)
EXTENDS Integers

CONSTANT MaxKey  \* the largest value a key can take

ASSUME KeyAssumption == MaxKey \in Nat

Spans == {s \in [lo : 0..MaxKey, hi : 0..MaxKey] : s.lo <= s.hi}

Start(k) == [key |-> k, end |-> FALSE]
End(k) == [key |-> k, end |-> TRUE]

\* set_to_intervals
Ends(S) == {Start(s.lo) : s \in S} \cup {End(s.hi + 1) : s \in {r \in S : r.hi < MaxKey}}

\* interval_map_decompose: an interval ends before the next element,
\* whatever that is.
Decompose(E) ==
    {s \in Spans :
        /\ Start(s.lo) \in E
        /\ s.hi = MaxKey \/ {Start(s.hi + 1), End(s.hi + 1)} \cap E # {}
        /\ \A e \in E : ~(s.lo < e.key /\ e.key <= s.hi)}
=============================================================================
