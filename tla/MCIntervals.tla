----------------------------- MODULE MCIntervals -----------------------------
(***************************************************************************)
(* Sets of up to three intervals for Intervals, those that touch included, *)
(* and commands that name one element, or two.                             *)
(***************************************************************************)
EXTENDS Intervals

Between(l, h) == [lo |-> l, hi |-> h]

MCStored ==
    {S \in {{}} \cup {{r, s, t} : r, s, t \in Spans} :
        \A r, s \in S : r = s \/ r.hi < s.lo \/ s.hi < r.lo}

MCGiven ==
    {<<s>> : s \in Spans}
    \cup {<<Between(l, l), Between(h, h)>> : l, h \in {0, 2, 3, MaxKey}}
    \cup {<<Between(1, 3), Between(2, 4)>>, <<Between(0, 1), Between(2, 3)>>,
          <<Between(2, 2), Between(0, 4)>>}
=============================================================================
