------------------------------ MODULE MCMonitor ------------------------------
(***************************************************************************)
(* One set of intervals, one of single keys, a name for anonymous sets,    *)
(* an object, and elements with and without an end.                        *)
(***************************************************************************)
EXTENDS Monitor

Between(l, h) == [lo |-> l, hi |-> h]

MCGiven ==
    {<<Between(0, 0)>>, <<Between(1, 1)>>, <<Between(1, MaxKey)>>, <<CatchAll>>,
     <<Between(0, 0), Between(1, 1)>>, <<Between(2, MaxKey), Between(0, 1)>>}
=============================================================================
