---------------------------- MODULE MCLibnftables ----------------------------
(***************************************************************************)
(* One table for Libnftables, with a chain, a counter and an interval set  *)
(* of one element.                                                         *)
(***************************************************************************)
EXTENDS Libnftables, TLC

CONSTANTS t, c, k, s, e, nothing

Items == {t, c, k, s, e}
MCKindOf == t :> "table" @@ c :> "chain" @@ k :> "object" @@ s :> "set" @@ e :> "setelem"
MCTableOf == [x \in Items |-> t]
MCOwnerOf == e :> s @@ MCTableOf

Cm(op, obj, table, name) ==
    [op |-> op, obj |-> obj, table |-> table, name |-> name, body |-> "none",
     at |-> "none", refs |-> {}, toolong |-> FALSE]

Changes ==
    { Cm("add", "table", t, nothing), Cm("delete", "table", t, nothing),
      Cm("create", "chain", t, c), Cm("add", "set", t, s),
      Cm("add", "elements", t, s), Cm("delete", "elements", t, s),
      Cm("delete", "set", t, s) }

TooLong == [Cm("add", "chain", t, nothing) EXCEPT !.toolong = TRUE]
FlushSet == Cm("flush", "set", t, s)
FlushRuleset == Cm("flush", "ruleset", nothing, nothing)
Reset1 == Cm("reset", "objects", nothing, nothing)
ListTable == Cm("list", "table", t, nothing)

Pairs(S) == {<<x, y>> : x \in S, y \in S}

\* Batches that flush first, if at all, and do not mix listings and changes.
Batches ==
    Pairs(Changes)
    \cup {<<f, x>> : f \in {FlushSet, FlushRuleset}, x \in Changes}
    \cup {<<>>, <<TooLong>>, <<ListTable>>, <<Reset1>>, <<Reset1, Cm("add", "chain", t, c)>>}

Delete1 == Cm("delete", "table", t, nothing)
Add1 == Cm("add", "chain", t, c)

\* For dry and optimized runs, one of each kind.
Samples ==
    {<<Delete1>>, <<Add1>>, <<Reset1>>, <<Reset1, Delete1>>, <<ListTable, Delete1>>,
     <<Cm("list", "set", t, s), Cm("delete", "set", t, s)>>}

Changing == {<<Delete1>>, <<Add1>>}

\* In none of them does a command stand in the way of another: the premise of
\* RefusalJustified.
ASSUME InputsOrderly
=============================================================================
