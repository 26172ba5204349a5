----------------------------- MODULE MCNftCache -----------------------------
(***************************************************************************)
(* A ruleset of two tables for NftCache: t1 may hold a chain with a rule   *)
(* and a set with an element, t2 an object.                                *)
(***************************************************************************)
EXTENDS NftCache, TLC

CONSTANTS t1, t2, c1, r1, s1, e1, o2

Items == {t1, t2, c1, r1, s1, e1, o2}
MCKindOf == t1 :> "table" @@ t2 :> "table" @@ c1 :> "chain" @@ r1 :> "rule"
            @@ s1 :> "set" @@ e1 :> "setelem" @@ o2 :> "object"
MCOwnerOf == t1 :> t1 @@ t2 :> t2 @@ c1 :> t1 @@ r1 :> c1
             @@ s1 :> t1 @@ e1 :> s1 @@ o2 :> t2
MCTableOf == [x \in Items |-> IF x \in {t2, o2} THEN t2 ELSE t1]

Full == Kinds
Request(flags) == [flags |-> flags, hide |-> {}]

MCRequests ==
    { Request({}),                                         \* nothing to look up
      Request({"table"}),                                    \* add chain
      Request({"table", "chain", "set", "object", "maybe"}), \* add element
      [flags |-> {"table", "chain", "set", "object", "maybe"}, hide |-> {e1}],
                                                             \* flush set; add element
      Request(Full),                                         \* replace rule
      [flags |-> Full \cup {"refresh"}, hide |-> {t2, o2}], \* list table t1
      Request({"table", "flushed", "update"}) }              \* flush ruleset
=============================================================================
