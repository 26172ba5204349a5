---------------------------- MODULE MCCacheFlags ----------------------------
(***************************************************************************)
(* Two tables for CacheFlags: t1 with two chains, two rules and an         *)
(* interval set, t2 with a chain, an object and a flowtable.               *)
(***************************************************************************)
EXTENDS CacheFlags, TLC

CONSTANTS t1, t2, c1, d1, c2, r1, q1, s1, e1, o2, f2, nothing

Items == {t1, t2, c1, d1, c2, r1, q1, s1, e1, o2, f2}
MCKindOf == t1 :> "table" @@ t2 :> "table" @@ c1 :> "chain" @@ d1 :> "chain"
            @@ c2 :> "chain" @@ r1 :> "rule" @@ q1 :> "rule" @@ s1 :> "set"
            @@ e1 :> "setelem" @@ o2 :> "object" @@ f2 :> "flowtable"
MCTableOf == [x \in Items |-> IF x \in {t2, c2, o2, f2} THEN t2 ELSE t1]
MCOwnerOf == r1 :> c1 @@ q1 :> d1 @@ e1 :> s1 @@ MCTableOf

Cmd(op, obj, table, name) ==
    [op |-> op, obj |-> obj, table |-> table, name |-> name, body |-> "none",
     at |-> "none", refs |-> {}, toolong |-> FALSE]

Rules ==
    { [Cmd("add", "rule", t1, c1) EXCEPT !.refs = {s1}],
      [Cmd("add", "rule", t1, c1) EXCEPT !.at = "index"],
      [Cmd("insert", "rule", t1, d1) EXCEPT !.at = "position"],
      Cmd("delete", "rule", t1, c1) }

Declarations ==
    { Cmd("add", "table", t1, nothing),
      [Cmd("add", "table", t1, nothing) EXCEPT !.body = "plain", !.refs = {s1}],
      [Cmd("add", "table", t1, nothing) EXCEPT !.body = "automerge", !.refs = {s1}],
      Cmd("create", "chain", t1, c1),
      Cmd("add", "set", t1, s1),
      Cmd("add", "object", t2, o2),
      Cmd("add", "flowtable", t2, f2),
      Cmd("rename", "chain", t1, c1),
      [Cmd("add", "chain", t1, nothing) EXCEPT !.toolong = TRUE] }

Contents ==
    { Cmd("add", "elements", t1, s1),
      Cmd("delete", "elements", t1, s1),
      Cmd("get", "elements", t1, s1),
      Cmd("delete", "set", t1, s1),
      Cmd("flush", "set", t1, s1),
      Cmd("reset", "objects", t2, nothing),
      Cmd("flush", "ruleset", nothing, nothing) }

Listings ==
    { Cmd("list", "ruleset", nothing, nothing),
      Cmd("list", "table", t1, nothing),
      Cmd("list", "table", t2, nothing),
      Cmd("list", "chain", t1, c1),
      Cmd("list", "set", t1, s1),
      Cmd("list", "flowtable", t2, f2),
      Cmd("list", "chains", nothing, nothing),
      Cmd("list", "sets", nothing, nothing),
      Cmd("list", "objects", t2, nothing) }

Replace1 == [Cmd("replace", "rule", t1, c1) EXCEPT !.refs = {s1}]

FilledSet == [Cmd("add", "set", t1, s1) EXCEPT !.body = "automerge"]

MCCommand ==
    Rules \cup Declarations \cup Contents \cup Listings
    \cup {Replace1, FilledSet, Cmd("monitor", "ruleset", nothing, nothing),
          Cmd("describe", "expr", nothing, nothing)}
=============================================================================
