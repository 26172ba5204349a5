------------------------------- MODULE MCBatch -------------------------------
(***************************************************************************)
(* Inputs for Batch: commands on one table with a chain, a set, an object  *)
(* and a flowtable, and on elements of two sets.                           *)
(***************************************************************************)
EXTENDS Batch

Add(obj, name) == Cmd("add", obj, name)
ElemCmd(op, name, keys) ==
    [Cmd(op, "elements", name) EXCEPT !.elems = [n \in DOMAIN keys |-> Elem({keys[n]})]]

Rule == [Add("rule", "r") EXCEPT !.needs = {"c", "s"}]
InTable(o) == [o EXCEPT !.needs = @ \cup {"t"}]

\* A verdict map whose elements jump to a chain, and count with an object.
Map == InTable([Add("set", "s") EXCEPT !.body =
           <<[ElemCmd("add", "s", <<"k1">>) EXCEPT !.obj = "elements", !.needs = {"s", "c", "o"}]>>])

Table == [Add("table", "t") EXCEPT !.body =
             <<InTable([Rule EXCEPT !.needs = @ \cup {"f"}]), Map, InTable(Add("object", "o")),
               InTable(Add("flowtable", "f")), InTable(Add("chain", "c"))>>]

TestNames == {"t", "c", "d", "s", "u", "r", "o", "f"}
TestKeys == {"k1", "k2", "k3", "k4"}

TestInputs ==
    {<<Table>>,
     <<Add("table", "t"), Add("chain", "c"), Cmd("delete", "chain", "d")>>,
     <<Add("chain", "c"), Cmd("add", "rule", "r")>>,
     <<ElemCmd("add", "s", <<"k1">>), ElemCmd("add", "s", <<"k2", "k3">>), ElemCmd("add", "s", <<"k4">>)>>,
     <<ElemCmd("add", "s", <<"k1">>), Cmd("flush", "set", "s"), ElemCmd("add", "s", <<"k2">>)>>,
     <<ElemCmd("add", "s", <<"k1">>), Add("chain", "c"), [ElemCmd("add", "s", <<"k2">>) EXCEPT !.needs = {"c"}]>>,
     <<ElemCmd("add", "s", <<"k1">>), ElemCmd("create", "s", <<"k2">>)>>,
     <<ElemCmd("add", "s", <<"k1">>), ElemCmd("add", "u", <<"k2">>), ElemCmd("add", "u", <<"k3">>)>>,
     <<ElemCmd("add", "s", <<"k1", "k2", "k3">>), Cmd("list", "set", "s")>>}

\* They refer to what they declare: the premise of ReferencesFirst.
ASSUME ReferencesGiven

=============================================================================
