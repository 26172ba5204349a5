----------------------------- MODULE MCOptimize -----------------------------
(***************************************************************************)
(* Chains of three rules over two fields with the values 0 to 3.           *)
(***************************************************************************)
EXTENDS Optimize

MCPackets == [x : 0..3, y : 0..3, limit : BOOLEAN]

Load(f) == [e |-> "load", key |-> f]
Mod(f, m) == [e |-> "binop", arg |-> Load(f), mask |-> m]
V(v) == [k |-> "value", ref |-> FALSE, els |-> <<{v}>>]
R(a, b) == [k |-> "range", ref |-> FALSE, els |-> <<a..b>>]
S(a, b) == [k |-> "set", ref |-> FALSE, els |-> <<{a}, {b}>>]
Ref(v) == [k |-> "value", ref |-> TRUE, els |-> <<{v}>>]
Is(f, right) == [s |-> "match", op |-> "eq", left |-> Load(f), right |-> right]
Not(f, v) == [s |-> "match", op |-> "neq", left |-> Load(f), right |-> V(v)]
Masked(f, m, v) == [s |-> "match", op |-> "eq", left |-> Mod(f, m), right |-> V(v)]

Verdict(v) == [s |-> "verdict", e |-> "verdict", verdict |-> v]
Accept == Verdict("accept")
Drop == Verdict("drop")
Vmap(f, a, va, b, vb) ==
    [s |-> "verdict", e |-> "map", map |-> Load(f),
     els |-> << << <<{a}>>, <<va>> >>, << <<{b}>>, <<vb>> >> >>]
Dnat(v, proto) == [s |-> "nat", type |-> "dnat", addr |-> [k |-> "symbol", v |-> v], proto |-> proto]
Masquerade == [s |-> "nat", type |-> "masquerade", addr |-> [k |-> "none", v |-> 0], proto |-> 0]
Reject(c) == [s |-> "reject", type |-> "icmp", code |-> c]
Do(what) == [s |-> what]

Verdicts == {Accept, Drop}

\* Rules that are merged into sets and verdict maps.
Simple == {<<Is("x", V(v)), a>> : v \in 1..2, a \in Verdicts}
Plain ==
    Simple \cup {<<Is("x", R(2, 3)), a>> : a \in Verdicts}
    \cup {<<Is("x", V(v)), Is("y", V(1)), a>> : v \in 1..2, a \in Verdicts}
    \cup {<<Is("y", V(2)), Is("x", V(v)), Accept>> : v \in 2..3}
    \cup {<<Is("x", V(1)), Do("counter"), a>> : a \in Verdicts}
    \cup {<<Is("x", S(2, 3)), Accept>>, <<Accept>>}

\* Rules that keep apart what is around them, or have a column of their own.
Mixed ==
    Simple \cup {<<Do("limit"), Is("x", V(v)), Accept>> : v \in 1..2}
    \cup {<<Not("x", v), Not("y", v), Drop>> : v \in 1..2}
    \cup {<<Vmap("x", v, "accept", 3, "drop")>> : v \in 1..2}
    \cup {<<Is("x", Ref(1)), Accept>>, <<Is("x", V(3)), Reject("none")>>, <<Accept>>}
    \cup {<<Masked("x", 2, 1), Drop>>, <<Masked("x", 2, 0), Accept>>}
    \cup {<<Is("x", V(1)), Do("counter"), Drop>>, <<Is("x", R(2, 3)), Drop>>}

\* Rules with sets in several comparisons, of one verdict.
Sets ==
    {<<Is("x", a), Is("y", b), Accept>> : a, b \in {V(1), R(2, 3), S(0, 2)}}
    \cup {<<Is("y", S(1, 2)), Is("x", V(v)), Do("counter"), Accept>> : v \in 1..2}

\* Rules that translate addresses.
Nats ==
    {<<Is("x", a), Dnat(n, q)>> : a \in {V(1), V(2), S(2, 3)}, n \in 8..9, q \in {0, 7}}
    \cup {<<Is("x", V(v)), Is("y", V(1)), Do("counter"), Dnat(8, 7)>> : v \in 1..2}

\* Rules of all kinds, for chains that need not keep their fate.
L(a, b) == [k |-> "list", ref |-> FALSE, els |-> <<{a}, {b}>>]
Odd ==
    {<<Is("x", right), a>> : right \in {V(1), L(1, 2)}, a \in Verdicts}
    \cup {<<Is("x", right), Is("y", V(1)), a>> : right \in {V(1), S(2, 3), L(1, 2)}, a \in Verdicts}
    \cup {<<Is("x", right), Dnat(8, 7)>> : right \in {V(1), L(1, 2)}}
    \cup {<<Is("x", S(2, 3)), Is("y", R(1, 2)), Dnat(n, 0)>> : n \in 8..9}
    \cup {<<Is("x", V(1)), Masquerade>>, <<Dnat(8, 0)>>, <<Accept>>, <<Drop>>}
    \cup {<<Not("x", 1), Drop>>, <<Do("limit"), Is("x", V(2)), Accept>>, <<Do("counter"), Accept>>}
    \cup {<<Vmap("x", 1, "accept", 3, "drop")>>, <<Is("x", Ref(1)), Accept>>}
    \cup {<<Is("x", V(1)), Do("counter"), Reject("none")>>, <<Do("notrack")>>}

MCOddChains == Odd \X Odd \X Odd

MCChains == UNION {pool \X pool \X pool : pool \in {Plain, Mixed, Sets, Nats}}
=============================================================================
