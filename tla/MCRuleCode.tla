----------------------------- MODULE MCRuleCode -----------------------------
(***************************************************************************)
(* Rules of up to three statements over header fields and meta keys, as    *)
(* the parser makes them.  A byte has two bits and a word two bytes; all   *)
(* values of a field are tried.  The header "hdr" has four bytes with      *)
(* fields of some of its bits and a checksum.                              *)
(***************************************************************************)
EXTENDS RuleCode

CONSTANT
    Singles, Pairs  \* names of sets of statements: rules of one and of two

MCTypes ==
    LET T(base, size, order) ==
            [base |-> base, bitmask |-> FALSE, size |-> size, order |-> order]
    IN [integer      |-> T("integer", 0, "none"),
        verdict      |-> T("verdict", 0, "none"),
        invalid      |-> T("invalid", 0, "none"),
        string       |-> T("string", 0, "host"),
        ipv4_addr    |-> T("integer", 4, "big"),
        ipv6_addr    |-> T("integer", 16, "big"),
        inet_service |-> T("integer", 2, "big"),
        mark         |-> T("integer", 4, "host"),
        ifindex      |-> T("integer", 4, "host"),
        ifname       |-> T("string", 6, "host"),
        hour         |-> T("integer", 4, "host"),
        dscp         |-> T("integer", 3, "big"),
        tcp_flag     |-> [T("integer", 2, "big") EXCEPT !.bitmask = TRUE]]

MCKeys ==
    LET K(kind, base, len, order, dtype) ==
            [kind |-> kind, base |-> base, len |-> len, order |-> order, dtype |-> <<dtype>>,
             string |-> dtype = "ifname", max |-> 0, hour |-> dtype = "hour", csum |-> FALSE]
    IN [saddr   |-> K("payload", "ip", 4, "big", "ipv4_addr"),
        sport   |-> K("payload", "transport", 2, "big", "inet_service"),
        dport   |-> K("payload", "transport", 2, "big", "inet_service"),
        flags   |-> K("payload", "transport", 2, "big", "tcp_flag"),
        hdr     |-> [K("payload", "ip", 8, "big", "integer") EXCEPT !.csum = TRUE],
        ext     |-> K("payload", "ip6", 8, "big", "integer"),
        mark    |-> K("meta", "none", 4, "host", "mark"),
        day     |-> [K("meta", "none", 2, "host", "integer") EXCEPT !.max = 2],
        hour    |-> K("meta", "none", 4, "host", "hour"),
        iifname |-> K("meta", "none", 6, "host", "ifname"),
        mtu     |-> K("rt", "none", 4, "host", "integer"),
        mss     |-> K("exthdr", "none", 4, "big", "integer")]

Default == [saddr |-> <<1, 2>>, sport |-> <<1>>, dport |-> <<2>>, mark |-> <<2, 1>>,
            iifname |-> <<1, 2, 0>>, flags |-> <<2>>, hdr |-> <<1, 2, 0, 3>>,
            ext |-> <<2, 3, 1, 0>>, day |-> <<1>>, hour |-> <<2, 1>>, mtu |-> <<1, 2>>,
            mss |-> <<3, 1>>]

Byte == 0..3
MCPackets ==
    {[Default EXCEPT !.saddr = <<a, b>>, !.sport = <<s>>] : a, b \in Byte, s \in 1..2}
    \cup {[Default EXCEPT !.mark = <<a, b>>, !.hour = <<b - (b % 2), a>>, !.mtu = <<a, b>>, !.day = <<a>>,
                          !.hdr = <<a, b, 1, 2>>, !.ext = <<b, 1, 2, a>>] : a, b \in Byte}
    \cup {[Default EXCEPT !.sport = <<s>>, !.dport = <<d>>, !.hdr = <<1, 2, s, d>>,
                          !.ext = <<1, d, s, 3>>] : s, d \in Byte}
    \cup {[Default EXCEPT !.iifname = n, !.flags = <<f>>] :
            n \in {<<1, 2, 0>>, <<1, 1, 0>>, <<2, 1, 0>>}, f \in Byte}

---------------------------------------------------------------------------
(* What the parser makes *)

Sub(k, off, len, dtype) ==
    [e |-> "load", key |-> k, off |-> off, len |-> len, order |-> MCKeys[k].order,
     dtype |-> <<dtype>>, done |-> FALSE]
L(k) == [Sub(k, 0, MCKeys[k].len, "integer") EXCEPT !.dtype = MCKeys[k].dtype]
V(v) == [e |-> "symbol", v |-> v]
T(chars) == [e |-> "symbol", v |-> chars, text |-> TRUE]
P(v, plen) == [e |-> "slash", base |-> V(v), plen |-> plen]
R(lo, hi) == [e |-> "range", left |-> V(lo), right |-> V(hi)]
B(op, l, v) ==
    [e |-> "binop", op |-> op, left |-> l, right |-> V(v), dtype |-> l.dtype, order |-> l.order,
     len |-> 0]
Cat(parts) == [e |-> "concat", parts |-> parts]
H(x, mod) == [e |-> "hash", arg |-> x, mod |-> mod, dtype |-> Integer, order |-> "host",
              len |-> WordBits]
Set(elems) == [e |-> "braces", elems |-> elems]
Verdict(v) == [e |-> "verdict", v |-> v, dtype |-> <<"verdict">>, order |-> "none", len |-> 0]
To(key, data) == [e |-> "mapping", left |-> key, right |-> data]
M(k, set) == [e |-> "map", key |-> k, set |-> set, dtype |-> Null, order |-> "none", len |-> 0]
Flags(f) == [e |-> "list", flags |-> [i \in DOMAIN f |-> V(f[i])]]
Named(name, key, data, flags, elems) ==
    [e |-> "name", name |-> name, key |-> key, data |-> data, interval |-> FALSE,
     flags |-> flags \cup (IF data = Null THEN {} ELSE {"map"}), init |-> Set(elems)]

Match(l, op, r) == [s |-> "match", expr |-> [e |-> "rel", op |-> op, left |-> l, right |-> r]]
FlagMatch(mask, op, v) ==
    [s |-> "match", expr |-> [e |-> "flagcmp", op |-> op, expr |-> L("flags"),
                              mask |-> V(mask), value |-> V(v)]]
Write(to, val) == [s |-> "mangle", to |-> to, val |-> val]
Nat3(type, a, p, fl) ==
    [s |-> "nat", type |-> type, family |-> "none", addr |-> a, proto |-> p, flags |-> fl]
Dyn(set, k, d, st) ==
    [s |-> "dynset", set |-> set, op |-> "add", key |-> k, data |-> d, stmts |-> st]
Nat4(family, a, p) == [Nat3("dnat", a, p, {}) EXCEPT !.family = family]
Fwd(to, family, dev) == [s |-> "fwd", to |-> to, family |-> family, dev |-> dev]
Tproxy(a, p) == [s |-> "tproxy", family |-> "none", addr |-> a, port |-> p]
Dup(to, dev) == [s |-> "dup", to |-> to, dev |-> dev]
Queue(q, fanout) == [s |-> "queue", queue |-> q, fanout |-> fanout]
Counter == [s |-> "plain", kind |-> "counter"]

Pair == Cat(<<L("saddr"), L("sport")>>)
\* The key of five words, more than a register has.
Wide == Cat(<<L("saddr"), L("mark"), L("sport"), L("dport"), L("iifname")>>)
WideOf(a) == Cat(<<V(a), V(6), V(1), V(2), T(<<1, 2>>)>>)

Addr == <<"ipv4_addr">>
PairType == <<"ipv4_addr", "inet_service">>
WideType == <<"ipv4_addr", "mark", "inet_service", "inet_service", "ifname">>
Addrs == Named("addrs", Addr, Null, {}, <<V(6), V(12)>>)
Nets  == Named("nets", Addr, Null, {"interval"}, <<P(12, 2), R(1, 3), V(6)>>)
Pairs2 == Named("pairs", PairType, Null, {}, <<Cat(<<V(6), V(1)>>), Cat(<<V(9), V(2)>>)>>)
PairNets == Named("pairnets", PairType, Null, {"interval"},
                  <<Cat(<<R(3, 6), V(1)>>), Cat(<<P(8, 2), R(1, 2)>>)>>)
Ifaces == Named("ifaces", <<"ifname">>, Null, {"interval"}, <<T(<<1, 2>>), T(<<2, 3>>)>>)
Marks == Named("marks", Addr, <<"mark">>, {}, <<To(V(6), V(9)), To(V(5), V(3))>>)
WideMarks == Named("wide", WideType, <<"mark">>, {}, <<To(WideOf(6), V(7)), To(WideOf(3), V(1))>>)
Verdicts == Named("verdicts", PairType, <<"verdict">>, {},
                  <<To(Cat(<<V(6), V(1)>>), Verdict("accept")),
                    To(Cat(<<V(6), V(2)>>), Verdict("drop"))>>)

---------------------------------------------------------------------------
\* Comparisons of a field: all operations, values, prefixes, ranges, sets.
Operators == {"implicit", "neq"}
Orders == {"lt", "gt", "lte", "gte"}
Comparisons ==
    {Match(L("saddr"), op, V(6)) : op \in Operators \cup Orders \cup {"eq"}}
    \cup {Match(L("mark"), op, r) : op \in Operators, r \in {V(6), R(3, 9), Set(<<V(6), V(9)>>),
                                       Set(<<R(3, 6), P(8, 2)>>)}}
    \cup {Match(L("mark"), op, V(6)) : op \in Orders}
    \cup {Match(L("saddr"), op, P(6, n)) : op \in Operators, n \in 0..4}
    \cup {Match(L("mark"), op, P(6, n)) : op \in Operators, n \in {2, 3}}
    \cup {Match(L("iifname"), op, T(n)) : op \in Operators, n \in {<<1, 2>>, <<1, 3>>}}
    \cup {Match(L("iifname"), op, Ifaces) : op \in Operators}
    \cup {Match(L("saddr"), op, r) : op \in Operators,
            r \in {R(3, 9), Set(<<V(6)>>), Set(<<P(6, 2)>>), Set(<<V(6), V(1)>>),
                   Set(<<R(1, 3), P(12, 2), V(6)>>), Addrs, Nets,
                   Set(<<V(6), Set(<<R(9, 11)>>)>>)}}
    \cup {Match(L("day"), op, r) : op \in Operators, r \in {V(2), Set(<<V(0), V(2)>>)}}
    \cup {Match(Pair, op, r) : op \in Operators,
            r \in {Pairs2, PairNets, Set(<<Cat(<<V(6), V(1)>>), Cat(<<V(9), V(2)>>)>>),
                   Set(<<Cat(<<P(6, 2), V(1)>>), Cat(<<R(9, 11), R(1, 2)>>)>>)}}
    \cup {Match(Cat(<<L("saddr"), L("mark")>>), "implicit", r) :
            r \in {Set(<<Cat(<<V(6), V(6)>>)>>), Set(<<Cat(<<R(5, 6), R(4, 9)>>)>>)}}
    \cup {Match(Wide, "implicit", Set(<<WideOf(6), WideOf(3)>>)),
          Match(Cat(<<B("and", L("saddr"), 6), L("sport")>>), "implicit", Pairs2)}

\* Sets of flags.
FlagTests ==
    {Match(L("flags"), op, V(v)) : op \in {"implicit", "neg", "eq", "neq"}, v \in {1, 2}}
    \cup {Match(L("flags"), op, Flags(<<1, 2>>)) : op \in {"implicit", "eq", "neq"}}
    \cup {FlagMatch(3, op, v) : op \in {"eq", "neq"}, v \in {1, 2}}
    \cup {FlagMatch(2, "eq", 2)}
    \cup {Match(L("flags"), "implicit", Set(<<V(1), Flags(<<1, 2>>)>>))}

\* Fields of some bits: in one byte, over two, several bytes.
BitFields == {Sub("hdr", 0, 1, "integer"), Sub("hdr", 1, 1, "integer"), Sub("hdr", 1, 2, "integer"),
              Sub("ext", 1, 3, "dscp"), Sub("hdr", 5, 3, "dscp"), Sub("ext", 2, 3, "dscp")}
Bits2 ==
    {Match(f, op, V(v)) : f \in BitFields, op \in Operators \cup Orders, v \in {0, 1}}
    \cup {Match(f, op, r) : f \in BitFields, op \in Operators, r \in {R(0, 1), Set(<<V(0), V(1)>>)}}
    \cup {Match(f, "neq", R(2, 5)) : f \in {g \in BitFields : g.len = 3}}
    \cup {Match(f, "implicit", Set(<<R(1, 2), V(5)>>)) : f \in {g \in BitFields : g.len = 3}}

\* Chains of up to three boolean operations, and shifts between them.
Operations ==
    LET One(l) == {B(op, l, v) : op \in {"and", "or", "xor"}, v \in {5, 12}}
        Two == UNION {One(x) : x \in One(L("saddr"))}
        Three == UNION {One(x) : x \in Two}
        Shifts == {B(op, x, 1) : op \in {"lshift", "rshift"}, x \in {L("mark")} \cup One(L("mark"))}
    IN {Match(x, "eq", V(v)) : x \in Three, v \in {4, 9}}
       \cup {Write(L("mark"), x) : x \in UNION {One(y) : y \in Shifts}}

\* Statements with operands.
Nats ==
    LET addrs == {NoExpr, V(6), R(6, 9), P(6, 2)}
        ports == {NoExpr, V(2), R(2, 3)}
        map == M(L("saddr"), Set(<<To(V(6), V(9)), To(P(8, 2), V(1))>>))
    IN {Nat3(type, a, p, {}) : type \in {"snat", "dnat"}, a \in addrs \cup {map}, p \in ports}
       \cup {Nat3(type, NoExpr, p, {}) : type \in {"masq", "redir"}, p \in ports}

NatMaps ==
    LET One(data) == Set(<<To(V(6), data)>>)
        both(x) == Cat(<<V(6), x>>)
    IN {Nat3("dnat", M(L("saddr"), One(both(V(3)))), NoExpr, {}),
        Nat3("snat", M(L("saddr"), One(R(6, 9))), NoExpr, {}),
        Nat3("snat", M(L("saddr"), One(P(9, 2))), NoExpr, {}),
        Nat3("dnat", M(L("saddr"), One(Cat(<<P(9, 3), R(2, 3)>>))), NoExpr, {}),
        Nat3("dnat", M(Pair, Set(<<To(Cat(<<V(6), V(1)>>), both(V(2)))>>)), NoExpr, {}),
        Nat3("dnat", M(L("saddr"), Named("nat", Addr, PairType, {}, <<To(V(6), both(V(2)))>>)),
             NoExpr, {}),
        Nat3("snat", both(V(2)), NoExpr, {"concat"})}

Writes ==
    {Write(L("mark"), x) :
       x \in {V(7), M(L("saddr"), Marks), M(Wide, WideMarks), H(Pair, 3), H(L("saddr"), 3),
              M(L("saddr"), Set(<<To(P(6, 2), V(3)), To(V(9), V(6))>>)),
              M(L("iifname"), Set(<<To(T(<<1, 2>>), V(3))>>))}}
    \cup {Write(L("saddr"), x) : x \in {V(6), M(L("mark"), Set(<<To(V(6), V(9))>>))}}
    \cup {Write(L("sport"), x) : x \in {V(2), L("dport")}}
    \cup {Write(f, V(v)) : f \in BitFields, v \in {0, 1}}
    \cup {Write(L("mss"), x) : x \in {V(6), L("mtu")}}

Others ==
    {[s |-> "verdict", expr |-> x] :
       x \in {Verdict("drop"), Verdict("continue"), M(Pair, Verdicts),
              M(L("sport"), Set(<<To(R(1, 2), Verdict("accept")), To(V(3), Verdict("drop"))>>))}}
    \cup {Tproxy(V(6), p) : p \in {V(2), NoExpr}}
    \cup {Dup(V(6), d) : d \in {NoExpr, V(3)}}
    \cup {Queue(q, FALSE) : q \in {V(2), R(1, 3), H(Pair, 3),
                                  M(L("sport"), Set(<<To(V(1), V(2)), To(V(2), V(3))>>))}}
    \cup {Queue(R(1, 3), TRUE)}
    \cup {[s |-> "objref", map |-> NoExpr, name |-> T(<<1>>)],
          [s |-> "objref", name |-> NoExpr,
           map |-> M(Pair, Set(<<To(Cat(<<V(6), V(1)>>), T(<<1>>)),
                                 To(Cat(<<V(6), V(2)>>), T(<<2>>))>>))]}
    \cup {[s |-> "meter", name |-> "m", key |-> k, stmts |-> <<"limit">>] :
            k \in {L("saddr"), Cat(<<L("saddr"), L("mark")>>)}}
    \cup {Dyn(Pairs2, Pair, NoExpr, <<>>), Dyn(Addrs, L("saddr"), NoExpr, <<"limit">>),
          Dyn(Marks, L("saddr"), L("mark"), <<>>), Dyn(WideMarks, Wide, L("mark"), <<>>),
          Dyn(Addrs, V(3), NoExpr, <<>>)}

\* Ranges of hours, also over midnight; no packet comes at the end of one.
Hours == {Match(L("hour"), op, r) : op \in Operators, r \in {R(3, 9), R(13, 5)}}

\* Statements before and after each other: of every kind, and without two
\* neighbouring orders of different fields.
Paired ==
    {Match(L("saddr"), "neq", V(6)), Match(L("mark"), "eq", R(3, 9)), Match(L("saddr"), "eq", P(6, 2)),
     Match(Pair, "eq", PairNets), Match(Wide, "implicit", Set(<<WideOf(6), WideOf(3)>>)),
     Match(L("flags"), "neg", V(1)), Match(Sub("hdr", 1, 2, "integer"), "eq", V(1)),
     Match(Sub("ext", 2, 3, "dscp"), "neq", R(2, 5)), Match(L("iifname"), "eq", T(<<1, 3>>)),
     Match(L("iifname"), "neq", Ifaces), Match(L("sport"), "lt", V(2)),
     Match(B("and", L("saddr"), 5), "eq", V(4)),
     Write(L("mark"), V(7)), Write(L("mark"), M(Wide, WideMarks)), Write(L("mark"), H(Pair, 3)),
     Write(L("mark"), B("lshift", B("or", L("mark"), 5), 1)), Write(L("saddr"), V(6)),
     Write(L("sport"), L("dport")), Write(Sub("hdr", 1, 2, "integer"), V(1)),
     Write(Sub("ext", 2, 3, "dscp"), V(1)), Write(L("mss"), L("mtu"))}
    \cup {s \in Others : s.s \notin {"queue", "tproxy"}}

\* The bounds of ranges, as statements of their own.
Bounds ==
    {Match(L(k), op, V(v)) : k \in {"sport", "dport"}, op \in Orders, v \in {1, 2}}

Names == [none |-> {}, comparisons |-> Comparisons, flags |-> FlagTests, bits |-> Bits2,
          operations |-> Operations, nats |-> Nats, natmaps |-> NatMaps, writes |-> Writes,
          others |-> Others, hours |-> Hours, bounds |-> Bounds, pairs |-> Paired]
All(names) == UNION {Names[n] : n \in names}

\* The counter at the end of a rule tells the packets that match.
Ends(s) == s.s \in {"nat", "queue", "fwd"} \/ (s.s = "verdict" /\ s.expr = Verdict("drop"))
Close(stmts) == IF Ends(Last(stmts)) THEN stmts ELSE Append(stmts, Counter)
\* Ports and flags are known after a match of the transport protocol.
Transport == Match(L("sport"), "gte", V(0))
NeedsPort(s) == s.s = "tproxy" \/ (s.s = "nat" /\ (s.proto # NoExpr \/ s \in NatMaps))
Before(s) == IF NeedsPort(s) THEN <<Transport>> ELSE <<>>
In(family, stmts) == [family |-> family, stmts |-> Close(stmts)]

---------------------------------------------------------------------------
\* Rules of the other families.
Elsewhere ==
    {In("inet", <<Match(L("saddr"), "eq", V(6)), Nat4("none", V(9), NoExpr)>>),
     In("inet", <<Nat4("ip", R(6, 9), NoExpr)>>),
     In("inet", <<Transport, Nat4("ip", V(9), R(1, 2))>>),
     In("inet", <<Transport, Nat3("redir", NoExpr, V(2), {})>>),
     In("inet", <<Transport, [Tproxy(V(6), V(2)) EXCEPT !.family = "ip"]>>),
     In("inet", <<Transport, Tproxy(NoExpr, V(2))>>),
     In("netdev", <<Fwd(NoExpr, "none", V(3))>>),
     In("netdev", <<Fwd(V(6), "ip", V(3))>>), In("netdev", <<Dup(V(3), NoExpr)>>),
     In("netdev", <<Fwd(NoExpr, "none", M(L("saddr"), Set(<<To(V(6), V(3))>>)))>>),
     In("bridge", <<Match(L("saddr"), "neq", Set(<<V(6), V(9)>>))>>)}

\* Statements that must be refused after a match of a port, in family ip.
Overlapping == Named("overlapping", <<"ifname">>, Null, {"interval"}, <<T(<<1, 2>>), T(<<1, 3>>)>>)
Plains(elem) == Named("plains", Addr, Null, {}, <<elem>>)
Triple == Set(<<Cat(<<V(6), V(1), V(2)>>)>>)
Unfit ==
    {Match(L("saddr"), op, V(16)) : op \in Operators \cup Orders}
    \cup {Match(L("sport"), "eq", V(4)), Match(L("day"), "eq", V(3)),
          Match(L("saddr"), "eq", R(9, 3)), Match(L("saddr"), "eq", P(6, 5)),
          Match(L("saddr"), "eq", L("saddr")), Match(L("mark"), "eq", L("saddr")),
          Match(L("saddr"), "lt", P(6, 2)), Match(L("saddr"), "lt", Set(<<V(6), V(9)>>)),
          Match(L("saddr"), "eq", Flags(<<1, 2>>)), Match(L("saddr"), "neg", V(6)), Match(B("and", L("flags"), 1), "neg", V(1)),
          Match(L("saddr"), "eq", Set(<<>>)),
          Match(L("saddr"), "eq", Set(<<Addrs>>)), Match(L("saddr"), "eq", Set(<<V(16), V(1)>>)),
          Match(L("sport"), "eq", Addrs), Match(L("saddr"), "eq", Pairs2),
          Match(L("saddr"), "eq", Plains(R(1, 3))), Match(L("saddr"), "eq", Plains(P(8, 2))),
          Match(L("saddr"), "eq", Set(<<To(V(6), V(9))>>)),
          Match(Pair, "eq", Triple), Match(Pair, "eq", Set(<<V(6)>>)),
          Match(Pair, "lt", Cat(<<V(6), V(1)>>)), Match(Pair, "eq", Cat(<<V(6), V(1)>>)),
          Match(L("iifname"), "eq", T(<<1, 1, 3>>)), Match(L("iifname"), "eq", T(<<3>>)),
          Match(L("iifname"), "eq", Overlapping),
          Match(B("lshift", L("mark"), 4), "eq", V(1)), Match(B("and", L("saddr"), 16), "eq", V(1)),
          FlagMatch(3, "lt", 1), Match(L("flags"), "eq", Set(<<V(4), V(1)>>))}
    \cup {Write(L("mark"), x) :
             x \in {V(16), L("saddr"), L("sport"), Set(<<V(1), V(2)>>), Marks, Pair,
                    M(V(6), Marks), M(L("sport"), Marks), M(L("saddr"), Addrs),
                    M(L("saddr"), Verdicts), M(L("saddr"), Set(<<To(V(6), V(16))>>)),
                    M(L("saddr"), Set(<<To(R(1, 6), V(1)), To(R(5, 9), V(2))>>))}}
    \cup {Write(L("saddr"), L("sport")), Write(L("sport"), L("saddr")),
          Write(L("saddr"), L("mark"))}
    \cup {[s |-> "verdict", expr |-> x] : x \in {M(L("saddr"), Marks), M(L("saddr"), Verdicts)}}
    \cup {Nat3("dnat", a, NoExpr, {}) : a \in {V(16), L("mark"), Addrs, R(9, 6)}}
    \cup {Nat3("dnat", V(6), V(4), {}), Nat3("redir", NoExpr, R(3, 1), {}),
          Nat4("ip6", V(6), NoExpr), Nat3("snat", V(6), NoExpr, {"concat"}), Nat3("dnat", L("sport"), NoExpr, {}),
          Tproxy(NoExpr, NoExpr), Tproxy(R(1, 2), V(2)), Tproxy(V(6), R(1, 2)),
          [Tproxy(V(6), V(2)) EXCEPT !.family = "ip6"],
          Dup(NoExpr, V(3)), Dup(V(16), NoExpr), Dup(V(6), V(16)), Dup(L("mark"), NoExpr),
          Fwd(NoExpr, "none", V(3)),
          Queue(V(4), FALSE), Queue(H(Pair, 5), FALSE), Queue(V(2), TRUE), Queue(R(3, 1), FALSE),
          Queue(M(L("sport"), Set(<<To(V(1), V(7))>>)), FALSE),
          Dyn(Addrs, L("sport"), NoExpr, <<>>), Dyn(Addrs, L("saddr"), NoExpr, <<"log">>),
          Dyn(Pairs2, L("saddr"), NoExpr, <<>>), Dyn(Marks, L("saddr"), L("saddr"), <<>>),
          [s |-> "meter", name |-> "m", key |-> L("saddr"), stmts |-> <<"log">>],
          [s |-> "meter", name |-> "m", key |-> V(6), stmts |-> <<"limit">>],
          [s |-> "objref", name |-> NoExpr, map |-> M(Pair, Verdicts)],
          [s |-> "objref", name |-> T(<<1, 1, 1, 1>>), map |-> NoExpr]}
    \cup {Match(f, "eq", V(2)) : f \in {g \in BitFields : g.len = 1}}
    \cup {Write(f, M(L("saddr"), Set(<<To(V(6), V(1)), To(V(9), V(0))>>))) : f \in BitFields}
    \cup {Write(f, V(2)) : f \in {g \in BitFields : g.len = 1}}

MCMisfits ==
    {In("ip", <<Transport, s>>) : s \in Unfit}
    \cup {In("ip", <<s>>) : s \in {t \in All({"nats", "others"}) : NeedsPort(t)}}
    \cup {In("ip", <<s>>) : s \in {t \in NatMaps : t.addr.e = "map" /\ t.addr.key = L("saddr") /\ t.type = "dnat"}}
    \cup {In("bridge", <<Nat4("ip", V(6), NoExpr)>>), In("bridge", <<Tproxy(V(6), V(2))>>),
          In("inet", <<Nat4("none", V(6), NoExpr)>>), In("inet", <<Dup(V(6), NoExpr)>>),
          In("inet", <<Match(L("saddr"), "eq", V(6)), Nat4("ip6", V(6), NoExpr)>>),
          In("inet", <<Match(L("ext"), "eq", V(6)), Nat4("ip", V(6), NoExpr)>>),
          In("inet", <<Tproxy(V(6), V(2))>>), In("netdev", <<Fwd(NoExpr, "none", NoExpr)>>),
          In("netdev", <<Fwd(V(6), "none", V(3))>>), In("netdev", <<Dup(V(6), V(3))>>),
          In("ip", <<[s |-> "verdict", expr |-> Verdict("drop")], Counter, Counter>>),
          In("ip", <<Nat3("snat", V(6), NoExpr, {}), Counter>>)}

MCRules ==
    {In("ip", Before(s) \o <<s>>) : s \in All(Singles)}
    \cup {In("ip", <<s, t>>) : s, t \in {u \in All(Pairs) : ~Ends(u) /\ ~NeedsPort(u)}}
    \cup Elsewhere \cup MCMisfits
=============================================================================
