----------------------------- MODULE MCPayload -----------------------------
EXTENDS Payload

P(d, f, val) == Is(Payload(d, f), val)
Not(m) == [m EXCEPT !.op = "!="]
Two(m, val) == [m EXCEPT !.op = "in", !.v = Append(@, [@[1] EXCEPT !.val = val])]
Raw(base, off, len, val) == Is(Unnamed(base, off, len), val)
Counter == [s |-> "counter"]

Statements(f) ==
    {P("eth", "saddr", "1"), P("eth", "daddr", "1"), Not(P("eth", "saddr", "2")),
     P("vlan", "id", "1"), P("vlan", "pcp", "1"),
     P("ip", "saddr", "1"), P("ip", "daddr", "1"), Not(P("ip", "daddr", "2")),
     Two(P("ip", "saddr", "1"), "2"), P("ip", "protocol", "tcp"), P("ip", "ttl", "1"),
     P("ip6", "saddr", "1"), P("ip6", "daddr", "1"),
     P("tcp", "sport", "1"), P("tcp", "dport", "1"), Not(P("tcp", "dport", "2")),
     P("tcp", "sequence", "1"), P("udp", "dport", "1"), P("udp", "length", "1"),
     Two(P("udp", "sport", "1"), "2"), P("th", "dport", "1"),
     P("icmp", "type", "echo-request"), P("icmp", "type", "unreachable"),
     Two(P("icmp", "type", "echo-reply"), "echo-request"),
     P("icmp", "code", "1"), P("icmp", "id", "1"), P("icmp", "sequence", "1"), P("icmp", "mtu", "1"),
     P("icmpv6", "type", "echo6-request"), P("icmpv6", "id", "1"), P("icmpv6", "mtu", "1"),
     Is(Meta("l4proto"), "tcp"), Is(Meta("l4proto"), "icmp"), Two(Is(Meta("l4proto"), "tcp"), "udp"),
     Not(Is(Meta("l4proto"), "tcp")),
     Is(Meta("nfproto"), "ip"), Is(Meta("nfproto"), "ip6"),
     Raw(NETWORK, 96, 32, "1")}
    \cup {Is(Exthdr("tcp", "maxseg"), "1"), Is(Exthdr("ip", "ra"), "1"), Is(Exthdr("ip6", "hbh"), "1")}
    \cup {Is(Meta("protocol"), d) : d \in IF f \in L3 THEN {f} ELSE L3}

Rejects == {Reject(how) : how \in {"default", "icmp", "icmpv6", "icmpx", "reset"}}

\* Rules whose listing or code is known not to be what was said, by the kind
\* of what is wrong (README, "Deviations found").
Reads(s, d) == IsMatch(s) /\ s.e.k = "payload" /\ s.e.d = d
Option(s) == IsMatch(s) /\ s.e.k = "exthdr"
Said(s, key) == IsMatch(s) /\ s.e.k = "meta" /\ s.e.f = key
InOrder(r, Early(_), Late(_)) ==
    \E i, j \in DOMAIN r : i < j /\ Early(r[i]) /\ Late(r[j])

Messages == {Reject(how) : how \in {"default", "icmp", "icmpv6"}}

\* A frame with a tag is no longer IP once its Ethernet header was looked at.
TypeOfTagged(f, r) ==
    \/ f = "netdev" /\ InOrder(r, LAMBDA s : Reads(s, "eth"),
            LAMBDA s : Option(s) \/ s \in Messages \/ \E d \in {"ip", "ip6", "icmp", "icmpv6"} : Reads(s, d))
    \/ f = "bridge" /\ \E i \in DOMAIN r : Option(r[i]) /\ r[i].e.d # "tcp"

\* A field of Ethernet after one of the tag is listed as one of the tag.
EthernetAfterTag(f, r) ==
    InOrder(r, LAMBDA s : Reads(s, "vlan"), LAMBDA s : Reads(s, "eth"))

\* One match is merged with one behind the next statement.
Joinable(stmts, b) == Cardinality({i \in DOMAIN stmts : IsMatch(stmts[i]) /\ Mergeable(stmts[i]) /\ stmts[i].e.base = b})
Waits(early, late) ==
    /\ Cardinality({i \in DOMAIN early : Mergeable(early[i])}) = 1
    /\ \E b \in {LL, NETWORK, TRANSPORT} : Joinable(early, b) = 1 /\ Joinable(late, b) > 0

MergedAcross(f, r) ==
    Len(r) = 3 /\ r[2] = Counter /\ IsMatch(r[3]) /\
    \E x \in {EvalMatch(proto_ctx_init(f), r[1])} :
    \E y \in {EvalMatch(x.c, r[3])} :
        /\ x.r = "ok" /\ y.r = "ok"
        /\ Waits(x.before \o <<x.e>>, y.before \o <<y.e>>)

\* The dependency of an option goes to the head of the rule.
OptionLate(f, r) == Mixed(f) /\ InOrder(r, LAMBDA s : s = Counter, Option)

\* A reset and an option of TCP end what was said of another header.
ImpliedByLast(f, r) ==
    \/ Mixed(f) /\ InOrder(r, LAMBDA s : Said(s, "nfproto") \/ Said(s, "protocol") \/ Reads(s, "eth"),
                          LAMBDA s : s = Reject("reset"))
    \/ InOrder(r, LAMBDA s : Reads(s, "ip") /\ s.e.f = "protocol", LAMBDA s : Option(s) /\ s.e.d = "tcp")

\* What belongs at the head of the rule is put before the header it is in.
HeadTooEarly(f, r) ==
    \/ InOrder(r, LAMBDA s : Reads(s, "vlan"), LAMBDA s : Option(s) \/ s.s = "reject")
    \/ f = "inet" /\ InOrder(r, LAMBDA s : Reads(s, "eth"), LAMBDA s : s \in Messages)

Excluded(f, r) ==
    \/ TypeOfTagged(f, r) \/ EthernetAfterTag(f, r) \/ MergedAcross(f, r)
    \/ OptionLate(f, r) \/ ImpliedByLast(f, r) \/ HeadTooEarly(f, r)

\* Statements that are put in threes.
Few(f) ==
    {P("eth", "saddr", "1"), P("vlan", "id", "1"), P("ip", "saddr", "1"), P("ip", "protocol", "tcp"),
     P("tcp", "dport", "1"), P("icmp", "id", "1"), P("th", "dport", "1"), Is(Meta("l4proto"), "tcp"),
     Is(Meta("protocol"), IF f = "ip6" THEN "ip6" ELSE "ip")}

MCFamilies == {"ip", "ip6", "inet", "bridge", "netdev"}
MCRules ==
    [f \in MCFamilies |->
        {r \in {<<m, n>> : m, n \in Statements(f)}
            \cup {<<m, Counter, n>> : m, n \in Statements(f)}
            \cup {<<m, n>> : m \in Statements(f), n \in Rejects}
            \cup {<<n, Counter>> : n \in Rejects}
            \cup {<<m, n, o>> : m, n, o \in Few(f)}
            \cup {<<m, n, o>> : m, n \in Few(f), o \in Rejects} : ~Excluded(f, r)}]

Packet(ether, tag, l3, l4, type, a, b, lucky) ==
    [ether |-> ether, tag |-> tag, l3 |-> l3, l4 |-> l4, type |-> type, a |-> a, b |-> b,
     lucky |-> lucky]

MessageTypes(l4) ==
    IF l4 = "icmp" THEN {"echo-request", "echo-reply", "unreachable"}
    ELSE IF l4 = "icmpv6" THEN {"echo6-request", "echo6-reply", "too-big"} ELSE {"none"}

Transport(l3) ==
    IF l3 = "ip" THEN {"tcp", "udp", "icmp", "other"}
    ELSE IF l3 = "ip6" THEN {"tcp", "udp", "icmpv6", "other"} ELSE {"other"}

Inside(l3s) ==
    UNION {UNION {{<<l3, l4, type>> : type \in MessageTypes(l4)} : l4 \in Transport(l3)} : l3 \in l3s}

MCPackets ==
    [f \in MCFamilies |->
        {p \in {Packet(e, t, x[1], x[2], x[3], a, b, lucky) :
            e \in IF f \in {"bridge", "netdev"} THEN {TRUE} ELSE BOOLEAN,
            t \in IF f \in {"bridge", "netdev"} THEN BOOLEAN ELSE {FALSE},
            x \in Inside(IF f \in L3 THEN {f} ELSE IF f = "inet" THEN L3 ELSE L3 \cup {"other"}),
            a \in {"1", "2"}, b \in {"1", "2"}, lucky \in BOOLEAN} :
            p.tag => p.l4 \notin {"icmp", "icmpv6"}}]
=============================================================================
