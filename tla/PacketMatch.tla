---------------------------- MODULE PacketMatch ----------------------------
(***************************************************************************)
(* What matches say about packets.                                         *)
(*                                                                         *)
(* The kernel (external) compares the bits at an offset from the start of  *)
(* the link layer, network or transport header, whatever they are.  Who    *)
(* writes a match means a field of a header.                               *)
(***************************************************************************)
EXTENDS Protocols

\* Of each family, a set of packets.  A packet is a record: whether it
\* came over Ethernet and whether the frame has a tag; protocols; the type
\* of an ICMP message; the values of the fields of each of two kinds.  Where
\* it has no field, it has by chance what is looked for (lucky) or has not.
CONSTANT Packets

HeadersAt(p, base) ==
    IF base = LL THEN IF ~p.ether THEN <<>> ELSE IF p.tag THEN <<"eth", "vlan">> ELSE <<"eth">>
    ELSE IF p.l3 \notin L3 THEN <<>>
    ELSE IF base = NETWORK THEN <<p.l3>>
    ELSE IF p.l4 \in L4 THEN <<p.l4>> ELSE <<>>

\* Some fields are those of one type of message.
Has(p, d, field) ==
    /\ \E i \in DOMAIN HeadersAt(p, Desc[d].base) : HeadersAt(p, Desc[d].base)[i] = d
    /\ field.dep \in {"any", EchoOf(p.type)}

FirstKind == {"saddr", "sport", "id", "ackseq", "checksum"}

Value(p, d, f) ==
    IF f = "type" /\ d \in {"eth", "vlan"} THEN IF d = "eth" /\ p.tag THEN "vlan" ELSE p.l3
    ELSE IF f = "type" THEN p.type
    ELSE IF f \in {"protocol", "nexthdr"} THEN p.l4
    ELSE IF f \in FirstKind THEN p.a ELSE p.b

\* A header may have options, which are of the first kind if there are any.
HasOption(p, d) == (IF d = "tcp" THEN p.l4 ELSE p.l3) = d /\ p.a = "1"

MetaValue(p, key) ==
    IF key = "iiftype" THEN IF p.ether THEN "ether" ELSE "other"
    ELSE IF key = "l4proto" THEN p.l4 ELSE p.l3

-----------------------------------------------------------------------------
(***************************************************************************)
(* Fields, each with its place in the packet.                              *)
(***************************************************************************)
Placed(d, field, start) ==
    [d |-> d, field |-> field, place |-> <<Desc[d].base, start + field.off, field.len>>]

AllFields ==
    UNION {{Placed(d, field, IF d = "vlan" THEN Desc["eth"].length ELSE 0) :
                field \in FieldsOf(d)} : d \in DOMAIN Desc \ {"th"}}

Values ==
    {"1", "2", "vlan", "other", "ether"} \cup L3 \cup L4
    \cup {"echo-request", "echo-reply", "unreachable", "redirect"}
    \cup {"echo6-request", "echo6-reply", "too-big"}

Equals(p, place, val) ==
    LET here == {x \in AllFields : x.place = place /\ Has(p, x.d, x.field)} IN
    IF here = {} THEN p.lucky ELSE \E x \in here : Value(p, x.d, x.field.name) = val

Such(family, Test(_)) == {p \in Packets[family] : Test(p)}

\* Tables, since they are looked up often.
WithBits ==
    [family \in DOMAIN Packets |->
        [place \in {x.place : x \in AllFields}, val \in Values |->
            Such(family, LAMBDA p : Equals(p, place, val))]]

Lucky == [family \in DOMAIN Packets |-> Such(family, LAMBDA p : p.lucky)]

WithMeta ==
    [family \in DOMAIN Packets |->
        [key \in {"iiftype", "l4proto", "nfproto", "protocol"}, val \in Values |->
            Such(family, LAMBDA p : MetaValue(p, key) = val)]]

WithField ==
    [family \in DOMAIN Packets |->
        [x \in {<<y.d, y.field.name>> : y \in AllFields} |->
            Such(family, LAMBDA p : Has(p, x[1], FieldNamed(x[1], x[2])))]]

WithValue ==
    [family \in DOMAIN Packets |->
        [x \in {<<y.d, y.field.name>> : y \in AllFields}, val \in Values |->
            Such(family, LAMBDA p : Value(p, x[1], x[2]) = val)]]

WithOption ==
    [family \in DOMAIN Packets |->
        [d \in L3 \cup {"tcp"}, val \in {"1", "2"} |->
            Such(family, LAMBDA p : HasOption(p, d) /\ p.b = val)]]

-----------------------------------------------------------------------------
(***************************************************************************)
(* The packets a match holds of.                                           *)
(***************************************************************************)
RECURSIVE BitsFrom(_, _, _, _)
BitsFrom(family, base, off, v) ==
    IF v = <<>> THEN Packets[family]
    ELSE LET place == <<base, off, Head(v).len>> IN
         (IF \E x \in AllFields : x.place = place THEN WithBits[family][place, Head(v).val]
          ELSE Lucky[family])
         \cap BitsFrom(family, base, off + Head(v).len, Tail(v))

\* Any of the values, or all of them, one after the other.
Compared(family, m, Equal(_)) ==
    IF m.op = "in" THEN UNION {Equal(<<m.v[i]>>) : i \in DOMAIN m.v}
    ELSE IF m.op = "!=" THEN Packets[family] \ Equal(m.v) ELSE Equal(m.v)

\* Nothing holds of an option that is not there.  The kernel looks for one of
\* a network header in what is not that header, too.
OptionIs(family, m) == WithOption[family][m.e.d, m.v[1].val]

\* What the kernel does.
Holds(family, m) ==
    IF m.e.k = "meta" THEN Compared(family, m, LAMBDA v : WithMeta[family][m.e.f, v[1].val])
    ELSE IF m.e.k = "exthdr"
    THEN OptionIs(family, m)
         \cup (IF m.e.d = "tcp" THEN {} ELSE Lucky[family] \ WithMeta[family]["protocol", m.e.d])
    ELSE Compared(family, m, LAMBDA v : BitsFrom(family, m.e.base, m.e.off, v))

\* What is meant.
Meant(family, m) ==
    IF m.e.k = "meta" \/ m.e.raw THEN Holds(family, m)
    ELSE IF m.e.k = "exthdr" THEN OptionIs(family, m)
    ELSE WithField[family][<<m.e.d, m.e.f>>] \cap
         Compared(family, m, LAMBDA v : WithValue[family][<<m.e.d, m.e.f>>, v[1].val])

\* The packets that come to each statement with an effect, and to the end.
RECURSIVE EffectsFrom(_, _, _, _)
EffectsFrom(family, stmts, packets, meant) ==
    IF stmts = <<>> THEN <<packets>>
    ELSE LET m == Head(stmts) IN
         IF m.s # "match"
         THEN <<packets>> \o EffectsFrom(family, Tail(stmts), packets, meant)
         ELSE EffectsFrom(family, Tail(stmts),
                packets \cap (IF meant THEN Meant(family, m) ELSE Holds(family, m)), meant)

EffectsOf(family, code) == EffectsFrom(family, code, Packets[family], FALSE)

\* The packets that can be rejected so.  Others do not come to any statement.
Rejectable(family, stmts) ==
    LET how == {stmts[i].how : i \in {j \in DOMAIN stmts : stmts[j].s = "reject"}} IN
    {p \in Packets[family] :
        /\ "reset" \in how => p.l4 = "tcp"
        /\ \A message \in how \cap {"icmp", "icmpv6"} : p.l3 = NetworkOf(message)}

EffectsMeant(family, rule) == EffectsFrom(family, rule, Rejectable(family, rule), TRUE)
=============================================================================
