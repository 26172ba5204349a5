----------------------------- MODULE Protocols -----------------------------
(***************************************************************************)
(* Protocol headers and the context of a rule (proto.c, payload.c,         *)
(* meta.c): what the matches before a statement say about the packet's     *)
(* headers.                                                                *)
(*                                                                         *)
(* A protocol number is the name of the protocol it stands for, and so is  *)
(* the type of an ICMP message.  Headers nobody matches are left out.      *)
(***************************************************************************)
EXTENDS Naturals, Sequences, Functions, TLC

LL == 1
NETWORK == 2
TRANSPORT == 3

-----------------------------------------------------------------------------
(***************************************************************************)
(* Headers.  dep is the type of message an ICMP field is part of.          *)
(***************************************************************************)
Field(name, off, len) == [name |-> name, off |-> off, len |-> len, dep |-> "any"]
Of(field, type) == [field EXCEPT !.dep = type]

\* A key that is not among the fields is a key of meta.
Header(base, length, key, up, fields) ==
    [base |-> base, length |-> length, key |-> key, up |-> up, fields |-> fields]

L3 == {"ip", "ip6"}
L4 == {"tcp", "udp", "icmp", "icmpv6", "ah"}

Ports == <<Field("sport", 0, 16), Field("dport", 16, 16)>>

LinkHeaders ==
    [eth |-> Header(LL, 112, "type", L3 \cup {"vlan"},
        <<Field("daddr", 0, 48), Field("saddr", 48, 48), Field("type", 96, 16)>>),
     vlan |-> Header(LL, 32, "type", L3 \cup {"vlan"},
        <<Field("pcp", 0, 3), Field("dei", 3, 1), Field("id", 4, 12), Field("type", 16, 16)>>),
     netdev |-> Header(LL, 0, "protocol", L3 \cup {"vlan"}, <<>>)]

\* Headers of families and of rules that say nothing of the network.
Dummies ==
    [inet |-> Header(LL, 0, "nfproto", L3, <<>>),
     inet_service |-> Header(TRANSPORT, 0, "l4proto", L4, <<>>)]

Ip ==
    [ip |-> Header(NETWORK, 0, "l4proto", L4,
        <<Field("length", 16, 16), Field("id", 32, 16), Field("frag-off", 48, 16),
          Field("ttl", 64, 8), Field("protocol", 72, 8), Field("checksum", 80, 16),
          Field("saddr", 96, 32), Field("daddr", 128, 32)>>)]

Ip6 ==
    [ip6 |-> Header(NETWORK, 0, "l4proto", L4,
        <<Field("length", 32, 16), Field("nexthdr", 48, 8), Field("hoplimit", 56, 8),
          Field("saddr", 64, 128), Field("daddr", 192, 128)>>)]

Tcp ==
    [tcp |-> Header(TRANSPORT, 0, "none", {},
        Ports \o <<Field("sequence", 32, 32), Field("ackseq", 64, 32)>>)]

Udp ==
    [udp |-> Header(TRANSPORT, 0, "none", {},
        Ports \o <<Field("length", 32, 16), Field("checksum", 48, 16)>>)]

\* The ports of any transport header.
Th == [th |-> Header(TRANSPORT, 0, "none", {}, Ports)]

Ah ==
    [ah |-> Header(TRANSPORT, 0, "nexthdr", {"tcp", "udp", "ah"},
        <<Field("nexthdr", 0, 8), Field("hdrlength", 8, 8), Field("reserved", 16, 16),
          Field("spi", 32, 32)>>)]

Icmp ==
    [icmp |-> Header(TRANSPORT, 0, "type", {},
        <<Field("type", 0, 8), Field("code", 8, 8), Field("checksum", 16, 16),
          Of(Field("id", 32, 16), "echo-request"), Of(Field("sequence", 48, 16), "echo-request"),
          Of(Field("gateway", 32, 32), "redirect"), Of(Field("mtu", 48, 16), "unreachable")>>)]

Icmp6 ==
    [icmpv6 |-> Header(TRANSPORT, 0, "type", {},
        <<Field("type", 0, 8), Field("code", 8, 8), Field("checksum", 16, 16),
          Of(Field("mtu", 32, 32), "too-big"), Of(Field("id", 32, 16), "echo6-request"),
          Of(Field("sequence", 48, 16), "echo6-request")>>)]

Unknown == [unknown |-> Header(0, 0, "none", {}, <<>>)]

Desc ==
    LinkHeaders @@ Dummies @@ Ip @@ Ip6 @@ Tcp @@ Udp @@ Th @@ Ah @@ Icmp @@ Icmp6 @@ Unknown

FieldsOf(d) == Range(Desc[d].fields)
TheField(fields, f) == CHOOSE field \in Range(fields) : field.name = f
FieldNamed(d, f) == TheField(Desc[d].fields, f)

\* The type that stands for both of an echo's.
EchoOf(type) ==
    IF type = "echo-reply" THEN "echo-request"
    ELSE IF type = "echo6-reply" THEN "echo6-request" ELSE type

-----------------------------------------------------------------------------
(***************************************************************************)
(* Expressions: a field of a header, bits of a packet that have no name, a *)
(* key of meta, an option.  flag is EXPR_F_PROTOCOL, raw payload.is_raw.   *)
(***************************************************************************)
FieldOf(d, header, field) ==
    [k |-> "payload", d |-> d, f |-> field.name, base |-> header.base, off |-> field.off,
     len |-> field.len, raw |-> d = "th",
     flag |-> \/ field.name = header.key
              \/ <<d, field.name>> \in {<<"ip", "protocol">>, <<"ip6", "nexthdr">>}]

PayloadOf(d, header, f) == FieldOf(d, header, TheField(header.fields, f))
Payload(d, f) == PayloadOf(d, Desc[d], f)

\* Ports of a transport header nothing is known about have names, too.
Unnamed(base, off, len) ==
    IF base = TRANSPORT /\ len = 16 /\ off \in {0, 16}
    THEN Payload("th", IF off = 0 THEN "sport" ELSE "dport")
    ELSE [k |-> "payload", d |-> "none", f |-> "none", base |-> base, off |-> off,
          len |-> len, raw |-> TRUE, flag |-> FALSE]

MetaBase(key) == IF key = "l4proto" THEN NETWORK
                 ELSE IF key \in {"nfproto", "protocol"} THEN LL ELSE 0

Meta(key) ==
    [k |-> "meta", d |-> "meta", f |-> key, base |-> MetaBase(key), off |-> 0, len |-> 0,
     raw |-> FALSE, flag |-> key \in {"iiftype", "nfproto", "l4proto", "protocol"}]

\* The value of an option, or of an extension header, of d.
Exthdr(d, f) ==
    [k |-> "exthdr", d |-> d, f |-> f, base |-> 0, off |-> 0, len |-> 0,
     raw |-> FALSE, flag |-> FALSE]

\* Bits that are loaded with their neighbours and masked.
HasMask(e) == e.k = "payload" /\ (e.off % 8 # 0 \/ e.len % 8 # 0)

\* The parts of v are compared one after the other, with "in" any of them.
Match(e, op, v) == [s |-> "match", e |-> e, op |-> op, v |-> v]
Is(e, value) == Match(e, "==", <<[len |-> e.len, val |-> value]>>)

\* A reject answers with a reset of the TCP connection, with an ICMP or ICMPv6
\* message, with the one that fits the packet (icmpx), or with what fits the
\* rule (default).
Reject(how) == [s |-> "reject", how |-> how]
MessageOf(network) == IF network = "ip" THEN "icmp" ELSE "icmpv6"
NetworkOf(message) == IF message = "icmp" THEN "ip" ELSE "ip6"


-----------------------------------------------------------------------------
(***************************************************************************)
(* The context.                                                            *)
(***************************************************************************)
Mixed(family) == family \in {"inet", "bridge", "netdev"}
HookBase(family) == IF Mixed(family) THEN LL ELSE NETWORK
HookDesc(family) == IF family = "bridge" THEN "eth" ELSE family

proto_ctx_init(family) ==
    [family |-> family,
     desc |-> [b \in 1..4 |-> IF b = HookBase(family) THEN HookDesc(family) ELSE "none"],
     protos |-> {}, stacked |-> <<>>, icmp |-> "none", failed |-> FALSE]

proto_ctx_update(c, base, d) ==
    [c EXCEPT !.desc[base] = d,
              !.protos = IF base = TRANSPORT THEN @ \cup {d} ELSE @]

\* The network header, if the one below it carries it.
Carried(c) == {c.desc[NETWORK]} \cap L3 \cap Desc[c.desc[LL]].up

proto_ctx_is_ambiguous(c, base) == base = TRANSPORT /\ \E d, e \in c.protos : d # e

RECURSIVE LengthOf(_)
LengthOf(headers) ==
    IF headers = <<>> THEN 0 ELSE Desc[Head(headers)].length + LengthOf(Tail(headers))

PROTO_CTX_NUM_PROTOS == 16

\* Inside of a header of the same base there must be something to skip: that
\* header has a length, or the assertion fails.
PayloadUpdate(c, e, value) ==
    LET base == c.desc[e.base]
        inside == Desc[value].base = Desc[base].base
        stacks == inside /\ ~e.raw /\ Desc[value].base = LL
                  /\ Len(c.stacked) < PROTO_CTX_NUM_PROTOS IN
    IF value \notin Desc[base].up
    THEN IF base \in {"icmp", "icmpv6"} THEN [c EXCEPT !.icmp = EchoOf(value)] ELSE c
    ELSE IF inside /\ Desc[base].length = 0 THEN [c EXCEPT !.failed = TRUE]
    ELSE proto_ctx_update(
            IF stacks THEN [c EXCEPT !.stacked = Append(@, base)] ELSE c,
            Desc[value].base, value)

Or(d, known) == IF d \in known THEN d ELSE "unknown"

MetaUpdate(c, key, value) ==
    IF key = "iiftype"
    THEN IF c.family = "bridge" THEN c
         ELSE proto_ctx_update(c, LL, IF value = "ether" THEN "eth" ELSE "unknown")
    ELSE IF key = "nfproto" THEN proto_ctx_update(c, NETWORK, Or(value, L3))
    ELSE IF key = "l4proto" THEN proto_ctx_update(c, TRANSPORT, Or(value, L4))
    ELSE IF key = "protocol" /\ c.family \in {"netdev", "bridge"}
    THEN proto_ctx_update(c, NETWORK, Or(value, L3 \cup {"vlan"}))
    ELSE c

RECURSIVE UpdateFrom(_, _, _)
UpdateFrom(c, e, v) ==
    IF v = <<>> THEN c
    ELSE UpdateFrom(IF e.k = "meta" THEN MetaUpdate(c, e.f, Head(v).val)
                    ELSE PayloadUpdate(c, e, Head(v).val), e, Tail(v))

\* What a comparison that holds says about the packet.
pctx_update(c, m) ==
    IF m.e.flag /\ m.op \in {"==", "in"} THEN UpdateFrom(c, m.e, m.v) ELSE c
=============================================================================
