---------------------------- MODULE PayloadList ----------------------------
(***************************************************************************)
(* Two passes over the matches of a rule: what the code is made shorter by *)
(* before it is sent (rule.c), and how the listing finds names and leaves  *)
(* out what later matches imply (netlink_delinearize.c, payload.c).        *)
(***************************************************************************)
EXTENDS Protocols, SequencesExt

Gone == [s |-> "gone"]
Remaining(stmts) == SelectSeq(stmts, LAMBDA s : s # Gone)
IsMatch(s) == s.s = "match"

-----------------------------------------------------------------------------
(***************************************************************************)
(* stmt_reduce.                                                            *)
(***************************************************************************)
payload_can_merge(e1, e2) ==
    LET total == e1.len + e2.len IN
    /\ e1.base = e2.base /\ e1.off + e1.len = e2.off
    /\ ~HasMask(e1) /\ ~HasMask(e2)
    /\ total <= 128
    /\ total <= 32 \/ e1.base = LL \/ e1.len > 32 \/ e2.len > 32

payload_expr_join(e1, e2, flag) ==
    [Unnamed(e1.base, e1.off, e1.len + e2.len) EXCEPT !.flag = flag]

\* The statement that stays is the one with the protocol.
Joined(stmts, last, this) ==
    LET m == stmts[last]
        n == stmts[this]
        kept == IF n.e.flag THEN this ELSE last
        both == [m EXCEPT !.e = payload_expr_join(m.e, n.e, n.e.flag), !.v = m.v \o n.v] IN
    [stmts EXCEPT ![last] = Gone, ![this] = Gone, ![kept] = both]

RECURSIVE MergeFrom(_, _, _)
MergeFrom(stmts, last, sa) ==
    IF sa = <<>> THEN stmts
    ELSE LET this == Head(sa)
             m == stmts[last]
             n == stmts[this] IN
         IF ~payload_can_merge(m.e, n.e) \/ m.op # n.op THEN MergeFrom(stmts, this, Tail(sa))
         ELSE MergeFrom(Joined(stmts, last, this), IF n.e.flag THEN this ELSE last, Tail(sa))

\* sa is where in the rule the matches are.
InPacketOrder(stmts, i, j) ==
    LET e == stmts[i].e
        f == stmts[j].e IN
    \/ e.base < f.base
    \/ e.base = f.base /\ e.off < f.off
    \/ e.base = f.base /\ e.off = f.off /\ i < j

MergeSorted(stmts, sa) == MergeFrom(stmts, Head(sa), Tail(sa))

payload_do_merge(stmts, sa) ==
    IF Len(sa) < 2 THEN stmts
    ELSE MergeSorted(stmts, SortSeq(sa, LAMBDA i, j : InPacketOrder(stmts, i, j)))

Mergeable(s) == s.e.k = "payload" /\ s.op \in {"==", "!="} /\ ~HasMask(s.e)

\* Only what is not the last statement is deleted.
Redundant(family, s) ==
    s.e.f = "protocol" /\ s.e.k = "meta" /\ s.op = "==" /\ s.v[1].val = family

\* One match that waits to be merged is not forgotten at other statements.
RECURSIVE ReduceFrom(_, _, _, _)
ReduceFrom(family, stmts, i, sa) ==
    IF i > Len(stmts) THEN payload_do_merge(stmts, sa)
    ELSE IF ~IsMatch(stmts[i])
    THEN IF Len(sa) < 2 THEN ReduceFrom(family, stmts, i + 1, sa)
         ELSE ReduceFrom(family, payload_do_merge(stmts, sa), i + 1, <<>>)
    ELSE ReduceFrom(family,
            IF Redundant(family, stmts[i]) /\ i < Len(stmts) THEN [stmts EXCEPT ![i] = Gone]
            ELSE stmts,
            i + 1, IF Mergeable(stmts[i]) THEN Append(sa, i) ELSE sa)

stmt_reduce(family, stmts) == Remaining(ReduceFrom(family, stmts, 1, <<>>))

\* What the kernel gets has no names, and what it says of a set is sorted (the
\* number of an echo reply is 0).  A reject does not say of which protocol the
\* message is.
Sorted(v) ==
    SortSeq(v, LAMBDA x, y : x.val = "echo-reply" /\ y.val # "echo-reply")

Code(stmts) ==
    [i \in DOMAIN stmts |->
        LET s == stmts[i] IN
        IF s.s = "reject" THEN Reject(IF s.how \in {"icmp", "icmpv6"} THEN "unreach" ELSE s.how)
        ELSE IF ~IsMatch(s) THEN s
        ELSE [s EXCEPT !.v = IF s.op = "in" THEN Sorted(@) ELSE @,
                       !.e = IF @.k = "payload" THEN Unnamed(@.base, @.off, @.len) ELSE @]]

-----------------------------------------------------------------------------
(***************************************************************************)
(* Names of fields.                                                        *)
(***************************************************************************)
\* The header at the offset, and where it starts.
RECURSIVE StackedAt(_, _, _, _)
StackedAt(headers, top, off, total) ==
    IF headers = <<>> THEN [d |-> top, skip |-> total]
    ELSE LET length == Desc[Head(headers)].length IN
         IF off < length THEN [d |-> Head(headers), skip |-> total]
         ELSE StackedAt(Tail(headers), top, off - length, total + length)

get_stacked_desc(c, e) ==
    LET top == c.desc[e.base] IN
    IF e.base # LL \/ e.off < Desc[top].length THEN [d |-> top, skip |-> 0]
    ELSE StackedAt(c.stacked, top, e.off, 0)

\* Which field of an ICMP message it is depends on the type, if that is known.
Fits(c, field) == field.dep = "any" \/ c.icmp = "none" \/ field.dep = c.icmp

First(fields, Test(_)) ==
    IF \E i \in DOMAIN fields : Test(fields[i])
    THEN {fields[CHOOSE i \in DOMAIN fields :
                    Test(fields[i]) /\ \A j \in 1..(i - 1) : ~Test(fields[j])]}
    ELSE {}

\* Which header the context has at a base must be one of that base.
Misplaced(c, e) ==
    c.desc[e.base] \notin {"none", "inet"} /\ Desc[c.desc[e.base]].base # e.base

\* The offset stays that of the load.
payload_expr_complete(c, e) ==
    IF c.desc[e.base] \in {"none", "inet"} THEN e
    ELSE LET at == get_stacked_desc(c, e)
             found == First(Desc[at.d].fields, LAMBDA field :
                        field.off + at.skip = e.off /\ field.len = e.len /\ Fits(c, field)) IN
         IF found = {} THEN e
         ELSE [e EXCEPT !.d = at.d, !.f = (CHOOSE field \in found : TRUE).name]

\* Fields that lie side by side from off on and have len bits.
RECURSIVE Spans(_, _, _)
Spans(fields, off, len) ==
    \/ len = 0
    \/ /\ fields # <<>>
       /\ LET field == Head(fields) IN
          IF field.off # off THEN Spans(Tail(fields), off, len)
          ELSE field.len <= len /\ Spans(Tail(fields), off + field.len, len - field.len)

\* The header is the one where the bytes of the load begin.
payload_expr_trim(c, e) ==
    LET bytes == [e EXCEPT !.off = @ - (@ % 8)]
        at == get_stacked_desc(c, bytes) IN
    /\ c.desc[e.base] # "none"
    /\ Spans(Desc[at.d].fields, e.off - at.skip, e.len)

\* The parts of a load.  What has no name starts where the stacked header does.
RECURSIVE ExpandFrom(_, _, _, _)
ExpandFrom(c, d, fields, e) ==
    IF fields = <<>> THEN <<Unnamed(e.base, e.off, e.len)>>
    ELSE LET field == Head(fields)
             part == Payload(d, field.name) IN
         IF field.off # e.off \/ ~Fits(c, field) THEN ExpandFrom(c, d, Tail(fields), e)
         ELSE IF field.len >= e.len THEN <<[part EXCEPT !.len = e.len]>>
         ELSE <<part>> \o ExpandFrom(c, d, Tail(fields),
                                     [e EXCEPT !.off = @ + field.len, !.len = @ - field.len])

payload_expr_expand(c, e) ==
    LET at == get_stacked_desc(c, e) IN
    IF c.desc[e.base] \in {"none", "unknown"} THEN <<e>>
    ELSE ExpandFrom(c, at.d, Desc[at.d].fields, [e EXCEPT !.off = @ - at.skip])

-----------------------------------------------------------------------------
(***************************************************************************)
(* Dependencies: the last match of a protocol key below each base, and     *)
(* where it is in the listing so far.  The type of an echo is not stored.  *)
(*                                                                         *)
(* l: context, dependencies, ICMP type, statements.                        *)
(***************************************************************************)
Nothing == [b \in 1..4 |-> 0]

payload_dependency_get(l, base) ==
    IF l.deps[base] # 0 THEN l.deps[base] ELSE IF base = TRANSPORT THEN l.deps[4] ELSE 0

payload_dependency_exists(l, base) == base # 0 /\ payload_dependency_get(l, base) # 0

Dependency(l, base) == l.out[payload_dependency_get(l, base)]

payload_dependency_release(l, base) ==
    LET i == payload_dependency_get(l, base) IN
    [l EXCEPT !.out[i] = Gone,
              !.deps[IF l.deps[base] # 0 THEN base ELSE 4] = 0]

payload_dependency_store(l, m, i, base) ==
    LET value == m.v[1].val
        icmp == m.e.d \in {"icmp", "icmpv6"} /\ m.e.len = 8
        echo == icmp /\ EchoOf(value) \in {"echo-request", "echo6-request"} IN
    [l EXCEPT !.icmp = IF ~icmp THEN @ ELSE IF m.e.d = "icmp" THEN EchoOf(value) ELSE value,
              !.deps[base + 1] = IF echo THEN @ ELSE i]

\* The type of an ICMP field is given back by the field.
payload_may_dependency_kill_icmp(l, e, dep) ==
    LET type == IF e.f = "none" THEN "any" ELSE FieldNamed(e.d, e.f).dep IN
    type # "any" /\ dep.e.d = e.d /\ l.icmp = type

\* A header that is stacked on another one says what the other one's type is.
payload_may_dependency_kill_ll(dep) ==
    /\ dep.e.d # "vlan"
    /\ dep.e.d = "eth" /\ dep.v[1].len = 16 => dep.v[1].val = "vlan"

\* Variant: a match of the protocol field of IP is implied in mixed families, too.
MayKillInMixed(l, e) ==
    LET dep == Dependency(l, e.base)
        field == dep.e.k = "payload" IN
    /\ Mixed(l.c.family) /\ field /\ dep.op = "==" /\ e.base = dep.e.base =>
            ~e.flag /\ (e.base = LL => payload_may_dependency_kill_ll(dep))
    /\ e.base = TRANSPORT /\ dep.e.base = TRANSPORT /\ dep.e.d \in {"icmp", "icmpv6"} =>
            payload_may_dependency_kill_icmp(l, e, dep)

payload_may_dependency_kill(l, e) ==
    LET dep == Dependency(l, e.base)
        field == dep.e.k = "payload" IN
    /\ ~(Mixed(l.c.family) /\ field /\ dep.e.base = NETWORK /\ dep.e.d \in L3
         /\ e.base = TRANSPORT)
    /\ Mixed(l.c.family) /\ field /\ dep.op = "==" /\ e.base = dep.e.base =>
            ~e.flag /\ (e.base = LL => payload_may_dependency_kill_ll(dep))
    /\ e.base = TRANSPORT /\ dep.e.base = TRANSPORT /\ dep.e.d \in {"icmp", "icmpv6"} =>
            payload_may_dependency_kill_icmp(l, e, dep)

payload_dependency_kill(l, e) ==
    IF e.d # "none" /\ payload_dependency_exists(l, e.base) /\ payload_may_dependency_kill(l, e)
    THEN payload_dependency_release(l, e.base) ELSE l

-----------------------------------------------------------------------------
(***************************************************************************)
(* One statement of the listing.                                           *)
(***************************************************************************)
\* The first parts of v, of len bits in all, and what is left of the first
\* of them that has more.
RECURSIVE constant_expr_splice(_, _)
constant_expr_splice(v, len) ==
    IF len = 0 THEN <<<<>>, v>>
    ELSE LET part == Head(v) IN
         IF part.len > len
         THEN <<<<[part EXCEPT !.len = len]>>, <<[part EXCEPT !.len = @ - len]>> \o Tail(v)>>
         ELSE LET rest == constant_expr_splice(Tail(v), len - part.len) IN
              <<<<part>> \o rest[1], rest[2]>>

payload_is_stacked(c, m) ==
    LET known == c.desc[m.e.base] IN
    /\ m.e.flag /\ m.op = "=="
    /\ known # "none" /\ m.v[1].val \in Desc[known].up
    /\ Desc[m.v[1].val].base = Desc[known].base

Appended(l, m) ==
    [l EXCEPT !.out = Append(@, m), !.c = IF m.op = "==" THEN pctx_update(@, m) ELSE @]

StoredIfProtocol(l, m, base) ==
    IF m.op = "==" /\ m.e.flag THEN payload_dependency_store(l, m, Len(l.out), base) ELSE l

\* The first part of a load, with its part of the value.
ExpandPart(l, m, base) == StoredIfProtocol(payload_dependency_kill(Appended(l, m), m.e), m, base)

\* base goes down where a header is stacked, and stays down.
BaseAfter(c, m, base) ==
    IF payload_is_stacked(IF m.op = "==" THEN pctx_update(c, m) ELSE c, m) THEN base - 1 ELSE base

RECURSIVE ExpandInto(_, _, _, _, _)
ExpandInto(l, op, parts, v, base) ==
    IF parts = <<>> THEN l
    ELSE IF base # Head(parts).base THEN [l EXCEPT !.aborted = TRUE]
    ELSE LET spliced == constant_expr_splice(v, Head(parts).len)
             m == Match(Head(parts), op, spliced[1])
             below == BaseAfter(l.c, m, base) IN
         ExpandInto(ExpandPart(l, m, below), op, Tail(parts), spliced[2], below)

payload_match_expand(l, m) ==
    ExpandInto(l, m.op, payload_expr_expand(l.c, m.e), m.v, m.e.base)

\* Only the first value of a set says which message it is, and 0 says nothing.
payload_icmp_check(c, m) ==
    LET d == c.desc[m.e.base] IN
    IF /\ m.e.base = TRANSPORT /\ m.e.len = 8 /\ m.e.off = 0 /\ m.v[1].len = 8
       /\ c.icmp = "none" /\ d \in {"icmp", "icmpv6"}
    THEN [c EXCEPT !.icmp = IF m.v[1].val = "echo-reply" THEN @ ELSE m.v[1].val] ELSE c

\* Whether a name is wanted where the context has a header of another base.
Unexpected(l, m) == Misplaced(l.c, m.e) /\ (m.op = "in" \/ l.c.desc[m.e.base] # "unknown")

Named(l, m) == [m EXCEPT !.e = payload_expr_complete(l.c, @)]

LookedUp(l, m) == payload_dependency_kill([l EXCEPT !.out = Append(@, m)], m.e)

payload_set_postprocess(l, m) == LookedUp(l, Named(l, m))

payload_match_postprocess(l, m) ==
    IF Unexpected(l, m) THEN [l EXCEPT !.aborted = TRUE]
    ELSE IF m.op # "in" THEN payload_match_expand(l, m)
    ELSE payload_set_postprocess([l EXCEPT !.c = payload_icmp_check(@, m)], m)

\* Bits of a field need no mask in the listing.
binop_postprocess(l, m) ==
    IF l.c.desc[m.e.base] # "none" /\ Desc[l.c.desc[m.e.base]].base # m.e.base
    THEN [l EXCEPT !.aborted = TRUE]
    ELSE IF payload_expr_trim(l.c, m.e) THEN payload_match_postprocess(l, m)
    ELSE [l EXCEPT !.out = Append(@, m)]

\* The network protocol a dependency stands for.
ProtocolOf(dep) ==
    IF \/ dep.e.k = "meta" /\ dep.e.f \in {"nfproto", "protocol"}
       \/ dep.e.k = "payload" /\ dep.e.base = LL /\ dep.e.f = "type"
    THEN dep.v[1].val ELSE "any"

\* ICMP goes with IP, ICMPv6 with IPv6.
meta_may_dependency_kill(l, m) ==
    LET network == ProtocolOf(Dependency(l, NETWORK)) IN
    \/ ~payload_dependency_exists(l, NETWORK)
    \/ network = "any"
    \/ IF Mixed(l.c.family)
       THEN m.e.f = "l4proto" =>
                /\ m.v[1].val \in {"icmp", "icmpv6"}
                /\ <<network, m.v[1].val>> \notin {<<"ip", "icmpv6">>, <<"ip6", "icmp">>}
       ELSE l.c.family = network

meta_dependency_kill(l, m) ==
    IF payload_dependency_exists(l, m.e.base) /\ meta_may_dependency_kill(l, m)
    THEN payload_dependency_release(l, m.e.base) ELSE l

meta_match_postprocess(l, m) ==
    IF m.op = "==" THEN StoredIfProtocol(meta_dependency_kill(Appended(l, m), m), m, m.e.base)
    ELSE [l EXCEPT !.out = Append(@, m)]

exthdr_dependency_kill(l, e) ==
    LET base == IF e.d = "tcp" THEN TRANSPORT ELSE NETWORK IN
    IF payload_dependency_exists(l, base) THEN payload_dependency_release(l, base) ELSE l

\* The message named last is the one a reject without a name sends.
stmt_reject_postprocess(l, s) ==
    LET base == IF Mixed(l.c.family) THEN NETWORK ELSE TRANSPORT
        implied == IF Mixed(l.c.family) THEN s.how # "icmpx" ELSE s.how = "reset"
        how == IF s.how = "reset" THEN "reset"
               ELSE IF Mixed(l.c.family) /\ s.how = "unreach" /\ Carried(l.c) # {}
               THEN MessageOf(l.c.desc[NETWORK]) ELSE "default"
        listed == [l EXCEPT !.out = Append(@, Reject(how))] IN
    IF implied /\ payload_dependency_exists(l, base) THEN payload_dependency_release(listed, base)
    ELSE listed

\* Variant: dependencies are kept.
DependenciesKept(l) == l

\* A statement with an effect comes between what is before and after it.
rule_maybe_reset_payload_deps(l) == [l EXCEPT !.deps = Nothing, !.icmp = "none"]

Listed(l, s) ==
    IF s.s = "reject" THEN rule_maybe_reset_payload_deps(stmt_reject_postprocess(l, s))
    ELSE IF ~IsMatch(s) THEN rule_maybe_reset_payload_deps([l EXCEPT !.out = Append(@, s)])
    ELSE IF s.e.k = "exthdr"
    THEN exthdr_dependency_kill([l EXCEPT !.out = Append(@, s)], s.e)
    ELSE IF s.e.k = "meta" THEN meta_match_postprocess(l, s)
    ELSE IF HasMask(s.e) THEN binop_postprocess(l, s)
    ELSE payload_match_postprocess(l, s)

Unlisted(family) ==
    [c |-> proto_ctx_init(family), deps |-> Nothing, icmp |-> "none", out |-> <<>>,
     aborted |-> FALSE]

\* What is read when the listing is.
Reparsed(stmts) ==
    [i \in DOMAIN stmts |->
        LET s == stmts[i] IN
        IF ~IsMatch(s) \/ s.e.k # "payload" THEN s
        ELSE IF s.e.d = "none" THEN [s EXCEPT !.e = Unnamed(@.base, @.off, @.len)]
        ELSE [s EXCEPT !.e = [Payload(@.d, @.f) EXCEPT !.len = s.e.len]]]
=============================================================================
