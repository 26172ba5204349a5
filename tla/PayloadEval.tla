---------------------------- MODULE PayloadEval ----------------------------
(***************************************************************************)
(* Evaluation of the statements of a rule (evaluate.c, payload.c): a field *)
(* of a header is read only after matches that say the packet has the      *)
(* header.  What the rule does not say is put before the statement.        *)
(*                                                                         *)
(* A result has the context that follows, the dependencies that go to the  *)
(* head of the rule and before the statement, how many of them are counted *)
(* in num_stmts, and the expression or statement as evaluated.  Its offset *)
(* counts from the first header of its base.                               *)
(***************************************************************************)
EXTENDS Protocols

Result(r, c, before, counted, e) ==
    [r |-> r, c |-> c, head |-> <<>>, before |-> before, counted |-> counted, e |-> e]
Ok(c, before, counted, e) == Result("ok", c, before, counted, e)
Refused(c, e) == Result("refused", c, <<>>, 0, e)
Aborted(c, e) == Result("aborted", c, <<>>, 0, e)

\* Matches in front of those another result already has.
Before(ms, counted, x) == [x EXCEPT !.before = ms \o @, !.counted = counted + @]

\* The dependency goes to the head of the rule and is not counted.
AtHead(x) == [x EXCEPT !.head = x.before, !.before = <<>>, !.counted = 0]

\* Variant: offsets are those in the field's own header.
NotShifted(c, e) == e

\* Headers of the link layer may be stacked.
Shifted(c, e) == IF e.base = LL THEN [e EXCEPT !.off = @ + LengthOf(c.stacked)] ELSE e

\* The match that says d carries up.
ProtocolMatch(c, d, up) ==
    LET key == Desc[d].key IN
    Is(IF \E field \in FieldsOf(d) : field.name = key THEN Shifted(c, Payload(d, key))
       ELSE Meta(key), up)

DependsOn(c, m, e) == Ok(pctx_update(c, m), <<m>>, 1, e)

payload_add_dependency(c, d, e, up) ==
    IF up \in Desc[d].up THEN DependsOn(c, ProtocolMatch(c, d, up), e) ELSE Refused(c, e)

IiftypeDependency(c, e) ==
    IF e.d \in {"eth"} \cup Desc["eth"].up THEN DependsOn(c, Is(Meta("iiftype"), "ether"), e)
    ELSE Refused(c, e)

\* x, and then what Next makes of the context x leaves.
Then(x, Next(_)) == IF x.r = "ok" THEN Before(x.before, x.counted, Next(x.c)) ELSE x

\* Nothing is known of the network header.  That of ICMP is put before the
\* statement, too, but not counted.
SpecialDependency(c, e) ==
    IF e.d \notin {"icmp", "icmpv6"} THEN payload_add_dependency(c, "inet_service", e, e.d)
    ELSE LET network == IF e.d = "icmp" THEN "ip" ELSE "ip6" IN
         Then([payload_add_dependency(c, c.desc[LL], e, network) EXCEPT !.counted = 0],
              LAMBDA known : payload_add_dependency(known, network, e, e.d))

\* Variant: the type of the Ethernet frame is asked for in a bridge, too.
DependencyOnFrame(c, e) ==
    IF e.base < HookBase(c.family) THEN IiftypeDependency(c, e)
    ELSE LET below == c.desc[e.base - 1] IN
         IF below = "none" THEN SpecialDependency(c, e)
         ELSE payload_add_dependency(c, below, e, e.d)

payload_gen_dependency(c, e) ==
    IF e.base < HookBase(c.family) THEN IiftypeDependency(c, e)
    ELSE LET below == c.desc[e.base - 1] IN
         IF below = "none" THEN SpecialDependency(c, e)
         ELSE payload_add_dependency(c,
                IF c.family = "bridge" /\ below = "eth" /\ e.d \in L3 THEN "netdev" ELSE below,
                e, e.d)

-----------------------------------------------------------------------------
(***************************************************************************)
(* Fields of some ICMP messages only.                                      *)
(***************************************************************************)
Reply(type) == IF type = "echo-request" THEN "echo-reply" ELSE "echo6-reply"

\* Variant: the new statement is not counted.
IcmpDependencyUncounted(c, e) ==
    LET type == FieldNamed(e.d, e.f).dep
        key == Payload(e.d, "type")
        m == IF type \in {"echo-request", "echo6-request"}
             THEN Match(key, "in", <<[len |-> 8, val |-> type], [len |-> 8, val |-> Reply(type)]>>)
             ELSE Is(key, type) IN
    IF type = "any" \/ c.icmp = type THEN Ok(c, <<>>, 0, e)
    ELSE IF c.icmp # "none" THEN Refused(c, e)
    ELSE Ok([c EXCEPT !.icmp = type], <<m>>, 0, e)

payload_gen_icmp_dependency(c, e) ==
    LET type == FieldNamed(e.d, e.f).dep
        key == Payload(e.d, "type")
        m == IF type \in {"echo-request", "echo6-request"}
             THEN Match(key, "in", <<[len |-> 8, val |-> type], [len |-> 8, val |-> Reply(type)]>>)
             ELSE Is(key, type) IN
    IF type = "any" \/ c.icmp = type THEN Ok(c, <<>>, 0, e)
    ELSE IF c.icmp # "none" THEN Refused(c, e)
    ELSE Ok([c EXCEPT !.icmp = type], <<m>>, 1, e)

-----------------------------------------------------------------------------
(***************************************************************************)
(* A header where the context knows of another one.                        *)
(***************************************************************************)
conflict_resolution_gen_dependency(c, e) ==
    IF e.base # LL THEN Aborted(c, e) ELSE DependsOn(c, ProtocolMatch(c, c.desc[LL], e.d), e)

\* The conflict may be one with a protocol that only says which hook it is.
IsDummy(c, e) == e.base = LL /\ c.desc[LL] \in {"inet", "netdev"}

InStack(c, e) == e.base = LL /\ e.d \in {c.stacked[i] : i \in DOMAIN c.stacked}

\* e is to be carried by d.
Stack(c, d, e) ==
    IF c.desc[e.base + 1] # "none" \/ e.d \notin Desc[d].up
    THEN IF c.desc[e.base] = e.d THEN Ok(c, <<>>, 0, e) ELSE Refused(c, e)
    ELSE Then(conflict_resolution_gen_dependency(c, e),
              LAMBDA known : Ok(known, <<>>, 0, Shifted(known, e)))

resolve_protocol_conflict(c, e) ==
    IF IsDummy(c, e) THEN Then(IiftypeDependency(c, e), LAMBDA known : Stack(known, e.d, e))
    ELSE IF InStack(c, e) THEN Ok(c, <<>>, 0, e)
    ELSE Stack(c, c.desc[e.base], e)

\* Nothing was known of the header's base.
Behind(c, e) == [e EXCEPT !.off = @ + Desc[c.stacked[1]].length]

Known(c, e) ==
    IF c.desc[e.base] = e.d THEN payload_gen_icmp_dependency(c, e)
    ELSE IF e.base = LL /\ e.d \in Desc[c.desc[LL]].up
    THEN Then(conflict_resolution_gen_dependency(c, e),
              LAMBDA known : Ok(known, <<>>, 0, Behind(known, e)))
    ELSE Refused(c, e)

WithoutContext(c, e) == Then(payload_gen_dependency(c, e), LAMBDA known : Known(known, e))

expr_evaluate_payload(c, e) ==
    LET known == c.desc[e.base] IN
    IF e.raw THEN Ok(c, <<>>, 0, e)
    ELSE IF known = "none" THEN WithoutContext(c, e)
    ELSE IF Desc[known].base # e.base \/ proto_ctx_is_ambiguous(c, e.base) THEN Refused(c, e)
    ELSE IF known = e.d THEN payload_gen_icmp_dependency(c, Shifted(c, e))
    ELSE resolve_protocol_conflict(c, e)

expr_evaluate_meta(c, e) ==
    IF e.f = "nfproto" /\ c.family # "inet" THEN Refused(c, e) ELSE Ok(c, <<>>, 0, e)

\* The kernel itself looks for TCP where an option of TCP is read.
expr_evaluate_exthdr(c, e) ==
    IF e.d = "tcp" \/ c.desc[NETWORK] = e.d THEN Ok(c, <<>>, 0, e)
    ELSE IF c.desc[NETWORK] # "none" \/ c.desc[LL] = "none" THEN Refused(c, e)
    ELSE AtHead(payload_add_dependency(c, c.desc[LL], e, e.d))

expr_evaluate(c, e) ==
    IF e.k = "meta" THEN expr_evaluate_meta(c, e)
    ELSE IF e.k = "exthdr" THEN expr_evaluate_exthdr(c, e)
    ELSE expr_evaluate_payload(c, e)

\* What the match says holds for the statements after it.
Remembered(m, x) ==
    IF x.r = "ok" THEN [x EXCEPT !.c = pctx_update(@, m), !.e = m] ELSE x

Evaluated(m, x) == Remembered([m EXCEPT !.e = x.e], x)

EvalMatch(c, m) == Evaluated(m, expr_evaluate(c, m.e))

-----------------------------------------------------------------------------
(***************************************************************************)
(* Rejects.                                                                *)
(***************************************************************************)
stmt_evaluate_reject_default(c) ==
    IF ~Mixed(c.family) THEN MessageOf(c.family)
    ELSE IF c.desc[NETWORK] = "none" THEN "icmpx"
    ELSE IF Carried(c) = {} THEN "none" ELSE MessageOf(c.desc[NETWORK])

stmt_reject_gen_dependency(c, how) ==
    LET missing == IF how = "reset" THEN c.desc[TRANSPORT] = "none" ELSE c.desc[NETWORK] = "none"
        e == IF how = "reset" THEN Payload("tcp", "sport") ELSE Payload(NetworkOf(how), "saddr") IN
    IF missing THEN AtHead(payload_gen_dependency(c, e)) ELSE Ok(c, <<>>, 0, e)

\* Whether what is known of the packet allows for it.
RejectFits(c, how) ==
    LET network == c.desc[NETWORK] IN
    /\ how = "reset" /\ c.desc[TRANSPORT] # "none" =>
            /\ c.desc[TRANSPORT] = "tcp"
            /\ network # "none" => "tcp" \in Desc[network].up
    /\ ~Mixed(c.family) => how = "reset" \/ how = MessageOf(c.family)
    /\ c.family \in {"bridge", "netdev"} =>
            /\ c.desc[LL] \in {"eth", "vlan", "netdev"}
            /\ network # "none" => Carried(c) # {}
    /\ Mixed(c.family) /\ network # "none" /\ how \notin {"reset", "icmpx"} =>
            Carried(c) = {NetworkOf(how)}

RejectedBy(c, how, s) ==
    IF how = "none" \/ ~RejectFits(c, how) THEN Refused(c, s)
    ELSE [(IF how = "icmpx" THEN Ok(c, <<>>, 0, s) ELSE stmt_reject_gen_dependency(c, how))
            EXCEPT !.e = Reject(how)]

stmt_evaluate_reject(c, s) ==
    RejectedBy(c, IF s.how = "default" THEN stmt_evaluate_reject_default(c) ELSE s.how, s)

EvalStatement(c, s) ==
    IF s.s = "match" THEN EvalMatch(c, s)
    ELSE IF s.s = "reject" THEN stmt_evaluate_reject(c, s) ELSE Ok(c, <<>>, 0, s)
=============================================================================
