---------------------------- MODULE Delinearize ----------------------------
(***************************************************************************)
(* netlink_delinearize.c: from the instructions of a rule back to          *)
(* statements, by keeping for every register the expression it holds.      *)
(*                                                                         *)
(* The context is a record: the expressions in the registers, the          *)
(* statements so far and whether an error was reported.  The operators     *)
(* return the context after an instruction.                                *)
(***************************************************************************)
EXTENDS RuleMachine

NewParse == [regs |-> [r \in 1..NumWords |-> NoExpr], stmts |-> <<>>, err |-> FALSE]

\* netlink_parse_register
ParseRegister(r) ==
    IF r >= NFT_REG_1 /\ r <= 4 THEN 1 + (r - NFT_REG_1) * RegWords
    ELSE IF r >= NFT_REG32_00 THEN 1 + r - NFT_REG32_00
    ELSE r

SetRegister(c, r, e) ==
    LET reg == ParseRegister(r)
    IN IF reg \in 1..NumWords THEN [c EXCEPT !.regs[reg] = e] ELSE [c EXCEPT !.err = TRUE]

\* netlink_get_register: NoExpr is an error of the caller.
GetExpr(c, r) ==
    LET reg == ParseRegister(r)
    IN IF reg \in 1..NumWords THEN c.regs[reg] ELSE NoExpr

Error(c) == [c EXCEPT !.err = TRUE]
Statement(c, s) == [c EXCEPT !.stmts = Append(@, s)]

RawValue(bytes) ==
    [e |-> "value", v |-> Num(bytes), order |-> "big", len |-> Len(bytes) * ByteBits]

\* netlink_parse_concat_expr: the expressions of the registers from word reg
\* on that make up len bits; none when a register is empty.
RECURSIVE ConcatParts(_, _, _)
ConcatParts(c, reg, len) ==
    IF len = 0 THEN <<>>
    ELSE IF reg \notin 1..NumWords \/ len < 0 THEN <<NoExpr>>
    ELSE LET e == c.regs[reg]
         IN IF e = NoExpr \/ e.len = 0 THEN <<NoExpr>>
            ELSE <<e>> \o ConcatParts(c, reg + netlink_register_space(e.len),
                                      len - netlink_padded_len(e.len))

ParseConcat(c, r, len) ==
    LET parts == ConcatParts(c, ParseRegister(r), len)
    IN IF NoExpr \in {parts[i] : i \in DOMAIN parts} THEN NoExpr
       ELSE [e |-> "concat", parts |-> parts, len |-> len]

\* The operand in register r of an instruction that reads len bits: what the
\* register holds, or a concatenation when that is too short.
OperandOf(c, r, len) ==
    LET e == GetExpr(c, r)
    IN IF e # NoExpr /\ e.len < len THEN ParseConcat(c, r, len) ELSE e

---------------------------------------------------------------------------
(* Instructions that leave an expression in a register *)

LoadOf(i) == [e |-> "load", key |-> i.key, off |-> i.off, len |-> i.len * ByteBits]
\* netlink_parse_payload_expr, _meta_expr, _ct_expr, _exthdr, _rt, ...
ParseLoad(c, i) ==
    SetRegister(c, i.dreg, LoadOf(i))

\* netlink_parse_immediate
ParseImmediate(c, i) ==
    IF i.dreg = NFT_REG_VERDICT THEN Statement(c, [s |-> "verdict", verdict |-> i.data])
    ELSE SetRegister(c, i.dreg, RawValue(i.data))

Binop(op, left, right) ==
    [e |-> "binop", op |-> op, left |-> left, order |-> "big", len |-> left.len,
     right |-> [e |-> "value", v |-> right, order |-> "big", len |-> left.len]]

\* netlink_parse_bitwise_bool: mask and xor become at most an AND, a XOR and
\* an OR.
\* Variant: all of the xor is taken for an OR.
ParseBoolAsOr(left, i) ==
    LET x == Num(i.xor)
        masked == Binop("and", left, Num(i.mask))
    IN IF x = 0 THEN masked ELSE Binop("or", masked, x)
ParseBool(left, i) ==
    LET bits == Len(i.mask) * ByteBits
        m0 == Num(i.mask)
        x0 == Num(i.xor)
        plain == m0 = Ones(bits) /\ x0 = 0
        o == IF plain THEN 0 ELSE Xor(And(m0, x0), x0)
        x == IF plain THEN x0 ELSE And(x0, m0)
        m == IF plain THEN m0 ELSE Or(m0, o)
        masked == IF left.len > 0 /\ m = Ones(left.len) THEN left ELSE Binop("and", left, m)
        xored == IF x # 0 THEN Binop("xor", masked, x) ELSE masked
    IN IF o # 0 THEN Binop("or", xored, o) ELSE xored

\* netlink_parse_bitwise
ParseBitwise(c, i) ==
    LET left == GetExpr(c, i.sreg)
    IN IF left = NoExpr THEN Error(c)
       ELSE SetRegister(c, i.dreg,
                        IF i.op = "bool" THEN ParseBool(left, i) ELSE Binop(i.op, left, i.data))

\* netlink_parse_byteorder
ParseByteorder(c, i) ==
    LET arg == GetExpr(c, i.sreg)
    IN IF arg = NoExpr THEN Error(c)
       ELSE SetRegister(c, i.dreg, [e |-> "unary", arg |-> arg, len |-> arg.len])

\* netlink_parse_hash
ParseHash(c, i) ==
    LET arg == OperandOf(c, i.sreg, i.len * ByteBits)
    IN IF arg = NoExpr THEN Error(c)
       ELSE SetRegister(c, i.dreg,
                        [e |-> "hash", arg |-> arg, mod |-> i.mod, len |-> WordBits])

---------------------------------------------------------------------------
(* Instructions that are a statement *)

IsString(e) == e.e = "load" /\ Keys[e.key].string

\* netlink_parse_cmp: data shorter than what was loaded are a prefix.
ParseCmp(c, i) ==
    LET left == GetExpr(c, i.sreg)
        value == RawValue(i.data)
        prefix == [e |-> "prefix", v |-> value.v * 2^(left.len - value.len), order |-> "big",
                   plen |-> value.len, len |-> left.len, string |-> IsString(left)]
        right == IF left.len > value.len THEN prefix ELSE value
    IN IF left = NoExpr THEN Error(c)
       ELSE Statement(c, [s |-> "match", op |-> i.op, left |-> left, right |-> right])

\* netlink_parse_range
ParseRange(c, i) ==
    LET left == GetExpr(c, i.sreg)
    IN IF left = NoExpr THEN Error(c)
       ELSE Statement(c, [s |-> "match", op |-> "neq", left |-> left,
                          right |-> [e |-> "range", left |-> RawValue(i.from),
                                     right |-> RawValue(i.to)]])

\* netlink_parse_lookup: a match, a map in a register or a verdict map.
ParseLookup(c, i) ==
    LET left == OperandOf(c, i.sreg, i.set.klen)
        map == [e |-> "map", key |-> left, set |-> i.set, len |-> 0]
    IN IF left = NoExpr THEN Error(c)
       ELSE IF i.dreg = -1
       THEN Statement(c, [s |-> "match", op |-> IF i.inv THEN "neq" ELSE "eq", left |-> left,
                          right |-> [e |-> "set", set |-> i.set]])
       ELSE IF i.dreg = NFT_REG_VERDICT THEN Statement(c, [s |-> "vmap", map |-> map])
       ELSE SetRegister(c, i.dreg, map)

\* netlink_parse_payload_stmt, _meta_stmt, _ct_stmt and the statement of
\* netlink_parse_exthdr
ParseMangle(c, i) ==
    LET val == GetExpr(c, i.sreg)
    IN IF val = NoExpr THEN Error(c)
       ELSE Statement(c, [s |-> "mangle", to |-> LoadOf(i), val |-> val])

AddrSpace == netlink_padded_len(AddrLen)

\* is_nat_addr_map
IsNatAddrMap(addr) ==
    addr.e = "map" /\ addr.set.interval /\
    addr.set.dlen \in {2 * AddrSpace, 2 * (AddrSpace + WordBits)}
\* is_nat_proto_map
IsNatProtoMap(addr) == addr.e = "map" /\ addr.set.dlen = AddrSpace + WordBits

ExprRange(low, high) ==
    IF low = NoExpr THEN high ELSE [e |-> "range", left |-> low, right |-> high, len |-> low.len]

\* netlink_parse_nat.  An operand that is set but whose register is empty is
\* an error.
ParseNat(c, i) ==
    LET Get(r) == IF r = 0 THEN NoExpr ELSE GetExpr(c, r)
        Missing(r) == r # 0 /\ GetExpr(c, r) = NoExpr
        first == Get(i.amin)
        addr == IF i.amax # 0 /\ i.amax # i.amin THEN ExprRange(first, Get(i.amax)) ELSE first
        proto == IF i.pmax # 0 /\ i.pmax # i.pmin THEN ExprRange(Get(i.pmin), Get(i.pmax))
                 ELSE Get(i.pmin)
        Nat3(a, p, flags) ==
            Statement(c, [s |-> "nat", type |-> i.type, addr |-> a, proto |-> p, flags |-> flags])
    IN IF Missing(i.amin) THEN Error(c)
       ELSE IF IsNatAddrMap(first)
       THEN Nat3(first, NoExpr, IF first.set.dlen = 2 * AddrSpace THEN {} ELSE {"concat"})
       ELSE IF Missing(i.amax) THEN Error(c)
       ELSE IF IsNatProtoMap(addr) THEN Nat3(addr, NoExpr, {"concat"})
       ELSE IF Missing(i.pmin) \/ Missing(i.pmax) THEN Error(c)
       ELSE Nat3(addr, proto, {})

\* netlink_parse_masq and netlink_parse_redir
ParseRedir(c, i) ==
    LET Get(r) == IF r = 0 THEN NoExpr ELSE GetExpr(c, r)
        range == i.pmax # 0 /\ i.pmax # i.pmin
    IN IF (i.pmin # 0 /\ Get(i.pmin) = NoExpr) \/ (range /\ Get(i.pmax) = NoExpr) THEN Error(c)
       ELSE Statement(c, [s |-> "nat", type |-> i.type, addr |-> NoExpr,
                          proto |-> IF range THEN ExprRange(Get(i.pmin), Get(i.pmax))
                                    ELSE Get(i.pmin),
                          flags |-> {}])

\* netlink_parse_tproxy, netlink_parse_dup, netlink_parse_fwd
ParseOperands(c, i, r1, r2, With(_, _)) ==
    LET Get(r) == IF r = 0 THEN NoExpr ELSE GetExpr(c, r)
    IN IF (r1 # 0 /\ Get(r1) = NoExpr) \/ (r2 # 0 /\ Get(r2) = NoExpr) THEN Error(c)
       ELSE Statement(c, With(Get(r1), Get(r2)))

ParseTproxy(c, i) ==
    ParseOperands(c, i, i.addr, i.port,
                  LAMBDA a, p : [s |-> "tproxy", addr |-> a, port |-> p])
ParseFwd(c, i) ==
    ParseOperands(c, i, i.addr, i.dev, LAMBDA a, d : [s |-> "fwd", to |-> a, dev |-> d])
ParseDup(c, i) ==
    ParseOperands(c, i, i.addr, i.dev, LAMBDA a, d :
        IF a = NoExpr THEN [s |-> "dup", to |-> [dtype |-> <<"ifindex">>] @@ d, dev |-> NoExpr]
        ELSE [s |-> "dup", to |-> a, dev |-> d])

\* netlink_parse_queue
ParseQueue(c, i) ==
    LET Host(v) == [e |-> "value", v |-> v, order |-> "host", len |-> PortBytes * ByteBits]
        e == IF i.sreg # 0 THEN GetExpr(c, i.sreg)
             ELSE IF i.total > 1 THEN ExprRange(Host(i.num), Host(i.num + i.total - 1))
             ELSE Host(i.num)
    IN IF e = NoExpr THEN Error(c) ELSE Statement(c, [s |-> "queue", queue |-> e])

\* netlink_parse_objref
ParseObjref(c, i) ==
    IF i.sreg = 0 THEN Statement(c, [s |-> "objref", map |-> NoExpr, name |-> i.name])
    ELSE LET left == OperandOf(c, i.sreg, i.set.klen)
         IN IF left = NoExpr THEN Error(c)
            ELSE Statement(c, [s |-> "objref",
                               map |-> [e |-> "map", key |-> left, set |-> i.set, len |-> 0]])

\* netlink_parse_dynset
ParseDynset(c, i) ==
    LET key == OperandOf(c, i.sreg, i.set.klen)
        data == IF i.data = 0 THEN NoExpr ELSE OperandOf(c, i.data, i.set.dlen)
    IN IF key = NoExpr \/ (i.data # 0 /\ data = NoExpr) THEN Error(c)
       ELSE Statement(c, [s |-> "dynset", set |-> i.set, op |-> i.op, key |-> key,
                          data |-> data, stmts |-> i.stmts])

---------------------------------------------------------------------------
(* expr_may_merge_range, expr_postprocess_range: two neighbouring          *)
(* comparisons whose left sides are of one kind become a range.            *)

\* The kind of the left side, without a change of the byte order.
LeftKind(m) ==
    LET l == IF m.left.e = "unary" THEN m.left.arg ELSE m.left
    IN IF l.e = "load" THEN Keys[l.key].kind ELSE l.e

MayMerge(prev, s) ==
    /\ prev.s = "match" /\ s.s = "match"
    /\ LeftKind(prev) = LeftKind(s)
    /\ <<prev.op, s.op>> \in {<<"gte", "lte">>, <<"lt", "gt">>}

MergeRange(prev, s) ==
    [s |-> "match", op |-> IF s.op = "lte" THEN "eq" ELSE "neq", left |-> s.left,
     right |-> [e |-> "range", left |-> prev.right, right |-> s.right]]

\* The part of rule_parse_postprocess that looks at two statements.
PostprocessRanges(stmts) ==
    FoldLeft(LAMBDA done, s :
                 IF done # <<>> /\ MayMerge(Last(done), s)
                 THEN Append(Front(done), MergeRange(Last(done), s))
                 ELSE Append(done, s),
             <<>>, stmts)
=============================================================================
