---------------------------- MODULE Expressions ----------------------------
(***************************************************************************)
(* Expressions, as the parser makes them and as the evaluation leaves      *)
(* them: their types, and what evaluate.c computes from an expression      *)
(* without evaluating another.                                             *)
(*                                                                         *)
(* A type is a sequence of the names of its parts, <<>> is a null pointer. *)
(* The parser makes loads, symbols (a number or the characters of a        *)
(* string), "slash" (a prefix), ranges, binops, concats, braces, names of  *)
(* sets, maps, hashes, lists of flags, verdicts and mappings.  What a load *)
(* depends on in the packet is in PayloadEval.                             *)
(***************************************************************************)
EXTENDS RuleMachine

CONSTANT ObjNameLen  \* NFT_OBJ_MAXNAMELEN, in bits

---------------------------------------------------------------------------
(* Types and flags *)

Null == <<>>
Invalid == <<"invalid">>
Integer == <<"integer">>
Base(dtype) == IF Len(dtype) = 1 THEN Types[dtype[1]].base ELSE "none"
BaseType(dtype) == <<Base(dtype)>>
SizeOf(dtype) == FoldLeft(LAMBDA n, t : n + (IF Len(dtype) = 1 THEN Types[t].size
                                             ELSE netlink_padded_len(Types[t].size)),
                          0, dtype)
OrderOf(dtype) == IF Len(dtype) = 1 THEN Types[dtype[1]].order ELSE "none"
IsFlags(dtype) == Len(dtype) = 1 /\ Types[dtype[1]].bitmask

PartsOf(e) == {e.parts[i] : i \in DOMAIN e.parts}

\* EXPR_F_CONSTANT and EXPR_F_SINGLETON of an evaluated expression.
RECURSIVE IsConst(_)
IsConst(e) ==
    \/ e.e \in {"value", "verdict", "prefix", "range", "braces", "ref", "map"}
    \/ e.e = "concat" /\ \A i \in PartsOf(e) : IsConst(i)
RECURSIVE IsSingleton(_)
IsSingleton(e) ==
    \/ e.e \in {"value", "verdict"}
    \/ e.e = "concat" /\ \A i \in PartsOf(e) : IsSingleton(i)

IsInterval(e) == e.e \in {"prefix", "range"}
HasInterval(e) ==
    IsInterval(e) \/ (e.e = "concat" /\ \E i \in PartsOf(e) : IsInterval(i))

Constant(v, dtype, order, len) ==
    [e |-> "value", v |-> v, dtype |-> dtype, order |-> order, len |-> len]
\* binop_expr_alloc
MkBinop(op, left, right) ==
    [e |-> "binop", op |-> op, left |-> left, right |-> right,
     dtype |-> left.dtype, order |-> left.order, len |-> 0]
MkRange(left, right) ==
    [e |-> "range", left |-> left, right |-> right, dtype |-> left.dtype,
     order |-> "none", len |-> 0]
MkConcat(parts, len) ==
    [e |-> "concat", parts |-> parts, order |-> "none", len |-> len,
     dtype |-> FlattenSeq([i \in DOMAIN parts |-> parts[i].dtype])]

---------------------------------------------------------------------------
(* Contexts: the type, order and length that are expected, the key and set *)
(* around the expression, and what is known of the protocols.              *)

NoSet == [name |-> "none"]
Anonymous == ""

\* __expr_set_context
SetContext(x, dtype, order, len) ==
    [x EXCEPT !.dtype = dtype, !.order = order, !.len = len, !.maxval = 0, !.key = NoExpr]
NoContext(x) == SetContext(x, Null, "none", 0)
\* What one or two of a protocol's fields leave in the protocol context.
SeenProtocol(x, e) ==
    IF Keys[e.key].base = "transport" THEN [x EXCEPT !.transport = TRUE]
    ELSE IF Keys[e.key].base \in {"ip", "ip6"} THEN [x EXCEPT !.network = Keys[e.key].base]
    ELSE x

\* rule_evaluate: proto_ctx_init, and no context of expressions.
InitContext(family) ==
    [dtype |-> Null, order |-> "none", len |-> 0, maxval |-> 0, key |-> NoExpr, set |-> NoSet,
     family |-> family, transport |-> FALSE,
     network |-> IF family \in {"ip", "ip6"} THEN family ELSE "none"]

---------------------------------------------------------------------------
(* Fields of some bits *)

RoundUp(len) == NumBytes(len) * ByteBits
\* payload_needs_adjustment
NeedsAdjustment(e) == e.off % ByteBits # 0 \/ e.len % ByteBits # 0

\* expr_offset_shift: the bits right of the field, and what is loaded more.
OffsetShift(e) ==
    LET over == (e.off % ByteBits) + e.len - RoundUp(e.len)
    IN [shift |-> IF over <= 0 THEN -over ELSE RoundUp(over) - over,
        extra |-> IF over <= 0 THEN 0 ELSE RoundUp(over)]

\* expr_evaluate_bits
Bits(e) ==
    LET o == OffsetShift(e)
        masklen == e.len + o.shift
        mask == Constant(Ones(e.len) * 2^o.shift, BaseType(e.dtype), "host", masklen)
        and == [MkBinop("and", [e EXCEPT !.len = @ + o.extra], mask) EXCEPT !.len = masklen]
    IN IF o.shift = 0 THEN and
       ELSE [MkBinop("rshift", and, Constant(o.shift, BaseType(e.dtype), "host", 1))
             EXCEPT !.len = masklen]

PrefixMask(len, plen) == Ones(len) - Ones(len - plen)

Unary(e, order) ==
    [e |-> "unary", arg |-> e, dtype |-> e.dtype, order |-> order, len |-> e.len]

---------------------------------------------------------------------------
(* Sets: a record with the key, the data (NoExpr, or what stands for their *)
(* type), whether the data are ranges, flags, and, once evaluated, what    *)
(* the kernel gets.                                                        *)

MkSet(name, key, data, interval, flags) ==
    [e |-> "ref", name |-> name, key |-> key, data |-> data, interval |-> interval,
     flags |-> flags, dtype |-> key.dtype, order |-> "none", len |-> 0]

ElemKey(i) == IF i.e = "mapping" THEN i.left ELSE i

\* setelem_expr_to_range; strings are switched to their order of bytes.
ToRange(k) ==
    LET n == NumBytes(k.len)
        Switched(v) == IF Base(k.dtype) = "string" THEN NumIn(Raw(v, "host", n), "big") ELSE v
    IN IF k.e = "range" THEN k
       ELSE LET low == Constant(Switched(k.v), k.dtype, k.order, k.len)
                free == IF k.e = "prefix" THEN Ones(k.len - k.plen) ELSE 0
            IN MkRange(low, [low EXCEPT !.v = Or(@, free)])

\* interval_set_eval: all elements become ranges.  How ranges are merged is in
\* Intervals; those of a map must not overlap.
IntervalSetEval(s, b) ==
    IF "concat" \in b.flags \/ "interval" \notin b.flags \cup s.flags THEN b
    ELSE LET Ranged(i) == IF i.e = "mapping" THEN [i EXCEPT !.left = ToRange(@)] ELSE ToRange(i)
         IN [b EXCEPT !.elems = [j \in DOMAIN @ |-> Ranged(@[j])]]
Overlap(b) ==
    \E i, j \in DOMAIN b.elems :
        LET k == ElemKey(b.elems[i])
            l == ElemKey(b.elems[j])
        IN i < j /\ k.e = "range" /\ l.e = "range" /\
           k.left.v <= l.right.v /\ l.left.v <= k.right.v

---------------------------------------------------------------------------
(* alloc_nftnl_setelem: what the kernel gets of a set, as the keys that it *)
(* finds.                                                                  *)

Export(e) == Raw(e.v, e.order, NumBytes(e.len))
Switch(v, n) == NumIn(Raw(v, "big", n), "host")

\* The bytes of __netlink_gen_concat_key at the start or the end of a part of
\* a concatenation of intervals.
PartBytes(b) == Raw(b.v, IF Base(b.dtype) = "integer" THEN "big" ELSE b.order, NumBytes(b.len))
PartStart(i) ==
    CASE i.e = "range"  -> PartBytes(i.left)
      [] i.e = "prefix" -> Export(i)
      [] i.e = "value"  -> PartBytes(i)
PartEnd(i) ==
    CASE i.e = "range"  -> PartBytes(i.right)
      [] i.e = "prefix" ->
           LET free == Ones(i.len - i.plen)
               n == NumBytes(i.len)
           IN Export([i EXCEPT !.v = @ + IF i.order = "host" THEN Switch(free, n) ELSE free])
      [] i.e = "value"  -> PartBytes(i)

\* The keys from the start to the end of every part.
RECURSIVE Box(_)
Box(parts) ==
    IF parts = <<>> THEN {<<>>}
    ELSE LET i == Head(parts)
             n == Len(PartStart(i))
         IN {Pad(BigEndian(v, n)) \o rest :
               v \in Num(PartStart(i))..Num(PartEnd(i)), rest \in Box(Tail(parts))}

\* netlink_gen_concat_data, netlink_gen_range, netlink_gen_prefix and
\* netlink_gen_constant_data
LowOf(i) == IF i.e = "range" THEN Export(i.left) ELSE Export(i)
HighOf(i) ==
    CASE i.e = "range"  -> Export(i.right)
      [] i.e = "prefix" -> Export([i EXCEPT !.v = @ + Ones(i.len - i.plen)])
      [] i.e = "value"  -> Export(i)
Parts(e) == IF e.e = "concat" THEN e.parts ELSE <<e>>
Padded(e, Of(_)) == FlattenSeq([j \in DOMAIN Parts(e) |-> Pad(Of(Parts(e)[j]))])
GenData(e) ==
    CASE e.e = "verdict" -> e.v
      [] e.e = "value"   -> Export(e)
      [] HasInterval(e)  -> Padded(e, LowOf) \o Padded(e, HighOf)
      [] e.e = "concat"  -> Padded(e, Export)

KeysOf(s, k) ==
    IF "interval" \notin s.flags THEN {GenData(k)}
    ELSE IF k.e = "concat" THEN Box(k.parts)
    ELSE {BigEndian(v, NumBytes(s.key.len)) : v \in k.left.v..k.right.v}

\* The set as the kernel has it.
Declared(s, b) ==
    LET t == [s EXCEPT !.flags = @ \cup b.flags]
        all == [i \in DOMAIN b.elems |-> KeysOf(t, ElemKey(b.elems[i]))]
        keys == UNION {all[i] : i \in DOMAIN all}
        Of(k) == b.elems[CHOOSE i \in DOMAIN all : k \in all[i]]
        times == IF s.interval THEN 2 ELSE 1
    IN t @@ [klen |-> s.key.len, elems |-> [k \in keys |->
                 IF Of(k).e = "mapping" THEN GenData(Of(k).right) ELSE <<>>],
             dlen |-> IF s.data = NoExpr THEN 0 ELSE times * s.data.len]

\* set_expr_evaluate_concat and the parser's keys: a value of the type.
TypeExpr(dtype) ==
    LET parts == [i \in DOMAIN dtype |-> Constant(0, <<dtype[i]>>, OrderOf(<<dtype[i]>>),
                                                  SizeOf(<<dtype[i]>>))]
    IN IF Len(dtype) = 1 THEN parts[1] ELSE MkConcat(parts, SizeOf(dtype))

---------------------------------------------------------------------------
(* binop_transfer: an operation on the left side that can be inverted is   *)
(* done on the constants of the right side instead.                        *)

\* The constants of the right side.
RECURSIVE Leaves(_)
Leaves(e) ==
    CASE e.e = "range"   -> <<e.left, e.right>>
      [] e.e = "mapping" -> Leaves(e.left)
      [] e.e = "braces"  -> FlattenSeq([i \in DOMAIN e.elems |-> Leaves(e.elems[i])])
      [] OTHER           -> <<e>>

\* binop_can_transfer: one answer for every constant.
CanTransfer(left, leaf) ==
    IF leaf.e # "value" \/ left.op \notin {"lshift", "rshift", "xor"} THEN "no"
    ELSE IF left.op = "lshift" /\ leaf.v % 2^left.right.v # 0 THEN "refused"
    ELSE "yes"

\* The answer for all of them is the first that is not yes.
Answer(left, right) ==
    LET answers == [i \in DOMAIN Leaves(right) |-> CanTransfer(left, Leaves(right)[i])]
        not == SelectSeq(answers, LAMBDA a : a # "yes")
    IN IF not = <<>> THEN "yes" ELSE Head(not)

\* The values that are shifted left need room in the context.
Widened(x, left, right) ==
    LET n == left.right.v
        Room(len, leaf) == IF len < leaf.len + n THEN len + n ELSE len
    IN IF left.op = "rshift" THEN [x EXCEPT !.len = FoldLeft(Room, @, Leaves(right))] ELSE x

\* binop_transfer_handle_lhs
HandleLhs(left) ==
    IF left.op = "rshift"
    THEN [left EXCEPT !.op = "and", !.right.v = Ones(left.left.len) * 2^left.right.v]
    ELSE [left.left EXCEPT !.dtype = left.dtype]

---------------------------------------------------------------------------
(* Comparisons *)

\* expr_evaluate_relational, after both sides: what may be compared.
Comparable(m) ==
    LET l == m.left
        r == m.right
    IN /\ IsConst(r) /\ ~IsConst(l)
       /\ l.dtype = r.dtype
       /\ m.op = "neg" => l.e # "binop" /\ r.e = "value" /\ IsFlags(r.dtype)
       /\ r.e # "concat"
       /\ m.op \in {"lt", "gt", "lte", "gte"} => l.e # "concat" /\ IsSingleton(r)
       /\ r.e = "braces" => r.elems # <<>>

\* What is linearized: an anonymous set is in the kernel, flags are compared
\* by their bits.
Final(m) ==
    LET s == MkSet(Anonymous, m.left, NoExpr, FALSE, {})
    IN CASE m.right.e = "braces" ->
              [m EXCEPT !.right = [e |-> "set", set |-> Declared(s, m.right)]]
         [] m.right.e = "ref" -> [m EXCEPT !.right = [e |-> "set", set |-> m.right]]
         [] m.right.e = "value" /\ IsFlags(m.right.dtype) -> [m EXCEPT !.right.e = "flags"]
         [] OTHER -> m

\* A range of hours over midnight is the opposite of the one between them.
Inverted(op) == CASE op \in {"implicit", "eq"} -> "neq" [] op = "neq" -> "eq" [] OTHER -> op
OverMidnight(m) ==
    LET r == m.right
    IN IF r.left.v > r.right.v /\ Inverted(m.op) # m.op
       THEN [m EXCEPT !.op = Inverted(@), !.right = MkRange(r.right, r.left)]
       ELSE m
IsHour(e) == e.e = "load" /\ Keys[e.key].hour

---------------------------------------------------------------------------
(* Statements *)

\* get_addr_dtype
AddrType(family) ==
    IF family = "ip" THEN <<"ipv4_addr">> ELSE IF family = "ip6" THEN <<"ipv6_addr">> ELSE Invalid
Service == <<"inet_service">>
Ifindex == <<"ifindex">>
PortBits == PortBytes * ByteBits

\* stmt_evaluate_l3proto
SameNetwork(x, family) == x.network = "none" \/ x.network = family

\* What is loaded to change a field: whole bytes, two at a time if there is a
\* checksum, which the kernel can only update by words of two bytes.
Whole(to) ==
    LET o == OffsetShift(to)
        off == to.off \div ByteBits
        size == NumBytes(to.len + o.extra)
        odd == Keys[to.key].csum /\ size % 2 = 1
    IN [off |-> IF odd /\ off % 2 = 1 THEN off - 1 ELSE off,
        size |-> IF odd THEN size + 1 ELSE size,
        shift |-> IF odd /\ off % 2 = 0 THEN o.shift + ByteBits ELSE o.shift]

\* (what is there and not the mask) ^ (value << shift)
Merged(to, w, val) ==
    LET len == w.size * ByteBits
        others == Xor(Ones(len), Ones(to.len) * 2^w.shift)
        raw == [to EXCEPT !.off = w.off * ByteBits, !.len = len, !.dtype = Integer, !.done = FALSE]
        and == [MkBinop("and", raw, Constant(others, BaseType(to.dtype), to.order, len))
                EXCEPT !.len = len]
        shifted == IF w.shift = 0 THEN val
                   ELSE [MkBinop("lshift", val, Constant(w.shift, BaseType(to.dtype), "host", 1))
                         EXCEPT !.dtype = to.dtype, !.order = to.order]
    IN [MkBinop("xor", and, shifted) EXCEPT !.dtype = to.dtype, !.order = to.order, !.len = len]

\* nat_evaluate_addr_has_th_expr; no key here tells the protocol of the next
\* header.
HasTransport(addr) ==
    addr.e = "map" /\ addr.key.e = "concat" /\
    \E i \in PartsOf(addr.key) : i.e = "load" /\ Keys[i.key].base = "transport"

\* nat_evaluate_family: "refused" for a family without addresses.
NatFamily(x, s) ==
    IF x.family \in {"ip", "ip6"} THEN IF s.family = "none" THEN x.family ELSE s.family
    ELSE IF x.family # "inet" THEN "refused"
    ELSE IF s.addr = NoExpr THEN "inet"
    ELSE IF s.family # "none" THEN s.family
    ELSE x.network

\* nat_concat_map, with the flag that the parser may have set.
IsConcatMap(s) ==
    \/ "concat" \in s.flags
    \/ s.addr.e = "map" /\
       IF s.addr.set.e = "name" THEN Len(s.addr.set.data) > 1
       ELSE \E i \in DOMAIN s.addr.set.elems :
                s.addr.set.elems[i].e = "mapping" /\ s.addr.set.elems[i].right.e = "concat"

Stateful(stmts) ==
    \A i \in DOMAIN stmts : stmts[i] \in {"connlimit", "counter", "limit", "quota"}

\* STMT_F_TERMINAL of an evaluated statement.
Terminal(s) ==
    \/ s.s \in {"nat", "fwd", "queue"}
    \/ s.s = "verdict" /\ s.verdict # "continue"
=============================================================================
