----------------------------- MODULE Evaluation -----------------------------
(***************************************************************************)
(* evaluate.c: from what the parser made of a rule to what can be          *)
(* linearized.                                                             *)
(*                                                                         *)
(* A node, an expression or a statement, is evaluated in a context.  Eval  *)
(* returns the context afterwards and the node that replaces the one       *)
(* given, or Refused (an error message) or Aborted (an assert or BUG).  A  *)
(* statement evaluates its operands in the context of the type it needs,   *)
(* and checks what they may be.                                            *)
(***************************************************************************)
EXTENDS Expressions

Refused == [e |-> "refused"]
Aborted == [e |-> "aborted"]
Failed(e) == e.e \in {"refused", "aborted"}

Is(x, e) == [x |-> x, e |-> e]
No(x) == Is(x, Refused)
Bug(x) == Is(x, Aborted)
Then(r, Next(_, _)) == IF Failed(r.e) THEN r ELSE Next(r.x, r.e)

RECURSIVE Eval(_, _)

---------------------------------------------------------------------------
(* Values *)

\* expr_evaluate_integer
EvalInteger(x, e) ==
    IF (x.maxval > 0 /\ e.v > x.maxval) \/ e.v > Ones(x.len) THEN No(x)
    ELSE Is(x, [e EXCEPT !.order = x.order, !.len = x.len])

\* expr_evaluate_string: the largest character is the star of a wildcard.
\* An escaped one is left out.
Star == Ones(ByteBits)
EvalString(x, e) ==
    LET text == SelectSeq(Raw(e.v, "host", NumBytes(e.len)), LAMBDA c : c # 0)
        len == IF x.len > 0 THEN x.len ELSE e.len
        stem == Front(text)
    IN IF (x.len > 0 /\ e.len > x.len) \/ text = <<>> \/ text = <<Star>> THEN No(x)
       ELSE IF Last(text) # Star THEN Is(x, Constant(e.v, x.dtype, "host", len))
       ELSE Is(x, [e |-> "prefix", v |-> NumIn(stem, "host"), plen |-> Len(stem) * ByteBits,
                   dtype |-> x.dtype, order |-> "host", len |-> len, string |-> TRUE])

\* expr_evaluate_value
EvalValue(x, e) ==
    IF Base(e.dtype) = "integer" THEN EvalInteger(x, e)
    ELSE IF Base(e.dtype) = "string" THEN EvalString(x, e)
    ELSE Bug(x)

\* expr_evaluate_symbol for a value: a type of one part parses it.
EvalSymbol(x, e) ==
    IF Base(x.dtype) = "integer" THEN Eval(x, Constant(e.v, x.dtype, "host", 1))
    ELSE IF Base(x.dtype) = "string"
    THEN Eval(x, Constant(NumIn(e.v, "host"), x.dtype, "host", (Len(e.v) + 1) * ByteBits))
    ELSE No(x)

\* expr_evaluate_list: a list of flags becomes their sum, in host order.
RECURSIVE EvalFlags(_, _, _)
EvalFlags(x, todo, sum) ==
    IF todo = <<>> THEN Is(x, Constant(sum, x.dtype, "host", x.len))
    ELSE Then(Eval(x, Head(todo)), LAMBDA y, i :
             IF i.e # "value" \/ ~IsFlags(i.dtype) THEN No(y)
             ELSE EvalFlags(y, Tail(todo), Or(sum, i.v)))

---------------------------------------------------------------------------
(* Loads *)

\* expr_evaluate_primary, and the largest value of expr_evaluate_meta and
\* expr_evaluate_socket.
Primary(x, e) == SetContext(x, e.dtype, e.order, e.len)
EvalMeta(x, e) == Is([Primary(x, e) EXCEPT !.maxval = Keys[e.key].max], e)

\* expr_evaluate_payload: once only.
EvalPayload(x, e) ==
    IF e.done THEN Is(x, e)
    ELSE LET d == [e EXCEPT !.done = TRUE]
         IN Is(Primary(SeenProtocol(x, e), e), IF NeedsAdjustment(e) THEN Bits(d) ELSE d)

\* expr_evaluate_hash, with expr_dtype_integer_compatible: the result gets the
\* type the context asks for, if that is made of a word.
EvalHash(x, e) ==
    LET fits == Base(x.dtype) = "integer" /\ x.dtype # Integer /\ ~IsFlags(x.dtype)
                /\ x.len = WordBits
        h == IF fits THEN [e EXCEPT !.dtype = x.dtype, !.len = x.len] ELSE e
    IN Then(Eval(NoContext(x), e.arg), LAMBDA y, arg :
           Is([SetContext(y, h.dtype, h.order, h.len) EXCEPT !.maxval = e.mod - 1],
              [h EXCEPT !.arg = arg]))

---------------------------------------------------------------------------
(* The order of bytes *)

\* expr_evaluate_unary, the order to convert to is that of the expression.
EvalUnary(x, e) ==
    Then(Eval(x, e.arg), LAMBDA y, arg :
        IF IsConst(arg) \/ Base(arg.dtype) # "integer" \/ arg.e = "unary"
           \/ arg.order \notin {"host", "big"} \ {e.order}
        THEN Bug(y)
        ELSE Is(y, [e EXCEPT !.arg = arg, !.dtype = arg.dtype, !.len = arg.len]))

\* byteorder_conversion of the parts of a concatenation
RECURSIVE ConvertParts(_, _, _, _)
ConvertParts(x, todo, done, order) ==
    IF todo = <<>> THEN Is(x, [e |-> "parts", parts |-> done])
    ELSE LET i == Head(todo)
             Next(y, u) == ConvertParts(y, Tail(todo), Append(done, u), order)
         IN IF i.order = "big" \/ Base(i.dtype) = "string" THEN Next(x, i)
            ELSE IF Base(i.dtype) # "integer" THEN Bug(x)
            ELSE Then(Eval(x, Unary(i, order)), Next)

\* byteorder_conversion
Convert(x, e, order) ==
    IF IsConst(e) /\ ~IsSingleton(e) THEN Bug(x)
    ELSE IF e.order = order THEN Is(x, e)
    ELSE IF e.e = "concat"
    THEN Then(ConvertParts(x, e.parts, <<>>, order), LAMBDA y, d :
             Is(y, [e EXCEPT !.parts = d.parts]))
    ELSE IF Base(e.dtype) = "string" THEN Is(x, e)
    ELSE IF Base(e.dtype) # "integer" THEN No(x)
    ELSE IF IsConst(e) \/ e.len \div ByteBits < 2 THEN Is(x, [e EXCEPT !.order = order])
    ELSE Eval(x, Unary(e, order))

---------------------------------------------------------------------------
(* Prefixes, ranges and operations *)

\* expr_evaluate_prefix: the bits that are not covered are cleared.
EvalPrefix(x, e) ==
    Then(Eval(x, e.base), LAMBDA y, base :
        LET string == Base(base.dtype) = "string"
            mask == IF string THEN Ones(e.plen) ELSE PrefixMask(base.len, e.plen)
        IN IF ~IsConst(base) \/ Base(base.dtype) \notin {"integer", "string"} \/ e.plen > base.len
           THEN No(y)
           ELSE Then(Eval(y, MkBinop("and", base, Constant(mask, BaseType(base.dtype), "host",
                                                           base.len))), LAMBDA z, b :
                    Is(z, [e |-> "prefix", v |-> b.v, plen |-> e.plen, dtype |-> b.dtype,
                           order |-> b.order, len |-> b.len, string |-> string])))

\* __expr_evaluate_range
EvalBound(x, e) ==
    Then(Eval(x, e), LAMBDA y, b :
        IF Base(b.dtype) # "integer" \/ ~IsConst(b) THEN No(y) ELSE Is(y, b))
EvalBounds(x, e) ==
    Then(EvalBound(x, e.left), LAMBDA y, l :
        Then(EvalBound(y, e.right), LAMBDA z, r : Is(z, MkRange(l, r))))

\* expr_evaluate_range
EvalRange(x, e) ==
    Then(EvalBounds(x, e), LAMBDA y, r : IF r.left.v > r.right.v THEN No(y) ELSE Is(y, r))

\* constant_binop_simplify: what the operation gives is evaluated once more.
Simplify(x, op) ==
    LET l == op.left.v
        r == op.right.v
        mask == Ones(op.len)
        v == CASE op.op = "and" -> And(And(l, r), mask)
               [] op.op = "xor" -> And(Xor(l, r), mask)
               [] op.op = "or"  -> And(Or(l, r), mask)
               [] op.op = "lshift" -> And(l * 2^r, mask)
               [] op.op = "rshift" -> And(l, mask) \div 2^r
    IN IF op.left.order # op.right.order THEN Bug(x)
       ELSE Eval(x, Constant(v, op.dtype, op.order, op.len))

SimplifyConst(x, op) == IF IsConst(op.left) THEN Simplify(x, op) ELSE Is(x, op)

\* expr_evaluate_shift
EvalShift(x, op) ==
    IF op.right.v >= op.left.len THEN No(x)
    ELSE Then(Convert(x, op.left, "host"), LAMBDA y, l :
             Then(Convert(y, op.right, "host"), LAMBDA z, r :
                 SimplifyConst(z, [op EXCEPT !.left = l, !.right = r, !.order = "host",
                                             !.len = l.len])))

\* expr_evaluate_bitwise
EvalBitwise(x, op) ==
    LET l == op.left
    IN Then(Convert(x, op.right, l.order), LAMBDA y, r :
           SimplifyConst(y, [op EXCEPT !.right = r, !.dtype = l.dtype, !.order = l.order,
                                       !.len = l.len]))

\* expr_evaluate_binop
EvalBinop(x, e) ==
    LET shift == e.op \in {"lshift", "rshift"}
    IN Then(Eval(x, e.left), LAMBDA y, l :
           Then(Eval(IF shift THEN SetContext(y, Integer, l.order, y.len) ELSE y, e.right),
                LAMBDA z, r :
                LET op == [e EXCEPT !.left = l, !.right = r]
                IN IF \/ Base(l.dtype) \notin {"integer", "string"}
                      \/ IsConst(l) /\ ~IsSingleton(l)
                      \/ ~IsConst(r) \/ ~IsSingleton(r)
                   THEN No(z)
                   ELSE IF Base(l.dtype) # Base(r.dtype) THEN Bug(z)
                   ELSE IF shift THEN EvalShift(z, op) ELSE EvalBitwise(z, op)))

---------------------------------------------------------------------------
(* Concatenations *)

\* The context of part i: of the part of the key, or of the part of the type
\* that is expected.  A type is not asked for more parts than it has.
PartContext(x, keys, dtype, i) ==
    IF keys # <<>> THEN SetContext(x, keys[i].dtype, keys[i].order, keys[i].len)
    ELSE IF i \in DOMAIN dtype
    THEN SetContext(x, <<dtype[i]>>, Types[dtype[i]].order, Types[dtype[i]].size)
    ELSE SetContext(x, Invalid, "none", 0)

RECURSIVE EvalParts(_, _, _, _, _, _)
EvalParts(x, todo, keys, dtype, done, len) ==
    IF todo = <<>> THEN Is(x, MkConcat(done, len))
    ELSE IF keys # <<>> /\ Len(done) = Len(keys) THEN No(x)
    ELSE LET y == PartContext(x, keys, dtype, Len(done) + 1)
         IN Then(Eval(y, Head(todo)), LAMBDA z, i :
                LET own == IF keys = <<>> /\ i.dtype = Integer THEN i.len ELSE SizeOf(i.dtype)
                    size == IF y.len = 0 THEN own ELSE y.len
                IN IF dtype = Null /\ own = 0 THEN No(z)
                   ELSE EvalParts(z, Tail(todo), keys, dtype, Append(done, i),
                                  len + netlink_padded_len(size)))

\* expr_evaluate_concat
EvalConcat(x, e) ==
    LET keys == IF x.key.e = "concat" THEN x.key.parts ELSE <<>>
    IN Then(EvalParts(x, e.parts, keys, x.dtype, <<>>, 0), LAMBDA y, c :
           IF Len(x.dtype) > Len(c.parts) THEN No(y)
           ELSE Is([SetContext(y, c.dtype, "none", c.len) EXCEPT
                      !.key = IF keys = <<>> THEN c ELSE x.key], c))

---------------------------------------------------------------------------
(* Sets *)

\* expr_evaluate_set_elem
EvalElem(x, e) ==
    LET key == x.set.key
        y == IF x.set = NoSet THEN x
             ELSE [SetContext(x, key.dtype, key.order, key.len) EXCEPT !.key = key]
    IN Then(Eval(y, e), LAMBDA z, k :
           IF x.set # NoSet /\ x.set.name # Anonymous /\ "interval" \notin x.set.flags
              /\ HasInterval(k)
           THEN No(z) ELSE Is(z, k))

\* expr_evaluate_mapping
EvalMapping(x, e) ==
    IF x.set = NoSet \/ x.set.flags \cap {"map", "object"} = {} THEN No(x)
    ELSE Then(EvalElem(x, e.left), LAMBDA y, l :
        LET data == y.set.data
            anonymous == y.set.name = Anonymous
        IN IF ~IsConst(l) THEN No(y)
           ELSE Then(Eval(SetContext(y, data.dtype, data.order, data.len), e.right),
                     LAMBDA z, r :
                LET interval == z.set.interval \/ (anonymous /\ HasInterval(r))
                IN IF ~IsConst(r) \/ (~interval /\ ~IsSingleton(r)) THEN No(z)
                   ELSE Is([z EXCEPT !.set.interval = interval],
                           [e |-> "mapping", left |-> l, right |-> r])))

\* The elements of expr_evaluate_set: inner sets are merged into it.
RECURSIVE EvalElems(_, _, _, _)
EvalElems(x, todo, done, flags) ==
    IF todo = <<>>
    THEN Is(x, [e |-> "braces", elems |-> done, flags |-> flags, dtype |-> x.dtype,
                order |-> "none", len |-> x.len])
    ELSE LET mapping == Head(todo).e = "mapping"
         IN Then(IF mapping THEN EvalMapping(x, Head(todo)) ELSE EvalElem(x, Head(todo)),
                 LAMBDA y, i :
            LET k == ElemKey(i)
                rest == Tail(todo)
                also == IF IsSingleton(k) THEN {}
                        ELSE IF k.e = "concat" THEN {"interval", "concat"} ELSE {"interval"}
            IN IF mapping /\ k.e = "braces"
               THEN EvalElems(y, rest \o [j \in DOMAIN k.elems |->
                                  [e |-> "mapping", left |-> k.elems[j], right |-> i.right]],
                              done, flags)
               ELSE IF k.e = "ref" \/ ~IsConst(k) THEN No(y)
               ELSE IF k.e = "braces"
               THEN EvalElems(y, rest, done \o k.elems, flags \cup k.flags)
               ELSE EvalElems(y, rest, Append(done, i), flags \cup also))

\* expr_evaluate_set: a set of one value, prefix or range is that.
EvalBraces(x, e) ==
    Then(EvalElems(x, e.elems, <<>>, {}), LAMBDA y, b :
        IF y.set # NoSet
        THEN Is(y, [b EXCEPT !.flags = @ \cup (y.set.flags \cap {"concat"})])
        ELSE IF Len(b.elems) = 1 /\ b.elems[1].e \in {"value", "prefix", "range"}
        THEN Is(y, b.elems[1])
        ELSE Is(y, b))

\* A set that was added before, by its declaration: set_evaluate.
EvalNamed(x, d) ==
    LET s == MkSet(d.name, TypeExpr(d.key), IF d.data = Null THEN NoExpr ELSE TypeExpr(d.data),
                   d.interval,
                   IF "interval" \in d.flags /\ Len(d.key) > 1 THEN d.flags \cup {"concat"}
                   ELSE d.flags)
    IN Then(Eval([SetContext(x, s.key.dtype, s.key.order, s.key.len) EXCEPT !.set = s], d.init),
            LAMBDA y, b :
            IF b.e # "braces" \/ Overlap(IntervalSetEval(s, b)) THEN No(x)
            ELSE Is(x, Declared(s, IntervalSetEval(s, b))))

---------------------------------------------------------------------------
(* binop_transfer *)

\* binop_transfer_one
RECURSIVE TransferOne(_, _, _)
RECURSIVE TransferAll(_, _, _, _)
TransferAll(x, left, todo, done) ==
    IF todo = <<>> THEN Is(x, [e |-> "elems", elems |-> done])
    ELSE Then(TransferOne(x, left, Head(todo)), LAMBDA y, i :
             TransferAll(y, left, Tail(todo), Append(done, i)))
TransferOne(x, left, e) ==
    LET inverse == CASE left.op = "lshift" -> "rshift"
                     [] left.op = "rshift" -> "lshift"
                     [] left.op = "xor"    -> "xor"
    IN CASE e.e = "range" ->
              Then(TransferOne(x, left, e.left), LAMBDA y, l :
                  Then(TransferOne(y, left, e.right), LAMBDA z, r :
                      Is(z, [e EXCEPT !.left = l, !.right = r])))
         [] e.e = "mapping" ->
              Then(TransferOne(x, left, e.left), LAMBDA y, l : Is(y, [e EXCEPT !.left = l]))
         [] e.e = "braces" ->
              Then(TransferAll(x, left, e.elems, <<>>), LAMBDA y, d :
                  Is(y, [e EXCEPT !.elems = d.elems]))
         [] e.e = "value" -> Eval(x, MkBinop(inverse, e, left.right))

\* The two sides afterwards.
Transfer(x, left, right) ==
    LET kept == Is(x, MkRange(left, right))
        answer == Answer(left, right)
    IN IF left.e # "binop" \/ right.e = "ref" THEN kept
       ELSE IF answer = "refused" THEN No(x)
       ELSE IF answer = "no" THEN kept
       ELSE Then(TransferOne(Widened(x, left, right), left, right), LAMBDA y, r :
                Is(y, MkRange(HandleLhs(left), r)))

---------------------------------------------------------------------------
(* Maps *)

\* The key of the set of a map: the concatenation, or a value of its type.
MapKey(x) == IF x.key.e = "concat" THEN x.key ELSE Constant(0, x.dtype, x.order, x.len)

\* The end of expr_evaluate_map and of stmt_evaluate_objref_map, for a map
\* that has its set.
MapWithSet(x, m, s) ==
    IF m.key.dtype # s.key.dtype THEN No(x)
    ELSE LET done == [m EXCEPT !.set = s, !.dtype = s.data.dtype]
         IN IF "interval" \notin s.flags THEN Is(x, done)
            ELSE Then(Convert(x, m.key, "big"), LAMBDA y, k : Is(y, [done EXCEPT !.key = k]))

\* expr_evaluate_map
EvalMap(x, m) ==
    Then(Eval(NoContext(x), m.key), LAMBDA y, k :
        LET s == MkSet(Anonymous, MapKey(y),
                       Constant(0, x.dtype, x.order, x.len), FALSE, {"map"})
        IN IF IsConst(k) THEN No(y)
           ELSE IF m.set.e = "ref" THEN MapWithSet(y, [m EXCEPT !.key = k], m.set)
           ELSE IF m.set.e = "name"
           THEN Then(EvalNamed(y, m.set), LAMBDA z, t :
                    IF "map" \notin t.flags THEN No(z)
                    ELSE MapWithSet(z, [m EXCEPT !.key = k], t))
           ELSE Then(Eval([y EXCEPT !.set = s], m.set), LAMBDA z, b :
                    LET init == IntervalSetEval(s, b)
                    IN IF Overlap(init) THEN No(z)
                       ELSE Then(Transfer(SetContext(z, s.key.dtype, s.key.order, s.key.len),
                                          k, init), LAMBDA w, t :
                                LET set == [z.set EXCEPT !.key.len = w.len]
                                IN MapWithSet([w EXCEPT !.set = NoSet],
                                              [m EXCEPT !.key = t.left],
                                              Declared(set, t.right)))))

---------------------------------------------------------------------------
(* Comparisons *)

ConvertBoth(x, m, order) ==
    Then(Convert(x, m.left, order), LAMBDA y, l :
        Then(Convert(y, m.right, order), LAMBDA z, r :
            Is(z, [m EXCEPT !.left = l, !.right = r])))

\* The order of bytes that both sides are compared in.
\* Variant: the left side of an interval set keeps its order.
CompareInHost(x, m) == Is(x, m)
CompareInterval(x, m) ==
    Then(Convert(x, m.left, "big"), LAMBDA y, l : Is(y, [m EXCEPT !.left = l]))

CompareIn(x, m) ==
    LET r == m.right
    IN IF m.op \in {"lt", "gt", "lte", "gte"} THEN ConvertBoth(x, m, "big")
       ELSE CASE r.e = "range" ->
                   Then(Convert(x, m.left, "big"), LAMBDA y, l :
                       Then(Convert(y, r.left, "big"), LAMBDA z, low :
                           Then(Convert(z, r.right, "big"), LAMBDA w, high :
                               Is(w, [m EXCEPT !.left = l, !.right.left = low,
                                               !.right.right = high]))))
              [] r.e = "prefix" ->
                   IF r.order = m.left.order \/ Base(r.dtype) = "string" THEN Is(x, m)
                   ELSE Is(x, [m EXCEPT !.right.order = m.left.order])
              [] r.e = "value" ->
                   Then(Convert(x, r, m.left.order), LAMBDA y, v : Is(y, [m EXCEPT !.right = v]))
              [] r.e \in {"braces", "ref"} ->
                   IF "interval" \in r.flags THEN CompareInterval(x, m) ELSE Is(x, m)

\* expr_evaluate_relational
EvalRelational(x, e) ==
    Then(Eval(x, e.left), LAMBDA y, l :
        LET first == IF e.right.e = "range" /\ IsHour(l) THEN EvalBounds(y, e.right)
                     ELSE Is(y, e.right)
        IN Then(first, LAMBDA z, r0 :
            LET m0 == [e EXCEPT !.left = l, !.right = r0]
                m1 == IF e.right.e = "range" /\ IsHour(l) THEN OverMidnight(m0) ELSE m0
            IN Then(Eval(z, m1.right), LAMBDA w, r :
                LET ranged == IF r.e = "braces" THEN IntervalSetEval([flags |-> {}], r) ELSE r
                    m == [m1 EXCEPT !.right = ranged]
                IN IF ~Comparable(m) THEN No(w)
                   ELSE Then(CompareIn(w, m), LAMBDA u, c :
                            Then(Transfer(u, c.left, c.right), LAMBDA v, t :
                                Is(v, Final([c EXCEPT !.left = t.left, !.right = t.right]))))))) 

\* expr_evaluate_flagcmp
EvalFlagcmp(x, e) ==
    IF e.op \notin {"eq", "neq"} THEN No(x)
    ELSE Eval(x, [e |-> "rel", op |-> e.op, left |-> MkBinop("and", e.expr, e.mask),
                  right |-> e.value])

---------------------------------------------------------------------------
(* Operands of statements *)

Done(x, s) == Is(x, [e |-> "stmt", stmt |-> s])

\* stmt_prefix_conversion: from the first to the last value of the prefix.
PrefixRange(x, e) ==
    LET base == Constant(e.v, e.dtype, e.order, e.len)
        Mask(v) == Constant(v, BaseType(e.dtype), "host", e.len)
    IN IF Base(e.dtype) # "integer" THEN No(x)
       ELSE Eval(x, MkRange(MkBinop("and", base, Mask(PrefixMask(e.len, e.plen))),
                            MkBinop("or", base, Mask(Ones(e.len - e.plen)))))

\* __stmt_evaluate_arg.  A number of any type "integer" will do, but not a
\* header field of another length.
CheckArg(x, e, dtype, len, order) ==
    LET load == e.e = "load"
        number == e.dtype = Integer
    IN IF \/ number /\ load /\ Keys[e.key].kind = "payload"
             /\ (Base(dtype) # "integer" \/ e.len # len)
          \/ ~number /\ e.dtype # dtype
          \/ e.e \in {"braces", "ref"}
       THEN No(x)
       ELSE IF load /\ Keys[e.key].kind = "rt" THEN Convert(x, e, order)
       ELSE IF e.e = "prefix" THEN PrefixRange(x, e)
       ELSE Is(x, e)

\* stmt_evaluate_arg
StmtArg(x, e, dtype, len, order) ==
    Then(Eval(SetContext(x, dtype, order, len), e), LAMBDA y, a :
        CheckArg(y, a, dtype, len, order))

\* An operand that may be left out.
Optional(x, e, Arg(_, _)) == IF e = NoExpr THEN Is(x, e) ELSE Arg(x, e)

TypedAddr(x, e, dtype) == StmtArg(x, e, dtype, SizeOf(dtype), "big")
\* stmt_evaluate_addr with evaluate_addr
EvalAddr(x, e, family) ==
    IF x.family # "inet" THEN TypedAddr(x, e, AddrType(x.family))
    ELSE IF AddrType(family) = Invalid THEN No(x)
    ELSE TypedAddr(x, e, AddrType(family))

EvalDevice(x, e) == StmtArg(x, e, Ifindex, WordBits, "host")

---------------------------------------------------------------------------
(* Statements that write to a packet *)

\* stmt_evaluate_payload
EvalPayloadStmt(x, s) ==
    Then(StmtArg(SeenProtocol(x, s.to), s.val, s.to.dtype, s.to.len, s.to.order), LAMBDA y, v :
        Then(IF IsConst(v) THEN Is(y, v) ELSE Convert(y, v, s.to.order), LAMBDA z, val :
            LET w == Whole(s.to)
                whole == ~NeedsAdjustment(s.to) /\ w.size * ByteBits = s.to.len
            IN IF whole THEN Done(z, [s EXCEPT !.val = val])
               ELSE Then(Eval(z, Merged(s.to, w, val)), LAMBDA u, merged :
                        Done(u, [s EXCEPT !.to.off = w.off * ByteBits,
                                          !.to.len = w.size * ByteBits, !.val = merged]))))

\* stmt_evaluate_meta, stmt_evaluate_ct
EvalMetaStmt(x, s) ==
    Then(StmtArg(x, s.val, s.to.dtype, s.to.len, s.to.order), LAMBDA y, v :
        Done(y, [s EXCEPT !.val = v]))

---------------------------------------------------------------------------
(* nat *)

\* nat_evaluate_transport
EvalTransport(x, e, addr) ==
    IF ~x.transport /\ ~HasTransport(addr) THEN No(x)
    ELSE StmtArg(x, e, Service, PortBits, "big")

\* stmt_evaluate_nat_map: an address and a port, from a map as a rule.
EvalNatMap(x, s, family) ==
    LET dtype == AddrType(family) \o Service
        y == SetContext(x, dtype, "none", SizeOf(dtype))
    IN IF AddrType(family) = Invalid THEN No(x)
       ELSE Then(Eval(y, s.addr), LAMBDA z, a :
           LET named == a.set.name # Anonymous
               done == Done(z, [s EXCEPT !.addr = a, !.flags = @ \cup {"concat"}])
           IN IF ~z.transport /\ ~HasTransport(a) THEN No(z)
              ELSE IF a.e # "map" THEN done
              ELSE IF ~named
              THEN Then(CheckArg(z, [a EXCEPT !.dtype = dtype], dtype, SizeOf(dtype), "big"),
                        LAMBDA w, b : done)
              ELSE Then(CheckArg(z, a.set.data.parts[1], AddrType(family), AddrLen, "big"),
                        LAMBDA w, one :
                   Then(EvalTransport(w, a.set.data.parts[2], a), LAMBDA u, two : done)))

\* stmt_evaluate_nat
EvalNat(x, s) ==
    LET family == NatFamily(x, s)
        Ports(y, t) == Then(Optional(y, t.proto, LAMBDA z, e : EvalTransport(z, e, t.addr)),
                            LAMBDA z, p : Done(z, [t EXCEPT !.proto = p]))
    IN IF family = "refused" THEN No(x)
       ELSE IF s.addr = NoExpr THEN Ports(x, s)
       ELSE IF ~SameNetwork(x, family) THEN No(x)
       ELSE IF IsConcatMap(s) THEN EvalNatMap(x, s, family)
       ELSE Then(EvalAddr(x, s.addr, family), LAMBDA y, a : Ports(y, [s EXCEPT !.addr = a]))

\* stmt_evaluate_tproxy
EvalTproxy(x, s) ==
    LET family == IF s.family = "none" /\ x.family # "inet" THEN x.family ELSE s.family
    IN IF \/ x.family \notin {"ip", "ip6", "inet"} \/ ~x.transport
          \/ s.addr = NoExpr /\ s.port = NoExpr
          \/ s.addr.e = "range" \/ s.port.e = "range"
          \/ ~SameNetwork(x, family)
       THEN No(x)
       ELSE Then(Optional(x, s.addr, LAMBDA y, e : EvalAddr(y, e, family)), LAMBDA y, a :
            Then(Optional(y, s.port, LAMBDA z, e : EvalTransport(z, e, NoExpr)), LAMBDA z, p :
                Done(z, [s EXCEPT !.addr = a, !.port = p])))

---------------------------------------------------------------------------
(* Other statements with operands *)

\* stmt_evaluate_verdict
EvalVerdictStmt(x, s) ==
    Then(StmtArg(x, s.expr, <<"verdict">>, 0, "none"), LAMBDA y, v :
        Done(y, IF v.e = "map" THEN [s |-> "vmap", map |-> v]
                ELSE [s |-> "verdict", verdict |-> v.v]))

\* stmt_evaluate_dup
EvalDup(x, s) ==
    IF s.to = NoExpr THEN No(x)
    ELSE IF x.family \in {"ip", "ip6"}
    THEN Then(TypedAddr(x, s.to, AddrType(x.family)), LAMBDA y, a :
         Then(Optional(y, s.dev, EvalDevice), LAMBDA z, d :
             Done(z, [s EXCEPT !.to = a, !.dev = d])))
    ELSE IF x.family = "netdev" /\ s.dev = NoExpr
    THEN Then(EvalDevice(x, s.to), LAMBDA y, d : Done(y, [s EXCEPT !.to = d]))
    ELSE No(x)

\* stmt_evaluate_fwd
EvalFwd(x, s) ==
    IF x.family # "netdev" \/ s.dev = NoExpr THEN No(x)
    ELSE Then(EvalDevice(x, s.dev), LAMBDA y, d :
         Then(Optional(y, s.to, LAMBDA z, e :
                  IF AddrType(s.family) = Invalid THEN No(z)
                  ELSE TypedAddr(z, e, AddrType(s.family))), LAMBDA z, a :
             Done(z, [s EXCEPT !.to = a, !.dev = d])))

\* stmt_evaluate_queue: maxval is left by the evaluation of a hash.
EvalQueue(x, s) ==
    Then(StmtArg(x, s.queue, Integer, PortBits, "host"), LAMBDA y, q :
        IF (s.fanout /\ q.e # "range") \/ y.maxval > Ones(PortBits) THEN No(y)
        ELSE Done(y, [s EXCEPT !.queue = q]))

\* stmt_evaluate_set, stmt_evaluate_map: whether the key is constant is asked of
\* the element around the key, which has no such flag: constants are added.
EvalDynset(x, s) ==
    LET NotRef(y, e) == IF e.e = "ref" THEN Is(y, e) ELSE No(y)
    IN Then(Then(Eval(NoContext(x), s.set), NotRef), LAMBDA y, set :
       Then(StmtArg(y, s.key, set.key.dtype, set.key.len, set.key.order), LAMBDA z, k :
       Then(Optional(z, s.data, LAMBDA w, d :
                IF set.data = NoExpr THEN Bug(w)
                ELSE StmtArg(w, d, set.data.dtype, set.data.len, set.data.order)), LAMBDA u, d :
            IF ~Stateful(s.stmts) THEN No(u)
            ELSE Done(u, [s EXCEPT !.set = set, !.key = k, !.data = d]))))

\* stmt_evaluate_meter: a set of its own, empty at first.
EvalMeter(x, s) ==
    Then(Eval(NoContext(x), s.key), LAMBDA y, k :
        IF IsConst(k) \/ ~Stateful(s.stmts) THEN No(y)
        ELSE LET empty == [e |-> "braces", elems |-> <<>>, flags |-> {}]
                 set == Declared(MkSet(s.name, k, NoExpr, FALSE, {}), empty)
             IN Done(y, [s |-> "dynset", set |-> set, op |-> "add", key |-> k,
                         data |-> NoExpr, stmts |-> s.stmts]))

\* stmt_evaluate_objref_map: the key of the set has the type of the map's key,
\* as one value.
ObjectType == Constant(0, <<"string">>, "host", ObjNameLen)
EvalObjMap(x, m) ==
    Then(Eval(NoContext(x), m.key), LAMBDA y, k :
        LET s == MkSet(Anonymous, Constant(0, y.dtype, y.order, y.len), ObjectType, FALSE,
                       {"object"})
        IN IF IsConst(k) THEN No(y)
           ELSE IF m.set.e = "name"
           THEN Then(EvalNamed(y, m.set), LAMBDA z, t :
                    IF "object" \notin t.flags THEN No(z) ELSE MapWithSet(z, [m EXCEPT !.key = k], t))
           ELSE Then(Eval([y EXCEPT !.set = s], m.set), LAMBDA z, b :
                    LET init == IntervalSetEval(s, b)
                    IN IF Overlap(init) THEN No(z)
                       ELSE MapWithSet([z EXCEPT !.set = NoSet], [m EXCEPT !.key = k],
                                       Declared(z.set, init))))

\* stmt_evaluate_objref
EvalObjref(x, s) ==
    IF s.map # NoExpr
    THEN Then(EvalObjMap(x, s.map), LAMBDA y, m : Done(y, [s EXCEPT !.map = m]))
    ELSE Then(StmtArg(x, s.name, <<"string">>, ObjNameLen, "host"), LAMBDA y, n :
             IF ~IsConst(n) THEN No(y) ELSE Done(y, [s EXCEPT !.name = GenData(n)]))

\* stmt_evaluate_expr
EvalMatch(x, s) ==
    Then(Eval([NoContext(x) EXCEPT !.set = x.set], s.expr), LAMBDA y, m :
        Done(y, [s |-> "match", op |-> m.op, left |-> m.left, right |-> m.right]))

---------------------------------------------------------------------------
(* Rules *)

\* stmt_evaluate
EvalStmt(x, s) ==
    CASE s.s = "match"   -> EvalMatch(x, s)
      [] s.s = "verdict" -> EvalVerdictStmt(x, s)
      [] s.s = "mangle"  -> IF Keys[s.to.key].kind = "payload" THEN EvalPayloadStmt(x, s)
                            ELSE EvalMetaStmt(x, s)
      [] s.s = "nat"     -> EvalNat(x, s)
      [] s.s = "tproxy"  -> EvalTproxy(x, s)
      [] s.s = "dup"     -> EvalDup(x, s)
      [] s.s = "fwd"     -> EvalFwd(x, s)
      [] s.s = "queue"   -> EvalQueue(x, s)
      [] s.s = "dynset"  -> EvalDynset(x, s)
      [] s.s = "meter"   -> EvalMeter(x, s)
      [] s.s = "objref"  -> EvalObjref(x, s)
      [] s.s = "plain"   -> Done(x, s)

\* expr_evaluate
EvalExpr(x, e) ==
    CASE e.e = "symbol"  -> EvalSymbol(x, e)
      [] e.e = "name"    -> EvalNamed(x, e)
      [] e.e \in {"ref", "prefix"} -> Is(x, e)
      [] e.e = "value"   -> EvalValue(x, e)
      [] e.e = "verdict" -> Is(Primary(x, e), e)
      [] e.e = "load"    -> IF Keys[e.key].kind = "payload" THEN EvalPayload(x, e)
                            ELSE EvalMeta(x, e)
      [] e.e = "slash"   -> EvalPrefix(x, e)
      [] e.e = "range"   -> EvalRange(x, e)
      [] e.e = "unary"   -> EvalUnary(x, e)
      [] e.e = "binop"   -> EvalBinop(x, e)
      [] e.e = "concat"  -> EvalConcat(x, e)
      [] e.e = "list"    -> EvalFlags(x, e.flags, 0)
      [] e.e = "braces"  -> EvalBraces(x, e)
      [] e.e = "map"     -> EvalMap(x, e)
      [] e.e = "hash"    -> EvalHash(x, e)
      [] e.e = "rel"     -> EvalRelational(x, e)
      [] e.e = "flagcmp" -> EvalFlagcmp(x, e)

\* Expressions and statements are evaluated through one operator, as they are
\* within each other.
Eval(x, n) == IF "s" \in DOMAIN n THEN EvalStmt(x, n) ELSE EvalExpr(x, n)
=============================================================================
