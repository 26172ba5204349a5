----------------------------- MODULE Linearize -----------------------------
(***************************************************************************)
(* netlink_linearize.c: from the statements of a rule to instructions.     *)
(*                                                                         *)
(* The context of the code is a record: reg_low, the first free word of    *)
(* the registers, the instructions so far, and whether an assert or BUG    *)
(* was hit.  Every operator below returns the context after it.            *)
(***************************************************************************)
EXTENDS RuleMachine

\* netlink_linearize_init: no instruction, all registers free.
NewCode == [low |-> NFT_REG_1, code |-> <<>>, bug |-> FALSE]

Claim(c, b) == [c EXCEPT !.bug = @ \/ ~b]
AddExpr(c, nle) == [c EXCEPT !.code = Append(@, nle)]

\* netlink_put_register: a word that starts a 128 bit register gets that
\* register's number.
PutRegister(reg) ==
    IF reg = NFT_REG_VERDICT THEN reg
    ELSE IF (reg - NFT_REG_1) % RegWords = 0
         THEN NFT_REG_1 + (reg - NFT_REG_1) \div RegWords
         ELSE reg - NFT_REG_1 + NFT_REG32_00

\* A concatenation takes the words it needs, anything else a whole register.
RegSpace(e) ==
    IF e.e = "concat" THEN netlink_register_space(e.len) ELSE RegWords

\* get_register: the register is c.low, c itself before the call.
GetRegister(c, e) ==
    [Claim(c, c.low + RegSpace(e) <= NFT_REG_1 + NumWords) EXCEPT !.low = @ + RegSpace(e)]
ReleaseRegister(c, e) ==
    [Claim(c, c.low >= NFT_REG_1 + RegSpace(e)) EXCEPT !.low = @ - RegSpace(e)]

---------------------------------------------------------------------------
(* Expressions *)

\* combine_binop: m and x are the next operation, mask and xor the sum of the
\* ones before.
\* Variant: the mask of the operation is not applied to the xor before it.
CombineWithoutMask(b, m, x) == [mask |-> And(b.mask, m), xor |-> Xor(x, b.xor)]
CombineBinop(b, m, x) == [mask |-> And(b.mask, m), xor |-> Xor(x, And(b.xor, m))]

CombineOp(b, i, len) ==
    CASE i.op = "and" -> CombineBinop(b, i.right.v, 0)
      [] i.op = "or"  -> CombineBinop(b, Ones(len) - And(Ones(len), i.right.v), i.right.v)
      [] i.op = "xor" -> CombineBinop(b, Ones(len), i.right.v)

IsBool(e) == e.e = "binop" /\ e.op \in {"and", "or", "xor"}

\* The mask and the xor of the chain of boolean operations that ends in e,
\* and the expression the chain starts from.
RECURSIVE Combined(_, _)
Combined(e, len) ==
    IF IsBool(e) THEN CombineOp(Combined(e.left, len), e, len)
    ELSE [mask |-> Ones(len), xor |-> 0]
RECURSIVE BinopBase(_)
BinopBase(e) == IF IsBool(e) THEN BinopBase(e.left) ELSE e

RECURSIVE GenExpr(_, _, _)

\* netlink_gen_concat
RECURSIVE GenParts(_, _, _)
GenParts(c, parts, dreg) ==
    IF parts = <<>> THEN c
    ELSE GenParts(GenExpr(c, Head(parts), dreg), Tail(parts),
                  dreg + netlink_register_space(Head(parts).len))
GenConcat(c, e, dreg) == GenParts(c, e.parts, dreg)

\* netlink_gen_hash: the operand is in registers of its own.
GenHash(c, e, dreg) ==
    LET sreg == c.low
        c1 == ReleaseRegister(GenExpr(GetRegister(c, e.arg), e.arg, sreg), e.arg)
    IN AddExpr(c1, [n |-> "hash", sreg |-> PutRegister(sreg), dreg |-> PutRegister(dreg),
                    len |-> NumBytes(e.arg.len), mod |-> e.mod])

\* netlink_gen_map: the key is put where the value goes, unless that is the
\* verdict.
GenMap(c, e, dreg) ==
    LET toVerdict == dreg = NFT_REG_VERDICT
        sreg == IF toVerdict THEN c.low ELSE dreg
        space == IF e.key.e = "concat" THEN netlink_register_space(e.key.len) ELSE 0
        c1 == IF toVerdict THEN GetRegister(c, e.key) ELSE c
        c2 == GenExpr([c1 EXCEPT !.low = @ + space], e.key, sreg)
        c3 == [c2 EXCEPT !.low = @ - space]
        c4 == IF toVerdict THEN ReleaseRegister(c3, e.key) ELSE c3
    IN AddExpr(c4, [n |-> "lookup", set |-> e.set, inv |-> FALSE,
                    sreg |-> PutRegister(sreg), dreg |-> PutRegister(dreg)])

BitwiseAt(dreg, op, len) ==
    [n |-> "bitwise", op |-> op, sreg |-> PutRegister(dreg), dreg |-> PutRegister(dreg),
     len |-> NumBytes(len)]

\* netlink_gen_shift: the kernel takes the number of bits in host order.
GenShift(c, e, dreg) ==
    AddExpr(GenExpr(c, e.left, dreg),
            BitwiseAt(dreg, e.op, e.len) @@
            [data |-> NumIn(Raw(e.right.v, e.right.order, WordBytes), "host")])

\* netlink_gen_bitwise: a chain of boolean operations is one instruction.
GenBitwise(c, e, dreg) ==
    LET b == Combined(e, e.len)
        n == NumBytes(e.len)
    IN AddExpr(GenExpr(c, BinopBase(e), dreg),
               BitwiseAt(dreg, "bool", e.len) @@
               [mask |-> Raw(b.mask, e.order, n), xor |-> Raw(b.xor, e.order, n)])

GenUnary(c, e, dreg) ==
    AddExpr(GenExpr(c, e.arg, dreg),
            [n |-> "byteorder", sreg |-> PutRegister(dreg), dreg |-> PutRegister(dreg),
             len |-> NumBytes(e.len)])

GenImmediate(c, data, dreg) ==
    AddExpr(c, [n |-> "immediate", dreg |-> PutRegister(dreg), data |-> data])

\* netlink_gen_payload, _meta, _ct, _exthdr, _rt, _socket, _fib, ...: one
\* instruction that loads.
GenLoad(c, e, dreg) ==
    AddExpr(c, [n |-> "load", key |-> e.key, off |-> e.off, len |-> NumBytes(e.len),
                dreg |-> PutRegister(dreg)])

GenExpr(c0, e, dreg) ==
    LET c == Claim(c0, dreg < c0.low)
    IN CASE e.e = "value"  -> GenImmediate(c, Raw(e.v, e.order, NumBytes(e.len)), dreg)
         [] e.e = "unary"  -> GenUnary(c, e, dreg)
         [] IsBool(e)      -> GenBitwise(c, e, dreg)
         [] e.e = "binop"  -> GenShift(c, e, dreg)
         [] e.e = "concat" -> GenConcat(c, e, dreg)
         [] e.e = "map"    -> GenMap(c, e, dreg)
         [] e.e = "hash"   -> GenHash(c, e, dreg)
         [] e.e = "load"   -> GenLoad(c, e, dreg)

---------------------------------------------------------------------------
(* Comparisons.  The left side is loaded into a register of its own. *)

CmpAt(sreg, op, data) ==
    [n |-> "cmp", sreg |-> PutRegister(sreg), op |-> op, data |-> data]

\* The instructions of a comparison between the load and the release.
Loaded(c, left, Then(_, _)) ==
    LET sreg == c.low
    IN ReleaseRegister(Then(GenExpr(GetRegister(c, left), left, sreg), sreg), left)

\* netlink_gen_lookup
GenLookup(c, m) ==
    Loaded(c, m.left, LAMBDA d, sreg :
        AddExpr(d, [n |-> "lookup", set |-> m.right.set, inv |-> m.op = "neq",
                    sreg |-> PutRegister(sreg), dreg |-> -1]))

Const(e) == Raw(e.v, e.order, NumBytes(e.len))

\* netlink_gen_range
GenRange(c, m) ==
    LET from == Const(m.right.left)
        to == Const(m.right.right)
    IN Loaded(c, m.left, LAMBDA d, sreg :
           IF m.op = "neq"
           THEN AddExpr(d, [n |-> "range", sreg |-> PutRegister(sreg), from |-> from, to |-> to])
           ELSE AddExpr(AddExpr(d, CmpAt(sreg, "gte", from)), CmpAt(sreg, "lte", to)))

\* netlink_gen_flagcmp
GenFlagcmp(c, m) ==
    LET n == NumBytes(m.left.len)
        data == Const(m.right)
    IN Loaded(c, m.left, LAMBDA d, sreg :
           IF m.left.e = "binop" THEN AddExpr(d, CmpAt(sreg, "eq", data))
           ELSE AddExpr(AddExpr(d, BitwiseAt(sreg, "bool", m.left.len) @@
                                   [mask |-> data, xor |-> Zeros(n)]),
                        CmpAt(sreg, IF m.op = "neg" THEN "eq" ELSE "neq", Zeros(n))))

\* A prefix that is not one of whole bytes is compared under a mask.
NeedsMask(r) ==
    ~r.string /\ (r.order # "big" \/ r.plen = 0 \/ r.plen % ByteBits # 0)

\* The cases of netlink_gen_relational for a prefix: the whole value under a
\* mask, or a shorter load of the first bytes.
GenPrefix(c, m) ==
    LET r == m.right
        n == NumBytes(r.len)
        op == IF m.op = "implicit" THEN "eq" ELSE m.op
        data == Raw(r.v, r.order, n)
        mask == Ones(r.len) - Ones(r.len - r.plen)
    IN IF NeedsMask(r)
       THEN Loaded(c, m.left, LAMBDA d, sreg :
                AddExpr(AddExpr(d, BitwiseAt(sreg, "bool", r.len) @@
                                   [mask |-> Raw(mask, r.order, n), xor |-> Zeros(n)]),
                        CmpAt(sreg, op, data)))
       ELSE Loaded(c, [m.left EXCEPT !.len = r.plen], LAMBDA d, sreg :
                AddExpr(d, CmpAt(sreg, op, SubSeq(data, 1, NumBytes(r.plen)))))

\* netlink_gen_relational
GenRelational(c, m) ==
    CASE m.right.e = "range"  -> GenRange(c, m)
      [] m.right.e = "set"    -> GenLookup(c, m)
      [] m.right.e = "prefix" -> GenPrefix(c, m)
      [] m.right.e = "flags" /\ m.op \in {"implicit", "neg"} -> GenFlagcmp(c, m)
      [] OTHER -> Loaded(c, m.left, LAMBDA d, sreg :
                      AddExpr(d, CmpAt(sreg, IF m.op = "implicit" THEN "eq" ELSE m.op,
                                       Const(m.right))))

---------------------------------------------------------------------------
(* Statements *)

\* get_register for the operand, its instructions, release_register: the
\* context after it, with the operand's register in "reg".
\* Variant: the register is not released.
OneOperandKept(c, e) == [ctx |-> GenExpr(GetRegister(c, e), e, c.low), reg |-> c.low]
OneOperand(c, e) ==
    [ctx |-> ReleaseRegister(GenExpr(GetRegister(c, e), e, c.low), e), reg |-> c.low]

\* netlink_gen_payload_stmt, _exthdr_stmt, _meta_stmt and _ct_stmt
GenMangle(c, s) ==
    LET o == OneOperand(c, s.val)
    IN AddExpr(o.ctx, [n |-> "mangle", key |-> s.to.key, off |-> s.to.off,
                       sreg |-> PutRegister(o.reg), len |-> NumBytes(s.to.len)])

\* The registers that hold an operand of nat: one, or two for a range.
\* The operand is in the registers before its instructions are added.
WholeReg(c) == GetRegister(c, NoExpr)
GenPair(c, e) ==
    CASE e.e = "none"  -> [ctx |-> c, min |-> 0, max |-> 0]
      [] e.e = "range" ->
           [ctx |-> GenExpr(GenExpr(WholeReg(WholeReg(c)), e.left, c.low),
                            e.right, c.low + RegWords),
            min |-> c.low, max |-> c.low + RegWords]
      [] OTHER -> [ctx |-> GenExpr(WholeReg(c), e, c.low), min |-> c.low, max |-> 0]

NumRegs(e) == IF e.e = "none" THEN 0 ELSE IF e.e = "range" THEN 2 ELSE 1
RECURSIVE ReleaseAll(_, _)
ReleaseAll(c, n) == IF n = 0 THEN c ELSE ReleaseAll(ReleaseRegister(c, NoExpr), n - 1)

\* Where the parts of a concatenation are, or of what a map returns: the registers that follow the
\* one of the address.
NatMapRegs(s, areg) ==
    LET space == netlink_register_space(AddrLen)
        interval == s.addr.e = "map" /\ s.addr.set.interval
        concat == "concat" \in s.flags
        amin == IF interval THEN areg + space ELSE areg
        next == IF interval THEN amin + space ELSE amin
    IN [amax |-> IF ~interval THEN 0 ELSE IF concat THEN next ELSE amin,
        pmin |-> IF ~concat THEN 0 ELSE IF interval THEN amin ELSE next + space,
        pmax |-> IF concat /\ interval THEN next + space ELSE 0]

PutOptional(reg) == IF reg = 0 THEN 0 ELSE PutRegister(reg)

\* netlink_gen_nat_stmt: a and p are the operands in their registers.
NatCode(s, a, p, m) ==
    LET Or0(x, y) == PutOptional(IF x = 0 THEN y ELSE x)
    IN AddExpr(ReleaseAll(p.ctx, NumRegs(s.addr) + NumRegs(s.proto)),
               [n |-> IF s.type \in {"snat", "dnat"} THEN "nat" ELSE s.type, type |-> s.type,
                amin |-> PutOptional(a.min), amax |-> PutOptional(m.amax),
                pmin |-> Or0(p.min, m.pmin), pmax |-> Or0(p.max, m.pmax)])
NatPorts(s, a) ==
    NatCode(s, a, GenPair(a.ctx, s.proto),
            IF s.addr.e = "map" \/ "concat" \in s.flags THEN NatMapRegs(s, a.min)
            ELSE [amax |-> a.max, pmin |-> 0, pmax |-> 0])
GenNat(c, s) == NatPorts(s, GenPair(c, s.addr))

\* netlink_gen_tproxy_stmt
TproxyCode(s, a, p) ==
    AddExpr(ReleaseAll(p.ctx, NumRegs(s.addr) + NumRegs(s.port)),
            [n |-> "tproxy", addr |-> PutOptional(a.min), port |-> PutOptional(p.min)])
TproxyPort(s, a) == TproxyCode(s, a, GenPair(a.ctx, s.port))
GenTproxy(c, s) == TproxyPort(s, GenPair(c, s.addr))

\* netlink_gen_dup_stmt loads the address before the device, netlink_gen_fwd_stmt
\* the device before the address; the first is released last.
Taken(c, e) ==
    IF e = NoExpr THEN [ctx |-> c, reg |-> 0]
    ELSE [ctx |-> GenExpr(GetRegister(c, e), e, c.low), reg |-> PutRegister(c.low)]
GivenBack(c, e) == IF e = NoExpr THEN c ELSE ReleaseRegister(c, e)
TwoOperands(x, first, second, Code(_, _)) ==
    LET Both(y) == AddExpr(GivenBack(GivenBack(y.ctx, second), first), Code(x.reg, y.reg))
    IN Both(Taken(x.ctx, second))
GenDupFwd(c, s) ==
    IF s.s = "dup"
    THEN TwoOperands(Taken(c, s.to), s.to, s.dev,
                     LAMBDA to, dev : IF IsDevice(s.to) THEN [n |-> "dup", addr |-> 0, dev |-> to]
                                      ELSE [n |-> "dup", addr |-> to, dev |-> dev])
    ELSE TwoOperands(Taken(c, s.dev), s.dev, s.to,
                     LAMBDA dev, to : [n |-> "fwd", addr |-> to, dev |-> dev])

\* netlink_gen_queue_stmt: a range of numbers is in the instruction, anything
\* else in a register.
GenQueue(c, s) ==
    IF s.queue.e \in {"value", "range"}
    THEN AddExpr(c, [n |-> "queue", sreg |-> 0, num |-> Low(s.queue).v,
                     total |-> High(s.queue).v - Low(s.queue).v + 1])
    ELSE LET o == OneOperand(c, s.queue)
         IN AddExpr(o.ctx, [n |-> "queue", sreg |-> PutRegister(o.reg)])

\* netlink_gen_objref_stmt
GenObjref(c, s) ==
    IF s.map = NoExpr THEN AddExpr(c, [n |-> "objref", sreg |-> 0, name |-> s.name])
    ELSE LET o == OneOperand(c, s.map.key)
         IN AddExpr(o.ctx, [n |-> "objref", sreg |-> o.reg, set |-> s.map.set])

\* netlink_gen_set_stmt, netlink_gen_map_stmt and netlink_gen_meter_stmt
GenDynset(c, s) ==
    TwoOperands(Taken(c, s.key), s.key, s.data, LAMBDA key, data :
        [n |-> "dynset", set |-> s.set, op |-> s.op, sreg |-> key, data |-> data,
         stmts |-> s.stmts])

\* netlink_gen_stmt
GenStmt(c, s) ==
    CASE s.s = "match"   -> GenRelational(c, s)
      [] s.s = "verdict" -> GenImmediate(c, s.verdict, NFT_REG_VERDICT)
      [] s.s = "vmap"    -> GenMap(c, s.map, NFT_REG_VERDICT)
      [] s.s = "mangle"  -> GenMangle(c, s)
      [] s.s = "nat"     -> GenNat(c, s)
      [] s.s = "tproxy"  -> GenTproxy(c, s)
      [] s.s \in {"dup", "fwd"} -> GenDupFwd(c, s)
      [] s.s = "queue"   -> GenQueue(c, s)
      [] s.s = "objref"  -> GenObjref(c, s)
      [] s.s = "dynset"  -> GenDynset(c, s)
      [] s.s = "plain"   -> AddExpr(c, [n |-> "plain", kind |-> s.kind])
=============================================================================
