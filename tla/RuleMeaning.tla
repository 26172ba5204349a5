----------------------------- MODULE RuleMeaning -----------------------------
(***************************************************************************)
(* What a rule means as it is written: a reference for everything that     *)
(* the evaluation makes of it.  Fields are numbers here, whatever the      *)
(* order of their bytes and wherever their bits are; sets are what is      *)
(* between the braces.                                                     *)
(***************************************************************************)
EXTENDS RuleMachine

IsText(e) == e.e = "symbol" /\ "text" \in DOMAIN e

RECURSIVE Width(_)
Width(e) ==
    CASE e.e = "load" -> e.len
      [] e.e = "binop" -> Width(e.left)
      [] OTHER -> WordBits

\* The number in a field.
Field(e, p) ==
    LET bytes == p[e.key]
    IN IF Keys[e.key].order = "host" THEN NumIn(bytes, "host")
       ELSE (Num(bytes) \div 2^(ByteBits * Len(bytes) - e.off - e.len)) % 2^e.len

FlagSum(flags) == FoldLeft(LAMBDA n, f : Or(n, f.v), 0, flags)

\* Whether number n, of so many bits, is meant by e.
Meant(n, bits, e) ==
    CASE IsText(e) ->
           LET stem == 2^(ByteBits * (Len(e.v) - 1))
           IN IF Last(e.v) = Ones(ByteBits) THEN n % stem = NumIn(e.v, "host") % stem
              ELSE n = NumIn(e.v, "host")
      [] e.e = "symbol" -> n = e.v
      [] e.e = "list"   -> n = FlagSum(e.flags)
      [] e.e = "slash"  -> n \div 2^(bits - e.plen) = e.base.v \div 2^(bits - e.plen)
      [] e.e = "range"  ->
           IF e.left.v <= e.right.v THEN n \in e.left.v..e.right.v
           ELSE n >= e.left.v \/ n <= e.right.v

PartsSaid(e) == IF e.e = "concat" THEN e.parts ELSE <<e>>

\* Whether the numbers ns are meant by one of the elements of e.
RECURSIVE MeantBy(_, _, _)
MeantBy(ns, bits, e) ==
    CASE e.e = "braces"  -> \E i \in DOMAIN e.elems : MeantBy(ns, bits, e.elems[i])
      [] e.e = "mapping" -> MeantBy(ns, bits, e.left)
      [] e.e = "name"    -> MeantBy(ns, bits, e.init)
      [] OTHER -> \A i \in DOMAIN ns : Meant(ns[i], bits[i], PartsSaid(e)[i])

RECURSIVE Number(_, _)
NumbersOf(e, p) == [i \in DOMAIN PartsSaid(e) |-> Number(PartsSaid(e)[i], p)]
Widths(e) == [i \in DOMAIN PartsSaid(e) |-> Width(PartsSaid(e)[i])]

\* What a map has for its key, NoExpr without an element.
Found(m, p) ==
    LET elems == IF m.set.e = "name" THEN m.set.init.elems ELSE m.set.elems
        hits == {i \in DOMAIN elems : MeantBy(NumbersOf(m.key, p), Widths(m.key), elems[i])}
    IN IF hits = {} THEN NoExpr ELSE elems[CHOOSE i \in hits : TRUE].right

\* What an operand is for a packet: a map is looked up.
Said(e, p) == IF e.e = "map" THEN Found(e, p) ELSE e

Wire(e, p) == FlattenSeq([i \in DOMAIN PartsSaid(e) |-> Pad(p[PartsSaid(e)[i].key])])

Number(e, p) ==
    CASE e.e = "load"   -> Field(e, p)
      [] IsText(e)      -> NumIn(e.v, "host")
      [] e.e = "symbol" -> e.v
      [] e.e = "list"   -> FlagSum(e.flags)
      [] e.e = "hash"   -> NumIn(HashBytes(Wire(e.arg, p), e.mod), "host")
      [] e.e = "map"    -> Number(Found(e, p), p)
      [] e.e = "binop"  ->
           LET l == Number(e.left, p)
               r == Number(e.right, p)
           IN CASE e.op = "and" -> And(l, r)
                [] e.op = "or"  -> Or(l, r)
                [] e.op = "xor" -> Xor(l, r)
                [] e.op = "lshift" -> (l * 2^r) % 2^Width(e)
                [] e.op = "rshift" -> l \div 2^r

---------------------------------------------------------------------------
(* Comparisons *)

IsFlagField(e) == e.e = "load" /\ Types[e.dtype[1]].bitmask

Holds(r, p) ==
    IF r.e = "flagcmp"
    THEN LET masked == And(Number(r.expr, p), Number(r.mask, p))
         IN (masked = Number(r.value, p)) = (r.op = "eq")
    ELSE LET ns == NumbersOf(r.left, p)
             meant == MeantBy(ns, Widths(r.left), r.right)
         IN CASE r.op = "implicit" /\ IsFlagField(r.left) /\ r.right.e \in {"symbol", "list"} ->
                   And(ns[1], Number(r.right, p)) # 0
              [] r.op = "neg" -> And(ns[1], Number(r.right, p)) = 0
              [] r.op \in {"implicit", "eq"} -> meant
              [] r.op = "neq" -> ~meant
              [] r.op = "lt"  -> ns[1] < r.right.v
              [] r.op = "gt"  -> ns[1] > r.right.v
              [] r.op = "lte" -> ns[1] <= r.right.v
              [] r.op = "gte" -> ns[1] >= r.right.v

---------------------------------------------------------------------------
(* Statements *)

\* The first and the last number of an operand of so many bits.
FirstOf(e, bits, p) ==
    CASE e.e = "range" -> e.left.v
      [] e.e = "slash" -> e.base.v - (e.base.v % 2^(bits - e.plen))
      [] OTHER -> Number(e, p)
LastOf(e, bits, p) ==
    CASE e.e = "range" -> e.right.v
      [] e.e = "slash" -> FirstOf(e, bits, p) + Ones(bits - e.plen)
      [] OTHER -> Number(e, p)

Nothing == <<"none">>
\* First and last number of an operand, as bytes on the wire.
EndsOf(e, n, p) ==
    IF e = NoExpr THEN <<Nothing, Nothing>>
    ELSE <<BigEndian(FirstOf(e, n * ByteBits, p), n), BigEndian(LastOf(e, n * ByteBits, p), n)>>

\* The field with a number written into it.
Overwrite(bytes, e, n) ==
    IF Keys[e.key].order = "host" THEN Raw(n, "host", Len(bytes))
    ELSE LET unit == 2^(ByteBits * Len(bytes) - e.off - e.len)
             old == (Num(bytes) \div unit) % 2^e.len
         IN BigEndian(Num(bytes) + (n - old) * unit, Len(bytes))

\* The key of an element, in the bytes of the types of the set.
KeyBytes(e, dtype, p) ==
    LET Part(i) == LET t == Types[dtype[i]]
                   IN Raw(Number(PartsSaid(e)[i], p), t.order, NumBytes(t.size))
    IN IF Len(dtype) = 1 THEN Part(1) ELSE FlattenSeq([i \in DOMAIN dtype |-> Pad(Part(i))])

SaidNat(st, s) ==
    LET addr == Said(s.addr, st.pkt)
        both == addr.e = "concat"
        a == EndsOf(IF both THEN addr.parts[1] ELSE addr, AddrBytes, st.pkt)
        q == EndsOf(IF both THEN addr.parts[2] ELSE s.proto, PortBytes, st.pkt)
    IN IF s.addr # NoExpr /\ addr = NoExpr THEN Break(st)
       ELSE Emit(st, <<s.type, <<a[1], a[2], q[1], q[2]>> >>)

SaidDevice(e, p) == IF e = NoExpr THEN Nothing ELSE Raw(Number(e, p), "host", WordBytes)

SaidDo(st, s) ==
    LET p == st.pkt
        Missing(e) == e.e = "map" /\ Found(e, p) = NoExpr
        Name(e) == Raw(NumIn(e.v, "host"), "host", 2 * WordBytes)
    IN CASE s.s = "match" -> IF Holds(s.expr, p) THEN st ELSE Break(st)
         [] s.s = "verdict" ->
              Break(IF Missing(s.expr) THEN st
                    ELSE Emit(st, <<"verdict", Said(s.expr, p).v>>))
         [] s.s = "mangle" ->
              IF Missing(s.val) THEN Break(st)
              ELSE LET b == Overwrite(p[s.to.key], s.to, Number(s.val, p))
                   IN Rewritten(Emit(st, <<"mangle", s.to.key, b>>), s.to.key, b)
         [] s.s = "nat" -> SaidNat(st, s)
         [] s.s = "tproxy" ->
              Emit(st, <<"tproxy", EndsOf(s.addr, AddrBytes, p)[1],
                         EndsOf(s.port, PortBytes, p)[1]>>)
         [] s.s = "dup" /\ st.family = "netdev" ->
              Emit(st, <<"dup", Nothing, SaidDevice(s.to, p)>>)
         [] s.s = "fwd" \/ (s.s = "dup" /\ st.family # "netdev") ->
              IF Missing(s.dev) THEN Break(st)
              ELSE Emit(st, <<s.s, EndsOf(s.to, AddrBytes, p)[1], SaidDevice(s.dev, p)>>)
         [] s.s = "queue" ->
              LET Pair(n) == Raw(n, "host", WordBytes)
              IN IF Missing(s.queue) THEN Break(st)
                 ELSE Emit(st, <<"queue", Pair(FirstOf(s.queue, WordBits, p)),
                                 Pair(LastOf(s.queue, WordBits, p))>>)
         [] s.s = "objref" ->
              IF s.map = NoExpr THEN Emit(st, <<"objref", Name(s.name)>>)
              ELSE IF Missing(s.map) THEN Break(st)
              ELSE Emit(st, <<"objref", Name(Found(s.map, p))>>)
         [] s.s = "dynset" ->
              Emit(st, <<"dynset", s.set.name, s.op, KeyBytes(s.key, s.set.key, p),
                         IF s.data = NoExpr THEN Nothing ELSE KeyBytes(s.data, s.set.data, p),
                         s.stmts>>)
         [] s.s = "meter" ->
              Emit(st, <<"dynset", s.name, "add",
                         IF s.key.e = "concat" THEN Wire(s.key, p) ELSE p[s.key.key],
                         Nothing, s.stmts>>)
         [] s.s = "plain" -> Emit(st, <<"plain", s.kind>>)

\* What a rule of a family says of packet p.
RECURSIVE SaidAll(_, _)
SaidAll(st, stmts) ==
    IF stmts = <<>> \/ ~st.go THEN st ELSE SaidAll(SaidDo(st, Head(stmts)), Tail(stmts))
SaidEffects(written, p) ==
    SaidAll([family |-> written.family] @@ Start(p), written.stmts).out
=============================================================================
