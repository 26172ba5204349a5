---------------------------- MODULE RuleMachine ----------------------------
(***************************************************************************)
(* What a rule says and what the kernel makes of its code.                 *)
(*                                                                         *)
(* A rule is a sequence of statements over expressions, as the evaluation  *)
(* leaves them.  Effects says what a rule does to a packet.  The kernel    *)
(* (outside of this repository; modelled from the way the code uses it)    *)
(* runs a sequence of instructions over sixteen words of registers, and    *)
(* Run says what these do.  A byte has ByteBits bits and a word WordBytes  *)
(* bytes, so that all packets can be tried.                                *)
(*                                                                         *)
(* Expressions are records with their kind in "e" and their length in bits *)
(* in "len"; statements have their kind in "s", instructions in "n".  A    *)
(* set is a record: lengths of keys and data in bits, whether its data are *)
(* ranges, and a function from the keys it matches to data.                *)
(***************************************************************************)
EXTENDS Integers, Sequences, SequencesExt

CONSTANTS
    ByteBits,  \* bits of a byte
    WordBytes, \* bytes of a 32 bit word of the registers
    Keys,      \* what can be loaded: key -> [kind, len, order, string, ...]
    Types,     \* types of values: name -> [base, bitmask, size, order]
    AddrLen    \* length in bits of an address of the family

ASSUME MachineAssumption == /\ ByteBits \in Nat \ {0}
                            /\ WordBytes \in Nat \ {0}
                            /\ AddrLen \in Nat

WordBits == WordBytes * ByteBits
RegWords == 4                       \* words of one 128 bit register
NumWords == 16

DivUp(a, b) == (a + b - 1) \div b
NumBytes(len) == DivUp(len, ByteBits)
netlink_register_space(len) == DivUp(len, WordBits)
netlink_padded_len(len) == netlink_register_space(len) * WordBits

---------------------------------------------------------------------------
(* Bytes and numbers *)

BigEndian(v, n) ==
    [i \in 1..n |-> (v \div 2^(ByteBits * (n - i))) % 2^ByteBits]

\* The bytes a number is exported to (a little-endian host).
Raw(v, order, n) ==
    IF order = "host" THEN Reverse(BigEndian(v, n)) ELSE BigEndian(v, n)

RECURSIVE Num(_)
Num(bytes) == IF bytes = <<>> THEN 0 ELSE Last(bytes) + 2^ByteBits * Num(Front(bytes))
NumIn(bytes, order) == Num(IF order = "host" THEN Reverse(bytes) ELSE bytes)

Zeros(n) == [i \in 1..n |-> 0]
Pad(bytes) == bytes \o Zeros(DivUp(Len(bytes), WordBytes) * WordBytes - Len(bytes))

\* Bit by bit, over the numbers of a word; tables are quicker to look up.
RECURSIVE BitByBit(_, _, _)
BitByBit(Op(_, _), a, b) ==
    IF a = 0 /\ b = 0 THEN 0
    ELSE Op(a % 2, b % 2) + 2 * BitByBit(Op, a \div 2, b \div 2)
Numbers == 0..(2^WordBits - 1)
AndTable == [a, b \in Numbers |-> BitByBit(LAMBDA x, y : x * y, a, b)]
OrTable  == [a, b \in Numbers |-> BitByBit(LAMBDA x, y : x + y - x * y, a, b)]
XorTable == [a, b \in Numbers |-> BitByBit(LAMBDA x, y : (x + y) % 2, a, b)]
RECURSIVE WordByWord(_, _, _)
WordByWord(table, a, b) ==
    LET n == 2^WordBits
    IN IF a < n /\ b < n THEN table[a, b]
       ELSE table[a % n, b % n] + n * WordByWord(table, a \div n, b \div n)
And(a, b) == WordByWord(AndTable, a, b)
Or(a, b)  == WordByWord(OrTable, a, b)
Xor(a, b) == WordByWord(XorTable, a, b)
Ones(n) == 2^n - 1

ZipBytes(Op(_, _), a, b) == [i \in DOMAIN a |-> Op(a[i], b[i])]

\* A hash is left open: any function of the bytes shows a wrong operand.
HashBytes(bytes, mod) ==
    Raw(FoldLeft(LAMBDA a, b : (3 * a + b + 1) % mod, 0, bytes), "host", WordBytes)

---------------------------------------------------------------------------
(* The meaning of expressions: the bytes of the value, <<>> when a map has *)
(* no element for its key.                                                 *)

\* n bytes of a field, from the byte that its offset in bits is in.
Loadable(p, e, n) == SubSeq(p[e.key], e.off \div ByteBits + 1, e.off \div ByteBits + n)

RECURSIVE Value(_, _)
Value(e, p) ==
    LET n == NumBytes(e.len)
    IN CASE e.e = "load"   -> Loadable(p, e, n)
         [] e.e = "value"  -> Raw(e.v, e.order, n)
         [] e.e = "concat" -> FlattenSeq([i \in DOMAIN e.parts |-> Pad(Value(e.parts[i], p))])
         [] e.e = "unary"  -> Reverse(Value(e.arg, p))
         [] e.e = "hash"   -> HashBytes(Value(e.arg, p), e.mod)
         [] e.e = "map"    ->
              LET k == Value(e.key, p)
              IN IF k \in DOMAIN e.set.elems THEN e.set.elems[k] ELSE <<>>
         [] e.e = "binop"  ->
              LET l == Value(e.left, p)
                  r == Raw(e.right.v, e.order, n)
              IN CASE e.op = "and" -> ZipBytes(And, l, r)
                   [] e.op = "or"  -> ZipBytes(Or, l, r)
                   [] e.op = "xor" -> ZipBytes(Xor, l, r)
                   [] e.op = "lshift" ->
                        Raw((NumIn(l, "host") * 2^e.right.v) % 2^e.len, "host", n)
                   [] e.op = "rshift" -> Raw(NumIn(l, "host") \div 2^e.right.v, "host", n)

Compare(op, a, b) ==
    CASE op \in {"implicit", "eq"} -> a = b
      [] op = "neq" -> a # b
      [] op = "lt"  -> Num(a) < Num(b)
      [] op = "gt"  -> Num(a) > Num(b)
      [] op = "lte" -> Num(a) <= Num(b)
      [] op = "gte" -> Num(a) >= Num(b)

\* Whether the packet matches "left op right".
Matches(m, p) ==
    LET l == Value(m.left, p)
        r == m.right
        IsNot(b) == IF m.op = "neq" THEN ~b ELSE b
    IN CASE r.e = "range" ->
              IsNot(Num(l) >= Num(Value(r.left, p)) /\ Num(l) <= Num(Value(r.right, p)))
         [] r.e = "prefix" ->
              LET drop == 2^(r.len - r.plen)
              IN IsNot(IF r.string
                       THEN SubSeq(l, 1, NumBytes(r.plen)) =
                            SubSeq(Raw(r.v, r.order, NumBytes(r.len)), 1, NumBytes(r.plen))
                       ELSE NumIn(l, r.order) \div drop = r.v \div drop)
         [] r.e = "set" -> IsNot(l \in DOMAIN r.set.elems)
         [] r.e = "flags" ->
              LET v == Raw(r.v, r.order, NumBytes(r.len))
                  some == ZipBytes(And, l, v) # Zeros(Len(v))
              IN CASE m.op = "implicit" /\ m.left.e = "binop" -> l = v
                   [] m.op = "implicit" -> some
                   [] m.op = "neg"      -> ~some
                   [] OTHER             -> Compare(m.op, l, v)
         [] r.e = "value" -> Compare(m.op, l, Value(r, p))

---------------------------------------------------------------------------
(* The meaning of a rule: the effects of its statements, up to one that    *)
(* does not match.                                                         *)

NoExpr == [e |-> "none"]
Operand(e, p) == IF e.e = "none" THEN <<"none">> ELSE Value(e, p)
Low(e)  == IF e.e = "range" THEN e.left ELSE e
High(e) == IF e.e = "range" THEN e.right ELSE e

AddrBytes == NumBytes(AddrLen)
PortBytes == WordBytes \div 2     \* of a port or the number of a queue

\* The bytes of a packet's key after v is written into them.
Written(bytes, off, v) ==
    LET at == off \div ByteBits
    IN [i \in DOMAIN bytes |-> IF i - at \in DOMAIN v THEN v[i - at] ELSE bytes[i]]
Rewritten(st, key, bytes) == [st EXCEPT !.pkt[key] = bytes]

\* What a nat statement hands to the kernel: the smallest and largest address
\* and port.  The datum of a map is "address", "address . port", "address .
\* address" or "address . port . address . port"; "address . port" may also be
\* given as such.
NatOperands(s, p) ==
    LET word == WordBytes
        aw == Len(Pad(Zeros(AddrBytes)))
        data == Operand(Low(s.addr), p)
        concat == "concat" \in s.flags
        mapped == s.addr.e = "map" \/ concat
        interval == s.addr.e = "map" /\ s.addr.set.interval
        At(i, n) == SubSeq(data, i + 1, i + n)
        end == IF concat THEN aw + word ELSE aw
    IN IF data = <<>> THEN <<>>
       ELSE << IF mapped THEN At(0, AddrBytes) ELSE data,
               IF interval THEN At(end, AddrBytes)
               ELSE IF mapped THEN At(0, AddrBytes) ELSE Operand(High(s.addr), p),
               IF concat THEN At(aw, PortBytes) ELSE Operand(Low(s.proto), p),
               IF concat THEN At(IF interval THEN end + aw ELSE aw, PortBytes)
               ELSE Operand(High(s.proto), p) >>

\* In family netdev a packet is duplicated to a device only.
IsDevice(e) == "dtype" \in DOMAIN e /\ e.dtype = <<"ifindex">>

\* The state of a packet in a rule: the packet, whether the rule goes on, and
\* the effects so far.
Start(p) == [pkt |-> p, go |-> TRUE, out |-> <<>>]
Break(st) == [st EXCEPT !.go = FALSE]
Emit(st, eff) == [st EXCEPT !.out = Append(@, eff)]

Do(st, s) ==
    LET p == st.pkt
        With(v, eff) == IF v = <<>> THEN Break(st) ELSE Emit(st, eff)
        Found(m) == Value(m.key, p) \in DOMAIN m.set.elems
        Datum(m) == m.set.elems[Value(m.key, p)]
    IN CASE s.s = "match" -> IF Matches(s, p) THEN st ELSE Break(st)
         [] s.s = "verdict" -> Break(Emit(st, <<"verdict", s.verdict>>))
         [] s.s = "vmap" ->
              Break(IF Found(s.map) THEN Emit(st, <<"verdict", Datum(s.map)>>) ELSE st)
         [] s.s = "mangle" ->
              LET v == Value(s.val, p)
              IN IF v = <<>> THEN Break(st)
                 ELSE LET b == Written(p[s.to.key], s.to.off, v)
                      IN Rewritten(Emit(st, <<"mangle", s.to.key, b>>), s.to.key, b)
         [] s.s = "nat" ->
              LET v == NatOperands(s, p) IN With(v, <<s.type, v>>)
         [] s.s = "tproxy" ->
              Emit(st, <<"tproxy", Operand(s.addr, p), Operand(s.port, p)>>)
         [] s.s = "dup" /\ IsDevice(s.to) ->
              LET v == Operand(s.to, p) IN With(v, <<"dup", <<"none">>, v>>)
         [] s.s \in {"dup", "fwd"} /\ ~IsDevice(s.to) ->
              LET v == Operand(s.dev, p) IN With(v, <<s.s, Operand(s.to, p), v>>)
         [] s.s = "queue" ->
              LET v == Operand(Low(s.queue), p)
              IN With(v, <<"queue", Pad(v), Pad(Operand(High(s.queue), p))>>)
         [] s.s = "objref" ->
              IF s.map = NoExpr THEN Emit(st, <<"objref", s.name>>)
              ELSE IF Found(s.map) THEN Emit(st, <<"objref", Datum(s.map)>>) ELSE Break(st)
         [] s.s = "dynset" ->
              Emit(st, <<"dynset", s.set.name, s.op, Value(s.key, p), Operand(s.data, p), s.stmts>>)
         [] s.s = "plain" -> Emit(st, <<"plain", s.kind>>)

RECURSIVE DoAll(_, _)
DoAll(st, rule) ==
    IF rule = <<>> \/ ~st.go THEN st ELSE DoAll(Do(st, Head(rule)), Tail(rule))
Effects(rule, p) == DoAll(Start(p), rule).out

---------------------------------------------------------------------------
(* The kernel *)

NFT_REG_VERDICT == 0
NFT_REG_1    == 1
NFT_REG32_00 == 8

\* The word (from 1) a register number stands for: the numbers 1 to 4 are
\* those of whole registers, those from NFT_REG32_00 on are those of words.
KernelWord(r) == IF r < NFT_REG32_00 THEN (r - 1) * RegWords + 1
                 ELSE r - NFT_REG32_00 + 1

Fetch(regs, r, n) ==
    LET at == (KernelWord(r) - 1) * WordBytes IN SubSeq(regs, at + 1, at + n)

Store(regs, r, bytes) ==
    LET at == (KernelWord(r) - 1) * WordBytes
        b == Pad(bytes)
    IN [i \in DOMAIN regs |-> IF i - at \in DOMAIN b THEN b[i - at] ELSE regs[i]]

Bool(i, v) ==
    LET m == ZipBytes(And, v, i.mask) IN ZipBytes(Xor, m, i.xor)

\* One instruction.  Register 0 as an operand means that there is none.
Exec(st, i) ==
    LET regs == st.regs
        Reg(r, n) == IF r = 0 THEN <<"none">> ELSE Fetch(regs, r, n)
        Put(v) == [st EXCEPT !.regs = Store(regs, i.dreg, v)]
        Keep(b) == IF b THEN st ELSE Break(st)
        Found(k) == k \in DOMAIN i.set.elems
        KeyAt(r) == Fetch(regs, r, NumBytes(i.set.klen))
    IN CASE i.n = "load" -> Put(Loadable(st.pkt, i, i.len))
         [] i.n = "immediate" ->
              IF i.dreg = NFT_REG_VERDICT THEN Break(Emit(st, <<"verdict", i.data>>))
              ELSE Put(i.data)
         [] i.n = "bitwise" ->
              LET v == Fetch(regs, i.sreg, i.len)
              IN Put(CASE i.op = "bool" -> Bool(i, v)
                       [] i.op = "lshift" ->
                            Raw((NumIn(v, "host") * 2^i.data) % 2^(i.len * ByteBits), "host", i.len)
                       [] i.op = "rshift" -> Raw(NumIn(v, "host") \div 2^i.data, "host", i.len))
         [] i.n = "byteorder" -> Put(Reverse(Fetch(regs, i.sreg, i.len)))
         [] i.n = "hash" -> Put(HashBytes(Fetch(regs, i.sreg, i.len), i.mod))
         [] i.n = "cmp" -> Keep(Compare(i.op, Fetch(regs, i.sreg, Len(i.data)), i.data))
         [] i.n = "range" ->
              LET v == Num(Fetch(regs, i.sreg, Len(i.from)))
              IN Keep(~(v >= Num(i.from) /\ v <= Num(i.to)))
         [] i.n = "lookup" ->
              LET k == KeyAt(i.sreg)
              IN CASE i.dreg = -1 -> Keep(Found(k) # i.inv)
                   [] ~Found(k)   -> Break(st)
                   [] i.dreg = NFT_REG_VERDICT /\ Found(k) ->
                        Break(Emit(st, <<"verdict", i.set.elems[k]>>))
                   [] OTHER -> Put(i.set.elems[k])
         [] i.n = "mangle" ->
              LET b == Written(st.pkt[i.key], i.off, Fetch(regs, i.sreg, i.len))
              IN Rewritten(Emit(st, <<"mangle", i.key, b>>), i.key, b)
         [] i.n \in {"nat", "masq", "redir"} ->
              LET a == Reg(i.amin, AddrBytes)
                  q == Reg(i.pmin, PortBytes)
              IN Emit(st, <<i.type, << a, IF i.amax = 0 THEN a ELSE Reg(i.amax, AddrBytes),
                                       q, IF i.pmax = 0 THEN q ELSE Reg(i.pmax, PortBytes) >> >>)
         [] i.n = "tproxy" ->
              Emit(st, <<"tproxy", Reg(i.addr, AddrBytes), Reg(i.port, PortBytes)>>)
         [] i.n \in {"dup", "fwd"} ->
              Emit(st, <<i.n, Reg(i.addr, AddrBytes), Reg(i.dev, WordBytes)>>)
         [] i.n = "queue" ->
              IF i.sreg # 0
              THEN LET v == Reg(i.sreg, WordBytes) IN Emit(st, <<"queue", v, v>>)
              ELSE Emit(st, <<"queue", Raw(i.num, "host", WordBytes),
                              Raw(i.num + i.total - 1, "host", WordBytes)>>)
         [] i.n = "objref" ->
              IF i.sreg = 0 THEN Emit(st, <<"objref", i.name>>)
              ELSE LET k == KeyAt(i.sreg)
                   IN IF Found(k) THEN Emit(st, <<"objref", i.set.elems[k]>>)
                      ELSE Break(st)
         [] i.n = "dynset" ->
              Emit(st, <<"dynset", i.set.name, i.op, KeyAt(i.sreg),
                         Reg(i.data, NumBytes(i.set.dlen)), i.stmts>>)
         [] i.n = "plain" -> Emit(st, <<"plain", i.kind>>)

RECURSIVE ExecAll(_, _)
ExecAll(st, code) ==
    IF code = <<>> \/ ~st.go THEN st ELSE ExecAll(Exec(st, Head(code)), Tail(code))
Run(code, p) == ExecAll([regs |-> Zeros(NumWords * WordBytes)] @@ Start(p), code).out
=============================================================================
