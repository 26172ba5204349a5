------------------------------ MODULE Optimize ------------------------------
(***************************************************************************)
(* optimize.c: neighbouring rules of a chain that compare the same         *)
(* selectors become one rule with a set or a map.  chain_optimize collects *)
(* the statements of all rules as the columns of a matrix, finds runs of   *)
(* rules whose rows agree, and merges one run after the other.             *)
(*                                                                         *)
(* The rules are those of the parser, before the evaluation.  The right    *)
(* side of a comparison has its kind in "k" and its elements in "els",     *)
(* each the set of the values it covers.  The elements of a set or map     *)
(* that a merge makes are tuples of such sets, one for every selector.     *)
(***************************************************************************)
EXTENDS Integers, Sequences, SequencesExt

CONSTANTS
    Chains,    \* chains: sequences of rules, these of statements
    OddChains, \* others, of which only the end is asked (NoAbort)
    Packets,   \* [field -> value, "limit" -> BOOLEAN]
    MAX_STMTS

VARIABLES
    rules,   \* the statements of every rule
    live,    \* the rules still in the chain
    cols,    \* ctx->stmt
    matrix,  \* ctx->stmt_matrix: rule -> column -> place of a statement
    merges,  \* the runs of rules to merge that are left: [from, to]
    phase,   \* "collect", "build", "look", "merge" or "done"
    abort,   \* an assert failed or a NULL pointer was followed
    chain    \* the chain as it was

vars == <<rules, live, cols, matrix, merges, phase, abort, chain>>

---------------------------------------------------------------------------
(* What a chain does to a packet: the verdict, or the address translation  *)
(* or rejection that ends it.                                              *)

Field(left, p) == IF left.e = "binop" THEN p[left.arg.key] % left.mask ELSE p[left.key]

Covers(el, lefts, p) == \A i \in DOMAIN lefts : Field(lefts[i], p) \in el[i]
Lefts(left) == IF left.e = "concat" THEN left.parts ELSE <<left>>

Holds(m, p) ==
    LET v == Field(m.left, p)
        in == CASE m.right.k = "merged" ->
                     \E el \in Range(m.right.els) : Covers(el, Lefts(m.left), p)
                [] m.right.k = "list" -> \E f \in UNION Range(m.right.els) : (v \div f) % 2 = 1
                [] OTHER -> v \in UNION Range(m.right.els)
    IN IF m.op = "neq" THEN ~in ELSE in

\* The data of the elements of a map that cover the packet.
Mapped(left, els, p) == {el[2] : el \in {x \in Range(els) : Covers(x[1], Lefts(left), p)}}

\* What a statement makes of a packet: "on", "next" or the fate.
Step(s, p) ==
    LET First(found) == IF found = {} THEN "next" ELSE CHOOSE d \in found : TRUE
    IN CASE s.s = "match" -> IF Holds(s, p) THEN "on" ELSE "next"
         [] s.s = "limit" -> IF p.limit THEN "on" ELSE "next"
         [] s.s \in {"counter", "notrack", "log"} -> "on"
         [] s.s = "reject" -> <<"reject", s.type, s.code>>
         [] s.s = "nat" /\ s.addr.k = "map" -> First(Mapped(s.addr.left, s.addr.els, p))
         [] s.s = "nat" -> <<"nat", s.addr.v, s.proto>>
         [] s.s = "verdict" /\ s.e = "map" -> First(Mapped(s.map, s.els, p))
         [] s.s = "verdict" -> <<s.verdict>>

RECURSIVE FateFrom(_, _, _)
FateFrom(stmts, rest, p) ==
    LET Next == IF rest = <<>> THEN <<"policy">> ELSE FateFrom(Head(rest), Tail(rest), p)
    IN IF stmts = <<>> THEN Next
       ELSE LET r == Step(Head(stmts), p)
            IN IF r = "on" THEN FateFrom(Tail(stmts), rest, p)
               ELSE IF r = "next" THEN Next ELSE r
Fate(c, p) == FateFrom(<<>>, c, p)
---------------------------------------------------------------------------
(* Comparing statements *)

\* __expr_cmp: of an operation only the selector is compared.
RECURSIVE ExprCmp(_, _)
ExprCmp(a, b) ==
    /\ a.e = b.e
    /\ CASE a.e = "load"  -> a.key = b.key
         [] a.e = "binop" -> ExprCmp(a.arg, b.arg)
         [] OTHER         -> FALSE

\* __stmt_type_eq.  Codes of rejections are symbols here, which __expr_cmp
\* never takes for equal: then the statements are.
StmtTypeEq(a, b, fully) ==
    /\ a.s = b.s
    /\ CASE a.s = "match" ->
              /\ a.op = "eq" /\ b.op = "eq"
              /\ fully => ~a.right.ref /\ ~b.right.ref
              /\ ExprCmp(a.left, b.left)
         [] a.s \in {"counter", "notrack"} -> TRUE
         [] a.s = "verdict" ->
              fully => /\ a.e = b.e
                       /\ (a.e = "map") => ExprCmp(a.map, b.map)
         [] a.s = "log" -> a.prefix = b.prefix
         [] a.s = "reject" -> a.type = b.type /\ ((a.code = "none") <=> (b.code = "none"))
         [] a.s = "nat" -> a.type = b.type /\ a.addr.k # "map" /\ b.addr.k # "map"
         [] OTHER -> FALSE

\* stmt_verdict_eq
VerdictEq(a, b) ==
    /\ a.e = b.e
    /\ IF a.e = "map" THEN ExprCmp(a.map, b.map) ELSE a.verdict = b.verdict

Unsupported == [s |-> "invalid"]
Supported(s) == s.s \in {"match", "verdict", "counter", "notrack", "log", "nat", "reject"}

\* stmt_type_find
StmtTypeFind(columns, s) ==
    \/ \E c \in Range(columns) : StmtTypeEq(s, c, FALSE)
    \/ ~Supported(s) /\ Unsupported \in Range(columns)

\* rule_collect_stmts: a new column for every statement that has none.
ColumnFor(s) ==
    IF ~Supported(s) \/ (s.s = "match" /\ (s.op # "eq" \/ s.left.e = "concat"))
    THEN Unsupported ELSE s

CollectStmts(columns, rule) ==
    FoldLeft(LAMBDA c, s : IF Len(c) >= MAX_STMTS \/ StmtTypeFind(c, s) THEN c
                           ELSE Append(c, ColumnFor(s)),
             columns, rule)

First(I) == IF I = {} THEN 0 ELSE Min(I)
ColumnOf(kind) == First({k \in DOMAIN cols : cols[k].s = kind})

\* rule_build_stmt_matrix_stmts: for every column the place of the last
\* statement of the rule that belongs there, 0 for none.
Column(s) ==
    LET k == First({i \in DOMAIN cols : StmtTypeEq(s, cols[i], FALSE)})
    IN IF k = 0 THEN ColumnOf("invalid") ELSE k
Row(rule) ==
    [k \in DOMAIN cols |->
        LET here == {i \in DOMAIN rule : Column(rule[i]) = k}
        IN IF here = {} THEN 0 ELSE Max(here)]

\* The statement of a row in a column.
HasStmt(i, k) == matrix[i][k] # 0
Stmt(i, k) == IF cols[k].s = "invalid" THEN Unsupported ELSE rules[i][matrix[i][k]]

---------------------------------------------------------------------------
(* Rules that can be merged *)

\* stmt_is_mergeable
Mergeable(i, k) ==
    /\ HasStmt(i, k)
    /\ \/ Stmt(i, k).s \in {"match", "nat"}
       \/ Stmt(i, k).s = "verdict" /\ Stmt(i, k).e = "map"

\* rules_eq
RulesEq(i, j) ==
    /\ \E k \in DOMAIN cols : Mergeable(i, k)
    /\ \A k \in DOMAIN cols :
         /\ HasStmt(i, k) <=> HasStmt(j, k)
         /\ HasStmt(i, k) => StmtTypeEq(Stmt(i, k), Stmt(j, k), TRUE)

\* Step 3 of chain_optimize: every rule that follows is compared with the
\* first one of the run.
RECURSIVE RunsFrom(_)
RunsFrom(i) ==
    IF i > Len(rules) THEN <<>>
    ELSE LET stop == Min({j \in (i + 1)..Len(rules) : ~RulesEq(i, j)} \cup {Len(rules) + 1})
         IN (IF stop = i + 1 THEN <<>> ELSE <<[from |-> i, to |-> stop - 1]>>)
            \o RunsFrom(stop)

\* Step 4: the columns that are merged, comparisons and verdict maps.
MergeColumns(i) ==
    SetToSortSeq({k \in DOMAIN cols : Mergeable(i, k) /\ Stmt(i, k).s # "nat"}, <)

\* Variant: the first two rules only.
SameFirstVerdicts(from, to) ==
    LET k == ColumnOf("verdict")
    IN (k # 0 /\ HasStmt(from, k)) => VerdictEq(Stmt(from, k), Stmt(from + 1, k))
\* stmt_verdict_cmp
SameVerdict(from, to) ==
    LET k == ColumnOf("verdict")
    IN k # 0 => \A i \in from..(to - 1) :
                  /\ HasStmt(i, k) <=> HasStmt(i + 1, k)
                  /\ HasStmt(i, k) => VerdictEq(Stmt(i, k), Stmt(i + 1, k))

\* merge_stmt_type
MergeType ==
    LET k == First({i \in DOMAIN cols : cols[i].s \in {"verdict", "nat"}})
    IN IF k = 0 THEN "verdict" ELSE cols[k].s

---------------------------------------------------------------------------
(* Merging the rules from..to *)

\* A set inside of a set is its elements, a list of flags one value.
Single(right) ==
    IF right.k = "list" THEN <<{SumSet(UNION Range(right.els))}>> ELSE right.els

\* In a key of a map a set stays one component, which evaluation does not take
\* apart; a list becomes one value there, too.
Component(right) == UNION Range(Single(right))

Elements(from, to, Of(_)) == FlattenSeq([i \in 1..(to - from + 1) |-> Of(from + i - 1)])

\* The rule without the statements at some places.
Without(rule, gone) ==
    LET kept == SetToSortSeq(DOMAIN rule \ gone, <) IN [i \in DOMAIN kept |-> rule[kept[i]]]

\* remove_counter
Counters(i) == {matrix[i][k] : k \in {c \in DOMAIN cols : cols[c].s = "counter"}} \ {0}
Places(i, ks) == {matrix[i][ks[j]] : j \in DOMAIN ks}

\* The right side of a comparison; of a verdict map, which shares its memory,
\* the keys.
RightOf(s) ==
    IF s.s = "match" THEN s.right
    ELSE [k |-> "set", els |-> [i \in DOMAIN s.els |-> s.els[i][1][1]]]
LeftOf(s) == IF s.s = "match" THEN s.left ELSE s.map

\* merge_expr_stmts, merge_verdict_stmts
MergeStmts(from, to, k) ==
    LET a == Stmt(from, k)
        set == [k |-> "merged", ref |-> FALSE,
                els |-> Elements(from, to, LAMBDA i :
                            LET e == Single(Stmt(i, k).right) IN [j \in DOMAIN e |-> <<e[j]>>])]
        map == Elements(from, to, LAMBDA i : Stmt(i, k).els)
    IN [rules[from] EXCEPT ![matrix[from][k]] =
            IF a.s = "match" THEN [a EXCEPT !.right = set] ELSE [a EXCEPT !.els = map]]

\* __merge_concat_stmts: the product of the sets of a rule.
RECURSIVE Product(_)
Product(rights) ==
    IF rights = <<>> THEN << <<>> >>
    ELSE LET rest == Product(Tail(rights))
         IN FlattenSeq([i \in DOMAIN Head(rights).els |->
                [j \in DOMAIN rest |-> <<Head(rights).els[i]>> \o rest[j]]])

Rights(i, ks) == [j \in DOMAIN ks |-> RightOf(Stmt(i, ks[j]))]
ConcatOf(i, ks) == [e |-> "concat", parts |-> [j \in DOMAIN ks |-> LeftOf(Stmt(i, ks[j]))]]

\* merge_concat_stmts
MergeConcat(from, to, ks) ==
    LET at == matrix[from][ks[1]]
        m == [s |-> "match", op |-> "eq", left |-> ConcatOf(from, ks),
              right |-> [k |-> "merged", ref |-> FALSE,
                         els |-> Elements(from, to, LAMBDA i : Product(Rights(i, ks)))]]
    IN Without([rules[from] EXCEPT ![at] = m], Places(from, ks) \ {at})

\* build_verdict_map for one selector
VmapElements(right, v) ==
    [i \in DOMAIN right.els |-> << <<right.els[i]>>, <<v>> >>]

\* merge_stmts_vmap and merge_concat_stmts_vmap
MergeVmap(from, to, ks) ==
    LET at == matrix[from][ks[1]]
        v == ColumnOf("verdict")
        Rule(i) == LET fate == Stmt(i, v).verdict
                   IN IF Len(ks) = 1 THEN VmapElements(Stmt(i, ks[1]).right, fate)
                      ELSE << <<[j \in DOMAIN ks |-> Component(Stmt(i, ks[j]).right)], <<fate>> >> >>
        left == IF Len(ks) = 1 THEN Stmt(from, ks[1]).left ELSE ConcatOf(from, ks)
        s == [s |-> "verdict", e |-> "map", map |-> left, els |-> Elements(from, to, Rule)]
    IN Without([rules[from] EXCEPT ![at] = s],
               (Places(from, ks) \ {at}) \cup {matrix[from][v]} \cup Counters(from))

\* merge_nat and merge_concat_nat: what is left of the rule is the nat
\* statement, with a map from the selectors to addresses.
MergeNat(from, to, ks) ==
    LET n == ColumnOf("nat")
        Data(i) == <<"nat", Stmt(i, n).addr.v, Stmt(i, n).proto>>
        Rule(i) == LET first == Single(Stmt(i, ks[1]).right)
                   IN IF Len(ks) = 1
                      THEN [j \in DOMAIN first |-> << <<first[j]>>, Data(i) >>]
                      ELSE << <<[j \in DOMAIN ks |-> Component(Stmt(i, ks[j]).right)], Data(i)>> >>
        left == IF Len(ks) = 1 THEN Stmt(from, ks[1]).left ELSE ConcatOf(from, ks)
    IN Without([rules[from] EXCEPT
                   ![matrix[from][n]].addr = [k |-> "map", left |-> left,
                                              els |-> Elements(from, to, Rule)]],
               Places(from, ks) \cup Counters(from))

\* merge_rules
MergeRules(from, to) ==
    LET ks == MergeColumns(from)
    IN IF MergeType = "nat" THEN MergeNat(from, to, ks)
       ELSE IF ~SameVerdict(from, to) THEN MergeVmap(from, to, ks)
       ELSE IF Len(ks) > 1 THEN MergeConcat(from, to, ks)
       ELSE MergeStmts(from, to, ks[1])

\* What merge_rules does not survive: a run of nothing but nat statements, one
\* without the nat statement that other rules of the chain have or without its
\* address, a list in a concatenation.
Aborts(from, to) ==
    LET ks == MergeColumns(from)
        n == ColumnOf("nat")
    IN \/ ks = <<>>
       \/ MergeType = "nat" /\ \E i \in from..to : ~HasStmt(i, n) \/ Stmt(i, n).addr.k = "none"
       \/ /\ MergeType = "verdict" /\ SameVerdict(from, to) /\ Len(ks) > 1
          /\ \E i \in from..to : \E right \in Range(Rights(i, ks)) : right.k = "list"

---------------------------------------------------------------------------
Init ==
    /\ chain \in Chains \/ chain \in OddChains
    /\ rules = chain
    /\ live = DOMAIN chain
    /\ cols = <<>>
    /\ matrix = <<>>
    /\ merges = <<>>
    /\ phase = "collect"
    /\ abort = FALSE

\* Step 1 of chain_optimize, up to the end or too many statements.
Collect ==
    /\ phase = "collect"
    /\ cols' = FoldLeft(CollectStmts, <<>>, rules)
    /\ phase' = IF Len(cols') >= MAX_STMTS THEN "done" ELSE "build"
    /\ UNCHANGED <<rules, live, matrix, merges, abort, chain>>

\* Step 2, one rule: rule_build_stmt_matrix_stmts.
Build ==
    /\ phase = "build"
    /\ IF Len(matrix) = Len(rules)
       THEN phase' = "look" /\ UNCHANGED matrix
       ELSE matrix' = Append(matrix, Row(rules[Len(matrix) + 1])) /\ UNCHANGED phase
    /\ UNCHANGED <<rules, live, cols, merges, abort, chain>>

\* Step 3
Look ==
    /\ phase = "look"
    /\ merges' = RunsFrom(1)
    /\ phase' = "merge"
    /\ UNCHANGED <<rules, live, cols, matrix, abort, chain>>

\* Step 4, one run: the first rule is changed, the others are deleted.
Merge ==
    /\ phase = "merge" /\ merges # <<>>
    /\ LET m == Head(merges)
       IN IF Aborts(m.from, m.to)
          THEN abort' = TRUE /\ phase' = "done" /\ UNCHANGED <<rules, live>>
          ELSE /\ rules' = [rules EXCEPT ![m.from] = MergeRules(m.from, m.to)]
               /\ live' = live \ ((m.from + 1)..m.to)
               /\ UNCHANGED <<abort, phase>>
    /\ merges' = Tail(merges)
    /\ UNCHANGED <<cols, matrix, chain>>

Finish ==
    /\ phase = "merge" /\ merges = <<>>
    /\ phase' = "done"
    /\ UNCHANGED <<rules, live, cols, matrix, merges, abort, chain>>

Next == Collect \/ Build \/ Look \/ Merge \/ Finish

Spec == Init /\ [][Next]_vars

---------------------------------------------------------------------------
Now == LET left == SetToSortSeq(live, <) IN [i \in DOMAIN left |-> rules[left[i]]]

\* The kernel does not take a map with two values for one key.
Maps == {s \in UNION {Range(rules[i]) : i \in live} :
            \/ s.s = "verdict" /\ s.e = "map"
            \/ s.s = "nat" /\ s.addr.k = "map"}
MapElements(s) == Range(IF s.s = "nat" THEN s.addr.els ELSE s.els)
Refused ==
    \E s \in Maps : \E a, b \in MapElements(s) :
        a[2] # b[2] /\ \A j \in DOMAIN a[1] : a[1][j] \cap b[1][j] # {}

\* Before, between and after the merges a chain of Chains does to a packet what
\* it did at first, unless the kernel refuses the map that was made.
FateKept ==
    chain \in Chains /\ phase \in {"merge", "done"} /\ ~abort /\ ~Refused =>
        \A p \in Packets : Fate(Now, p) = Fate(chain, p)

\* Chains the optimizer is known not to come to the end of: where one rule
\* translates addresses, another one selects packets without that; a rule
\* translates and selects nothing; a list is compared along with another field.
Selects(rule) == {s \in Range(rule) : s.s = "match" \/ (s.s = "verdict" /\ s.e = "map")}
Translates(rule) == \E s \in Range(rule) : s.s = "nat"
ToAddress(rule) == \E s \in Range(rule) : s.s = "nat" /\ s.addr.k # "none"
Lists(rule) == \E s \in Range(rule) : s.s = "match" /\ s.right.k = "list"
KnownAborts(c) ==
    LET all == Range(c)
    IN \/ \E r, q \in all : Translates(r) /\ Selects(q) # {} /\ ~ToAddress(q)
       \/ \E r \in all : Translates(r) /\ Selects(r) = {}
       \/ \E r \in all : Lists(r) /\ \E a, b \in Selects(r) : a # b

=============================================================================
