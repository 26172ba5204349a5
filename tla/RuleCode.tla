------------------------------ MODULE RuleCode ------------------------------
(***************************************************************************)
(* The way of a rule to the kernel and back: rule_evaluate turns what the  *)
(* parser made into statements with types, lengths and orders of bytes,    *)
(* netlink_linearize_rule turns these into instructions, the kernel keeps  *)
(* them, and netlink_delinearize_rule makes statements of them again, one  *)
(* handler of netlink_parsers for every instruction.                       *)
(***************************************************************************)
EXTENDS Evaluation, RuleMeaning, Linearize, Delinearize

CONSTANTS
    Rules,    \* rules as they are written: [family, stmts]
    Misfits,  \* those of them that must be refused
    Packets   \* key -> bytes

VARIABLES
    said,     \* the rule that was added, as it is written
    ectx,     \* struct eval_ctx: ectx and what pctx knows of the protocols
    todo,     \* its statements that are not evaluated, then those of rule
              \* that have no instructions yet
    rule,     \* its evaluated statements
    ctx,      \* struct netlink_linearize_ctx
    phase,    \* "evaluate", "refused", "aborted", "linearize", "kernel",
              \* "parse" or "done"
    at,       \* the instruction to parse next
    pctx      \* struct netlink_parse_ctx

vars == <<said, ectx, todo, rule, ctx, phase, at, pctx>>

Init ==
    /\ said \in Rules
    /\ ectx = InitContext(said.family)
    /\ todo = said.stmts
    /\ rule = <<>>
    /\ ctx = NewCode
    /\ phase = "evaluate"
    /\ at = 1
    /\ pctx = NewParse

Refuse(outcome) ==
    /\ phase' = outcome
    /\ UNCHANGED <<said, ectx, todo, rule, ctx, at, pctx>>

\* rule_evaluate: one statement; none may follow a terminal one.
Evaluate ==
    /\ phase = "evaluate" /\ todo # <<>>
    /\ IF rule # <<>> /\ Terminal(Last(rule)) THEN Refuse("refused")
       ELSE \E r \in {Eval(ectx, Head(todo))} :
            IF Failed(r.e) THEN Refuse(r.e.e)
            ELSE /\ rule' = Append(rule, r.e.stmt)
                 /\ ectx' = r.x
                 /\ todo' = Tail(todo)
                 /\ UNCHANGED <<said, ctx, phase, at, pctx>>

\* The evaluation is over, netlink_linearize_rule starts.
Evaluated ==
    /\ phase = "evaluate" /\ todo = <<>>
    /\ phase' = "linearize"
    /\ todo' = rule
    /\ UNCHANGED <<said, ectx, rule, ctx, at, pctx>>

\* netlink_linearize_rule: the instructions of one statement.
Linearize ==
    /\ phase = "linearize" /\ todo # <<>>
    /\ ctx' = GenStmt(ctx, Head(todo))
    /\ todo' = Tail(todo)
    /\ UNCHANGED <<said, ectx, rule, phase, at, pctx>>

\* The batch with the rule is committed.
Commit ==
    /\ phase = "linearize" /\ todo = <<>>
    /\ phase' = "kernel"
    /\ UNCHANGED <<said, ectx, rule, todo, ctx, at, pctx>>

\* A dump gets the rule; netlink_delinearize_rule starts.
Dump ==
    /\ phase = "kernel"
    /\ phase' = "parse"
    /\ UNCHANGED <<said, ectx, rule, todo, ctx, at, pctx>>

\* netlink_parse_rule_expr with the handler of an instruction named n.
Parse(n, Handler(_, _)) ==
    /\ phase = "parse" /\ at <= Len(ctx.code)
    /\ ctx.code[at].n = n
    /\ pctx' = Handler(pctx, ctx.code[at])
    /\ at' = at + 1
    /\ UNCHANGED <<said, ectx, rule, todo, ctx, phase>>

Plain(c, i) == Statement(c, [s |-> "plain", kind |-> i.kind])

ParseRuleExpr ==
    \/ Parse("load", ParseLoad)           \/ Parse("immediate", ParseImmediate)
    \/ Parse("bitwise", ParseBitwise)     \/ Parse("byteorder", ParseByteorder)
    \/ Parse("hash", ParseHash)           \/ Parse("cmp", ParseCmp)
    \/ Parse("range", ParseRange)         \/ Parse("lookup", ParseLookup)
    \/ Parse("mangle", ParseMangle)       \/ Parse("nat", ParseNat)
    \/ Parse("masq", ParseRedir)         \/ Parse("redir", ParseRedir)
    \/ Parse("tproxy", ParseTproxy)       \/ Parse("dup", ParseDup)
    \/ Parse("fwd", ParseFwd)          \/ Parse("queue", ParseQueue)
    \/ Parse("objref", ParseObjref)       \/ Parse("dynset", ParseDynset)
    \/ Parse("plain", Plain)

\* rule_parse_postprocess
Postprocess ==
    /\ phase = "parse" /\ at > Len(ctx.code)
    /\ pctx' = [pctx EXCEPT !.stmts = PostprocessRanges(@)]
    /\ phase' = "done"
    /\ UNCHANGED <<said, ectx, rule, todo, ctx, at>>

Next == Evaluate \/ Evaluated \/ Linearize \/ Commit \/ Dump \/ ParseRuleExpr \/ Postprocess

Spec == Init /\ [][Next]_vars

---------------------------------------------------------------------------
\* A rule that the evaluation accepts does to every packet what is written,
\* whatever types, lengths, shifts and orders of bytes the evaluation has put
\* in; what has no meaning is refused, nothing else, and no assert fails.
EvaluatedAsWritten ==
    /\ phase # "aborted"
    /\ phase = "refused" => said \in Misfits
    /\ phase = "linearize" /\ todo = rule =>
          /\ said \notin Misfits
          /\ \A p \in Packets : Effects(rule, p) = SaidEffects(said, p)

\* Every statement gives back the registers it took, no assert of the stack
\* of registers fails, and no more than sixteen words are taken: the next
\* statement starts with all of them.
RegistersReleased ==
    ~ctx.bug /\ (ctx.low = NFT_REG_1)

\* The instructions do to every packet what the rule says: no register is
\* overwritten before it is used, every operand is read from where it was
\* put, and masks, prefixes, ranges and flags mean the same comparison.
CodeMeansRule ==
    phase = "kernel" => \A p \in Packets : Run(ctx.code, p) = Effects(rule, p)

\* What is listed for a rule does to every packet what its instructions do,
\* and no instruction is met with an error message: a listing can be loaded
\* again.
ListingMeansCode ==
    phase = "done" => ~pctx.err /\ \A p \in Packets : Effects(pctx.stmts, p) = Run(ctx.code, p)

=============================================================================
