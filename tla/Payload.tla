------------------------------ MODULE Payload ------------------------------
(***************************************************************************)
(* A rule from what was written to what the kernel does, and from there to *)
(* what is listed and written again.  Each statement is evaluated in the   *)
(* context of those before it, then matches are merged, the kernel keeps   *)
(* code without names, and the listing finds names and leaves out what is  *)
(* implied.                                                                *)
(***************************************************************************)
EXTENDS PayloadEval, PayloadList, PacketMatch

CONSTANTS
    Families,
    Rules      \* of each family

VARIABLES
    table,     \* its family
    written,   \* the rule
    phase,     \* "evaluate", "list", "listed", "refused" or "aborted"
    todo,      \* statements this phase has not come to
    done,      \* statements evaluated, with their dependencies
    num_stmts, \* places for matches to be merged
    pctx,      \* the context of the evaluation
    listing,   \* the context of the listing, and the statements so far
    sent       \* what the kernel was given, before and after the listing
vars == <<table, written, phase, todo, done, num_stmts, pctx, listing, sent>>

-----------------------------------------------------------------------------
Init ==
    /\ table \in Families
    /\ written \in Rules[table]
    /\ phase = "evaluate"
    /\ todo = written
    /\ done = <<>>
    /\ num_stmts = Len(written)
    /\ pctx = proto_ctx_init(table)
    /\ listing = Unlisted(table)
    /\ sent = <<>>

Terminated == done # <<>> /\ Last(done).s = "reject"

\* stmt_evaluate, and nothing comes after a reject.
Evaluate ==
    /\ phase = "evaluate"
    /\ todo # <<>>
    /\ \E x \in {IF Terminated THEN Refused(pctx, Head(todo)) ELSE EvalStatement(pctx, Head(todo))} :
        IF x.r = "ok" /\ ~x.c.failed
        THEN /\ done' = x.head \o done \o x.before \o <<x.e>>
             /\ num_stmts' = num_stmts + x.counted
             /\ pctx' = x.c
             /\ todo' = Tail(todo)
             /\ UNCHANGED phase
        ELSE /\ phase' = IF x.c.failed THEN "aborted" ELSE x.r
             /\ UNCHANGED <<done, num_stmts, pctx, todo>>
    /\ UNCHANGED <<table, written, listing, sent>>

\* rule_postprocess, and the kernel takes the rule.  The matches to be merged
\* are collected in an array of num_stmts, which here must do for those of the
\* whole rule.
Reduce ==
    /\ phase = "evaluate"
    /\ todo = <<>>
    /\ LET reduced == Code(stmt_reduce(table, done)) IN
       IF Cardinality({i \in DOMAIN done : IsMatch(done[i]) /\ Mergeable(done[i])}) > num_stmts
       THEN phase' = "aborted" /\ UNCHANGED <<todo, listing, sent>>
       ELSE /\ phase' = "list"
            /\ todo' = reduced
            /\ listing' = Unlisted(table)
            /\ sent' = Append(sent, reduced)
    /\ UNCHANGED <<table, written, done, num_stmts, pctx>>

\* One round of rule_parse_postprocess.
List ==
    /\ phase = "list"
    /\ todo # <<>>
    /\ listing' = Listed(listing, Head(todo))
    /\ todo' = Tail(todo)
    /\ phase' = IF listing'.aborted \/ listing'.c.failed THEN "aborted" ELSE phase
    /\ UNCHANGED <<table, written, done, num_stmts, pctx, sent>>

\* The listing is written to the same table.
Restore ==
    /\ phase = "list"
    /\ todo = <<>>
    /\ Len(sent) = 1
    /\ phase' = "evaluate"
    /\ todo' = Reparsed(Remaining(listing.out))
    /\ done' = <<>>
    /\ num_stmts' = Len(todo')
    /\ pctx' = proto_ctx_init(table)
    /\ UNCHANGED <<table, written, listing, sent>>

Next == Evaluate \/ Reduce \/ List \/ Restore
Spec == Init /\ [][Next]_vars

-----------------------------------------------------------------------------
(***************************************************************************)
(* The code of a rule does what the rule says: it reads a field only of    *)
(* packets that have it, at its place in the packet, and leaves no packet  *)
(* out that has it.                                                        *)
(***************************************************************************)
CodeDoesAsSaid ==
    (phase = "list" /\ Len(sent) = 1 /\ Len(todo) = Len(sent[1])) =>
        EffectsOf(table, sent[1]) = EffectsMeant(table, written)

\* Whether the rule ends with a reset.
Resets(stmts) == Last(stmts) = Reject("reset")

\* No packet is as the rule says.
Contradicts(stmts) == Last(EffectsOf(table, stmts)) = {}

(***************************************************************************)
(* The listing of a rule is accepted again, and then does what the rule    *)
(* does: only what is implied was left out of it.  (Of a rule that         *)
(* contradicts itself the listing may say less.)                           *)
(***************************************************************************)
ListingIsTheRule ==
    /\ (phase = "refused" /\ sent # <<>>) => Contradicts(sent[1])
    /\ (phase = "list" /\ Len(sent) = 2 /\ sent[1] # sent[2] /\ Len(todo) = Len(sent[2])) =>
        \/ Contradicts(sent[1])
        \/ /\ EffectsOf(table, sent[1]) = EffectsOf(table, sent[2])
           /\ Resets(sent[1]) <=> Resets(sent[2])

(***************************************************************************)
(* Neither evaluation nor listing comes to a context it does not expect    *)
(* (an assertion fails), and no match is without room in the array of      *)
(* those to be merged.                                                     *)
(***************************************************************************)
AssertionsHold == phase # "aborted"
=============================================================================
