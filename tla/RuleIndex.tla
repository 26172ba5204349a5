------------------------------ MODULE RuleIndex ------------------------------
(***************************************************************************)
(* Where the rules of a batch go (rule_cache_update in src/evaluate.c).    *)
(* The kernel knows rules by the handles it has given them, users also by  *)
(* their index in the chain.  nft counts in its cached list of the chain,  *)
(* to which every command adds its rule before the next one is evaluated.  *)
(* A rule the kernel does not have yet is referred to by an id that holds  *)
(* within the transaction; the rule gets it when it is first referred to,  *)
(* which may be long after its own command.                                *)
(*                                                                         *)
(* It does so only while the cache is to be updated (NFT_CACHE_UPDATE),    *)
(* which is settled from the whole batch before the first command is       *)
(* evaluated (see CacheFlags): a rule given by its place asks for it, and a *)
(* later replace takes it away.  Rules are then sent as they were parsed,  *)
(* and an index goes nowhere.  Others may commit between the load of the   *)
(* cache and the batch.                                                    *)
(***************************************************************************)
EXTENDS Integers, Sequences, FiniteSets, SequencesExt

CONSTANTS
    MaxRules,     \* bound: rules in the chain at first
    MaxCommands,  \* bound: commands of the batch
    MaxMoves      \* bound: changes of others

ASSUME BoundAssumption == MaxRules \in Nat /\ MaxCommands \in Nat /\ MaxMoves \in Nat

Old == 1..MaxRules          \* rules of the kernel, which are also their handles
New(c) == MaxRules + c      \* the rule of a command
Foreign(m) == MaxRules + MaxCommands + m
None == 0

VARIABLES
    chain,    \* the kernel's rules, in order
    start,    \* those of them the cache was loaded with
    cached,   \* nft's list of them
    updating, \* cache->flags & NFT_CACHE_UPDATE
    handle,   \* of a rule: its handle, or None: struct handle, handle.id
    ruleid,   \* of a rule: its id in the transaction, or None: rule_id
    lastid,   \* ref_id, a static counter
    cmds,     \* commands evaluated so far, with what they refer to
    next,     \* the kernel: the chain as the transaction makes it
    dead,     \* the kernel: rules the transaction has deleted
    sent,     \* messages of the batch the kernel has carried out
    moved,    \* changes of others
    phase     \* "evaluate", "send", "committed", "refused" or "error"

vars == <<chain, start, cached, updating, handle, ruleid, lastid, cmds, next, dead, sent, moved,
          phase>>

All == 1..(MaxRules + MaxCommands + MaxMoves)

\* A command: what it does, and which rule it names: by its place, from 1
\* (the parser adds 1 to the index), or by its handle.
Placed(op, by) ==
    [op : {op}, by : {by}, at : IF by = "index" THEN 1..(MaxRules + MaxCommands) ELSE Old]
Commands ==
    Placed("add", "index") \cup Placed("insert", "index")
    \cup Placed("add", "handle") \cup Placed("insert", "handle")
    \cup {[op |-> op, by |-> "none", at |-> None] : op \in {"add", "insert", "flush"}}
    \cup Placed("replace", "handle") \cup Placed("delete", "handle")

At(list, r) == SelectInSeq(list, LAMBDA x : x = r)
Before(list, r, new) == InsertAt(list, At(list, r), new)
After(list, r, new) == InsertAt(list, At(list, r) + 1, new)

Without(list, gone) ==
    LET kept[n \in 0..Len(list)] ==
            IF n = 0 THEN <<>>
            ELSE IF list[n] \in gone THEN kept[n - 1] ELSE Append(kept[n - 1], list[n])
    IN  kept[Len(list)]

---------------------------------------------------------------------------
(* Evaluation *)

\* rule_lookup_by_index, rule_lookup
Lookup(c) ==
    IF c.by = "none" THEN None
    ELSE IF c.by = "index" THEN (IF c.at <= Len(cached) THEN cached[c.at] ELSE None)
    ELSE LET i == SelectInSeq(cached, LAMBDA r : handle[r] = c.at)
         IN IF i = 0 THEN None ELSE cached[i]

\* Variant: a rule gets a new id each time it is referred to.
LinkAnew(dst) == [ruleid EXCEPT ![dst] = lastid + 1]
\* link_rules
Link(dst) == IF ruleid[dst] = None THEN [ruleid EXCEPT ![dst] = lastid + 1] ELSE ruleid

\* Variant: the place is taken for a handle.
ResolvedByPlace(c, ref) == [cmd |-> c, ref |-> ref, position |-> c.at, id |-> None]
\* What goes with the command: the position of a rule in the kernel, or the
\* id of one that is not.
Resolved(c, ref) ==
    IF c.by = "index" /\ handle[ref] = None
    THEN [cmd |-> c, ref |-> ref, position |-> None, id |-> Link(ref)[ref]]
    ELSE [cmd |-> c, ref |-> ref, position |-> IF c.by = "index" THEN handle[ref] ELSE c.at,
          id |-> None]

\* Variant: a rule is always taken to go to the end.
CachedAtEnd(c, ref, new) == Append(cached, new)
\* The list after an added or inserted rule.
CachedAfter(c, ref, new) ==
    IF c.op = "insert" THEN (IF ref = None THEN <<new>> \o cached ELSE Before(cached, ref, new))
    ELSE IF ref = None THEN Append(cached, new) ELSE After(cached, ref, new)

Room == phase = "evaluate" /\ Len(cmds) < MaxCommands

EvaluateRule(c) ==
    /\ Room /\ updating /\ c.op \in {"add", "insert"}
    /\ LET ref == Lookup(c)
           new == New(Len(cmds) + 1)
       IN IF c.by # "none" /\ ref = None
          THEN phase' = "error" /\ UNCHANGED <<cached, ruleid, lastid, cmds>>
          ELSE /\ cached' = CachedAfter(c, ref, new)
               /\ cmds' = Append(cmds, Resolved(c, ref))
               /\ IF c.by = "index" /\ handle[ref] = None
                  THEN /\ ruleid' = Link(ref)
                       /\ lastid' = IF Link(ref) = ruleid THEN lastid ELSE lastid + 1
                  ELSE UNCHANGED <<ruleid, lastid>>
               /\ UNCHANGED phase
    /\ UNCHANGED <<chain, start, updating, handle, next, dead, sent, moved>>

\* The new rule keeps the handle of the one it replaces.
EvaluateReplace(c) ==
    /\ Room /\ updating /\ c.op = "replace"
    /\ LET ref == Lookup(c)
           new == New(Len(cmds) + 1)
       IN IF ref = None THEN phase' = "error" /\ UNCHANGED <<cached, handle, cmds>>
          ELSE /\ cached' = [cached EXCEPT ![At(cached, ref)] = new]
               /\ handle' = [handle EXCEPT ![new] = c.at]
               /\ cmds' = Append(cmds, Resolved(c, ref))
               /\ UNCHANGED phase
    /\ UNCHANGED <<chain, start, updating, ruleid, lastid, next, dead, sent, moved>>

\* A command that is sent as the parser left it.  An index is no part of any
\* message.
Unresolved(c) ==
    [cmd |-> c, ref |-> None, position |-> IF c.by = "index" THEN None ELSE c.at, id |-> None]

\* rule_evaluate when the cache is not to be updated; cmd_evaluate_delete and
\* cmd_evaluate_flush do nothing about rules at all.
PassOver(c) ==
    /\ Room /\ (c.op \in {"delete", "flush"} \/ ~updating)
    /\ cmds' = Append(cmds, Unresolved(c))
    /\ UNCHANGED <<chain, start, cached, updating, handle, ruleid, lastid, next, dead, sent, moved,
                   phase>>

\* nft_cache_evaluate: what the flags of the batch say of NFT_CACHE_UPDATE.
Updates(batch) ==
    \E i \in DOMAIN batch :
        /\ batch[i].cmd.op \in {"add", "insert"} /\ batch[i].cmd.by # "none"
        /\ \A j \in (i + 1)..Len(batch) : batch[j].cmd.op # "replace"

\* The batch is the one the flags were computed from.
EndOfBatch ==
    /\ phase = "evaluate" /\ cmds # <<>> /\ updating = Updates(cmds)
    /\ phase' = "send" /\ next' = chain
    /\ UNCHANGED <<chain, start, cached, updating, handle, ruleid, lastid, cmds, dead, sent, moved>>

---------------------------------------------------------------------------
(* The kernel.  A rule that was deleted stays in its list until the commit *)
(* and may be found there by its handle, or not.                           *)

\* Another commit before the batch.
Others ==
    /\ phase = "evaluate" /\ moved < MaxMoves
    /\ moved' = moved + 1
    /\ \/ \E i \in DOMAIN chain : chain' = RemoveAt(chain, i)
       \/ \E i \in 1..(Len(chain) + 1) : chain' = InsertAt(chain, i, Foreign(moved + 1))
    /\ UNCHANGED <<start, cached, updating, handle, ruleid, lastid, cmds, next, dead, sent, phase>>

Sending == phase = "send" /\ sent < Len(cmds)
Msg == cmds[sent + 1]
Done(list, gone) == next' = list /\ dead' = dead \cup gone /\ sent' = sent + 1 /\ UNCHANGED phase
Refuse == phase' = "refused" /\ UNCHANGED <<next, dead, sent>>

InKernel(h) == h \in ToSet(next) /\ h \in Old

\* mnl_nft_rule_add: all messages are built after all was evaluated.
SendRule ==
    /\ Sending /\ Msg.cmd.op \in {"add", "insert"}
    /\ LET new == New(sent + 1)
           Put(r) == IF Msg.cmd.op = "add" THEN After(next, r, new) ELSE Before(next, r, new)
           Named == {r \in ToSet(next) : r \in {New(i) : i \in 1..sent} /\ ruleid[r] = Msg.id}
       IN IF Msg.position # None
          THEN \/ InKernel(Msg.position) /\ Done(Put(Msg.position), {})
               \/ (~InKernel(Msg.position) \/ Msg.position \in dead) /\ Refuse
          ELSE IF Msg.id # None
          THEN IF Named = {} THEN Refuse ELSE \E r \in Named : Done(Put(r), {})
          ELSE Done(IF Msg.cmd.op = "add" THEN Append(next, new) ELSE <<new>> \o next, {})
    /\ UNCHANGED <<chain, start, cached, updating, handle, ruleid, lastid, cmds, moved>>

\* mnl_nft_rule_replace, mnl_nft_rule_del
SendDelete ==
    /\ Sending /\ Msg.cmd.op \in {"replace", "delete"}
    /\ IF InKernel(Msg.position) /\ Msg.position \notin dead
       THEN Done(IF Msg.cmd.op = "delete" THEN next
                 ELSE After(next, Msg.position, New(sent + 1)), {Msg.position})
       ELSE Refuse
    /\ UNCHANGED <<chain, start, cached, updating, handle, ruleid, lastid, cmds, moved>>

SendFlush ==
    /\ Sending /\ Msg.cmd.op = "flush"
    /\ Done(next, ToSet(next))
    /\ UNCHANGED <<chain, start, cached, updating, handle, ruleid, lastid, cmds, moved>>

Commit ==
    /\ phase = "send" /\ sent = Len(cmds)
    /\ chain' = Without(next, dead)
    /\ phase' = "committed"
    /\ UNCHANGED <<start, cached, updating, handle, ruleid, lastid, cmds, next, dead, sent, moved>>

Init ==
    /\ \E k \in 0..MaxRules : chain = [i \in 1..k |-> i]
    /\ start = chain /\ cached = chain /\ updating \in BOOLEAN
    /\ handle = [r \in All |-> IF r \in Old THEN r ELSE None]
    /\ ruleid = [r \in All |-> None] /\ lastid = 0
    /\ cmds = <<>> /\ next = <<>> /\ dead = {} /\ sent = 0
    /\ moved = 0 /\ phase = "evaluate"

Next ==
    \/ \E c \in Commands : EvaluateRule(c) \/ EvaluateReplace(c) \/ PassOver(c)
    \/ EndOfBatch \/ Others \/ SendRule \/ SendDelete \/ SendFlush \/ Commit

Spec == Init /\ [][Next]_vars

---------------------------------------------------------------------------
(* What the commands mean, one after the other.                            *)

Meant(list, c, new) ==
    LET ref == IF c.by = "index" THEN (IF c.at <= Len(list) THEN list[c.at] ELSE None)
               ELSE IF c.at \in ToSet(list) THEN c.at ELSE None
    IN IF c.op = "flush" THEN <<>>
       ELSE IF c.by = "none" THEN (IF c.op = "add" THEN Append(list, new) ELSE <<new>> \o list)
       ELSE IF ref = None THEN <<None>>
       ELSE IF c.op = "delete" THEN RemoveAt(list, At(list, ref))
       ELSE IF c.op = "replace" THEN [list EXCEPT ![At(list, ref)] = new]
       ELSE IF c.op = "add" THEN After(list, ref, new)
       ELSE Before(list, ref, new)

\* The chain after each of the commands, <<None>> once there is no such chain.
Meaning(list, batch) ==
    LET after[i \in 0..Len(batch)] ==
            IF i = 0 THEN list
            ELSE IF after[i - 1] = <<None>> THEN <<None>>
            ELSE Meant(after[i - 1], batch[i].cmd, New(i))
    IN  after

MeantBy(n) == Meaning(start, cmds)[n]

Indexed(i) == cmds[i].cmd.by = "index"

HitsReplacing(i) == \E j \in 1..(i - 1) : cmds[j].cmd.op = "replace" /\ cmds[i].ref = New(j)

\* An index after a command that deletes rules, or one that hits a rule that
\* replaces another, does not count as the user does.
Miscounted ==
    \E i \in DOMAIN cmds : Indexed(i) /\
        \/ \E j \in 1..(i - 1) : cmds[j].cmd.op \in {"delete", "flush"}
        \/ HitsReplacing(i)

\* An index is not looked up at all if a replace follows and no rule is given
\* by its place after that.
IndexLost == ~Updates(cmds) /\ \E i \in DOMAIN cmds : Indexed(i)

\* Nobody else has changed the chain, and the references of the batch exist.
Undisturbed ==
    moved = 0 /\ phase \in {"committed", "refused"} /\ MeantBy(Len(cmds)) # <<None>>

AsMeant == phase = "committed" /\ chain = MeantBy(Len(cmds))

\* The kernel takes a batch whose references all exist, and puts its rules
\* where the commands mean them, each index counted in the chain as the
\* commands before have left it: if the batch counts as the user does, and a
\* later replace does not keep its indices from being looked up.
PlacedAsCounted == Undisturbed /\ ~Miscounted /\ ~IndexLost => AsMeant

\* Whatever others have done since, and whatever else the batch does, a rule
\* given by index is after, or before, the rule that nft found there: if it
\* was looked up (its ref is None otherwise, and in no chain), and if the rule
\* is in the chain still and is not one that replaces another.
StaysWithReference ==
    phase = "committed" =>
        \A i \in DOMAIN cmds :
            LET new == At(chain, New(i))
                ref == At(chain, cmds[i].ref)
            IN  Indexed(i) /\ ~HitsReplacing(i) /\ new # 0 /\ ref # 0 =>
                    IF cmds[i].cmd.op = "add" THEN ref < new ELSE new < ref

\* A rule referred to by id is in the batch before the one that refers to it,
\* under the same id, although the id is given to it only then.
IdsResolve ==
    \A i \in DOMAIN cmds : cmds[i].id # None =>
        Cardinality({j \in 1..(i - 1) : ruleid[New(j)] = cmds[i].id}) = 1
=============================================================================
