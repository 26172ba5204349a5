------------------------------- MODULE CmdList -------------------------------
(***************************************************************************)
(* What becomes of the list of commands between parsing and the batch      *)
(* (src/rule.c, src/mnl.c): neighbouring commands that add elements to one *)
(* set are evaluated as one (nft_cmd_collapse) and taken apart again       *)
(* (nft_cmd_uncollapse), a table or a set that was given with a body       *)
(* becomes several commands (nft_cmd_expand), and every command becomes    *)
(* the messages of the batch (do_command).                                 *)
(*                                                                         *)
(* A command is [id, op, obj, name, elems, merged, body, needs]: id is its *)
(* place in the input, 0 for one that nft itself has made; elems are the   *)
(* elements it adds or deletes, intervals of keys, each with the command   *)
(* it was given in once collapsed (expr->cmd; 0 for none); merged is its   *)
(* collapse_list; body is what a table or set is declared with; needs is   *)
(* what the kernel must know before it takes the message.                  *)
(***************************************************************************)
EXTENDS Naturals, Sequences, SequencesExt

CONSTANTS
    Room,  \* elements that fit into one message (64 KB in the code)
    Name,  \* names of tables and of what is in them
    Key    \* keys of elements

ASSUME RoomAssumption == Room \in Nat \ {0}

Elem(keys) == [keys |-> keys, cmd |-> 0]

Cmd(op, obj, name) ==
    [id |-> 0, op |-> op, obj |-> obj, name |-> name, elems |-> <<>>,
     merged |-> <<>>, body |-> <<>>, needs |-> {}]

\* enum cmd_ops and enum cmd_obj
Ops == {"add", "create", "insert", "replace", "delete", "flush", "rename", "list", "describe"}
Objs == {"table", "chain", "rule", "set", "elements", "object", "flowtable", "ruleset"}

\* Elements have keys, and belong to a command once collapsed.
Elements == [keys : (SUBSET (Key \cup {"old"})) \ {{}}, cmd : Nat]

\* Commands with ids from a set.  The parser gives what it has read: tables
\* with declarations, sets with elements; nft_cmd_collapse adds the merged.
\* It is sets that are flushed, not elements.
Records(ids, merged, body) ==
    {c \in [id : ids, op : Ops, obj : Objs, name : Name, elems : Seq(Elements),
             merged : merged, body : body, needs : SUBSET Name] :
        c.obj = "elements" => c.op # "flush"}

Plain == Records({0}, {<<>>}, {<<>>})
Declarations == Records({0}, {<<>>}, Seq(Plain))
Single(ids) == Records(ids, {<<>>}, Seq(Declarations))
Collapsed(ids) == Records(ids, Seq(Single(ids)), Seq(Declarations))

AddsElements(c) == c.op \in {"add", "create"} /\ c.obj = "elements"

-----------------------------------------------------------------------------
(***************************************************************************)
(* nft_cmd_collapse: "lead" is the place of the command that takes up the  *)
(* elements of those behind it, 0 when there is none.                      *)
(***************************************************************************)
\* Variant: a command of another kind does not end a run of commands.
CollapseAcross(cmds) ==
    LET Step(acc, c) ==
            IF ~AddsElements(c) THEN [acc EXCEPT !.out = Append(@, c)]
            ELSE IF acc.lead = 0 \/ acc.out[acc.lead].name # c.name
                 THEN [out |-> Append(acc.out, c), lead |-> Len(acc.out) + 1]
            ELSE [acc EXCEPT !.out[acc.lead].elems = @ \o [n \in DOMAIN c.elems |-> [c.elems[n] EXCEPT !.cmd = c.id]],
                             !.out[acc.lead].merged = Append(@, [c EXCEPT !.elems = <<>>])]
    IN  FoldLeft(Step, [out |-> <<>>, lead |-> 0], cmds).out

Joins(c, lead) == lead.op = c.op /\ lead.name = c.name

Given(c) == [n \in DOMAIN c.elems |-> [c.elems[n] EXCEPT !.cmd = c.id]]

Joined(lead, c) ==
    [lead EXCEPT !.elems = @ \o Given(c), !.merged = Append(@, [c EXCEPT !.elems = <<>>])]

CollapseStep(acc, c) ==
    IF ~AddsElements(c) THEN [out |-> Append(acc.out, c), lead |-> 0]
    ELSE IF acc.lead # 0 /\ Joins(c, acc.out[acc.lead])
         THEN [out |-> [acc.out EXCEPT ![acc.lead] = Joined(@, c)], lead |-> acc.lead]
    ELSE [out |-> Append(acc.out, c), lead |-> Len(acc.out) + 1]

Collapse(cmds) ==
    LET taken[n \in 0..Len(cmds)] ==
            IF n = 0 THEN [out |-> <<>>, lead |-> 0] ELSE CollapseStep(taken[n - 1], cmds[n])
    IN  taken[Len(cmds)].out

(***************************************************************************)
(* nft_cmd_uncollapse: elements return to their command, unless they have  *)
(* lost track of it; list_add puts each command right behind the leader,   *)
(* so that they end up in reverse.                                         *)
(***************************************************************************)
\* The items of a sequence that are at some places, in their order.
Picked(s, places) == FlattenSeq([n \in DOMAIN s |-> IF n \in places THEN <<s[n]>> ELSE <<>>])

Of(c, id) == Picked(c.elems, {n \in DOMAIN c.elems : c.elems[n].cmd = id})

Returned(c, m) ==
    [m EXCEPT !.elems = [n \in DOMAIN Of(c, m.id) |-> [Of(c, m.id)[n] EXCEPT !.cmd = 0]]]

Apart(c) ==
    IF c.merged = <<>> THEN <<c>>
    ELSE <<[c EXCEPT !.elems = Of(c, 0), !.merged = <<>>]>>
         \o Reverse([k \in DOMAIN c.merged |-> Returned(c, c.merged[k])])

Uncollapse(cmds) ==
    FlattenSeq([n \in DOMAIN cmds |-> Apart(cmds[n])])

(***************************************************************************)
(* nft_cmd_expand, for CMD_ADD: what a table contains follows it, kind by  *)
(* kind; the elements of a set follow the set.  The loop of nft_evaluate   *)
(* goes on with what has just been inserted.                               *)
(***************************************************************************)
Kinds == <<"chain", "object", "set", "flowtable", "rule">>

\* Variant: sets come before the objects and chains their elements name.
ExpandSetsFirst(c) ==
    <<[c EXCEPT !.body = <<>>]>> \o
    FlattenSeq([k \in 1..5 |->
        FlattenSeq([n \in DOMAIN c.body |->
            IF c.body[n].obj = <<"set", "chain", "object", "flowtable", "rule">>[k]
            THEN <<[c.body[n] EXCEPT !.body = <<>>]>> \o c.body[n].body ELSE <<>>])])

Declared(b) == <<[b EXCEPT !.body = <<>>]>> \o b.body

OfKind(body, kind) ==
    FlattenSeq([n \in DOMAIN body |-> IF body[n].obj = kind THEN Declared(body[n]) ELSE <<>>])

Expand(c) ==
    IF c.op # "add" \/ c.obj \notin {"table", "set"} THEN <<c>>
    ELSE <<[c EXCEPT !.body = <<>>]>> \o
         IF c.obj = "table" THEN FlattenSeq([k \in DOMAIN Kinds |-> OfKind(c.body, Kinds[k])])
         ELSE c.body

ExpandAll(cmds) == FlattenSeq([n \in DOMAIN cmds |-> Expand(cmds[n])])

-----------------------------------------------------------------------------
(***************************************************************************)
(* do_command with the functions of mnl.c that build messages.  What the   *)
(* models below need of a message: the command's number, its type and      *)
(* flags, and the attributes whose place in it is noted with the command   *)
(* (cmd_add_loc), which the kernel's error may point at.                   *)
(***************************************************************************)
IsMessage(c) == c.op \notin {"list", "describe"}

Flags(c) ==
    (IF c.op = "create" THEN {"excl"} ELSE {})
    \cup (IF c.op = "add" /\ c.obj = "rule" THEN {"append"} ELSE {})
    \cup (IF c.op \in {"add", "create", "insert"} /\ c.obj # "table" THEN {"create"} ELSE {})
    \cup (IF c.op = "replace" THEN {"replace"} ELSE {})

\* The noted attributes; a chain that is declared is located by its type, too,
\* a rule by its statements, one that is replaced by its handle.  Elements are
\* located one by one, in ElemMessages.
TableAttrs == <<{"table"}>>
ChainAttrs(c) == <<{"table"}, {"chain"}>> \o IF c.op = "add" THEN <<{"type"}>> ELSE <<>>
RuleAttrs(c) ==
    <<{"table"}, {"chain"}>>
    \o (IF c.op \in {"replace", "delete"} THEN <<{"handle"}>> ELSE <<>>)
    \o (IF c.op # "delete" THEN <<{"statement"}>> ELSE <<>>)
SetAttrs == <<{"table"}, {"set"}>>
ObjectAttrs == <<{"table"}, {"object"}>>
FlowtableAttrs == <<{"table"}, {"flowtable"}>>

Located(c) ==
    IF c.op = "rename" \/ (c.op = "flush" /\ c.obj = "set") THEN <<>>
    ELSE [table |-> TableAttrs, chain |-> ChainAttrs(c), rule |-> RuleAttrs(c), set |-> SetAttrs,
          object |-> ObjectAttrs, flowtable |-> FlowtableAttrs, ruleset |-> <<>>][c.obj]

Message(c, attrs) ==
    [cmd |-> c.id, op |-> c.op, obj |-> c.obj, name |-> c.name, flags |-> Flags(c),
     attrs |-> attrs, keys |-> {}, needs |-> c.needs]

\* Parts of a sequence, each as long as there is room.
Chunks(s) ==
    [n \in 1..((Len(s) + Room - 1) \div Room) |->
        SubSeq(s, (n - 1) * Room + 1, IF n * Room < Len(s) THEN n * Room ELSE Len(s))]

KeysOf(s) == UNION {s[n].keys : n \in DOMAIN s}

\* Variant: a command without elements is sent, which the kernel takes for
\* a flush of the set.
ElemMessagesAlways(c) ==
    IF c.elems = <<>> THEN <<[Message(c, <<>>) EXCEPT !.op = "flush"]>>
    ELSE [n \in DOMAIN Chunks(c.elems) |->
             [Message(c, [k \in DOMAIN Chunks(c.elems)[n] |-> Chunks(c.elems)[n][k].keys])
                 EXCEPT !.keys = KeysOf(Chunks(c.elems)[n])]]

ElemMessages(c) ==
    [n \in DOMAIN Chunks(c.elems) |->
        LET part == Chunks(c.elems)[n]
        IN  [Message(c, [k \in DOMAIN part |-> part[k].keys]) EXCEPT !.keys = KeysOf(part)]]

Messages(c) ==
    IF ~IsMessage(c) THEN <<>>
    ELSE IF c.obj = "elements" THEN ElemMessages(c)
    ELSE <<Message(c, Located(c))>>

=============================================================================
