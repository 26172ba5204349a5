----------------------------- MODULE CacheFlags -----------------------------
(***************************************************************************)
(* nft_cache_evaluate (src/cache.c): one pass over the commands of a batch *)
(* works out, once for all of them, which parts of the ruleset the cache   *)
(* has to hold while they are evaluated.  Flags only pile up, but for a    *)
(* few commands; the filter of a listing stays until a command that is no  *)
(* listing comes along.                                                    *)
(*                                                                         *)
(* The handle of a command names items: its table and the chain, set or    *)
(* other object it is about.  A batch is what has been read so far, so an  *)
(* invariant speaks of every batch.                                        *)
(***************************************************************************)
EXTENDS CacheRequests, Sequences, Naturals

CONSTANTS
    Nothing,   \* a name the command does not give
    Command,   \* the commands there are
    MaxBatch   \* bound: commands in a batch

Ops == {"add", "create", "insert", "replace", "delete", "get", "list", "reset",
        "flush", "rename", "monitor", "describe"}
Objs == {"table", "chain", "set", "object", "flowtable", "elements", "rule",
         "ruleset", "chains", "sets", "flowtables", "objects", "expr"}

\* What the parser lets a command be about.
Declared == {"table", "chain", "set", "object", "flowtable", "elements"}
ObjsOf ==
    [add |-> Declared \cup {"rule"}, create |-> Declared, insert |-> {"rule"},
     replace |-> {"rule"}, delete |-> Declared \cup {"rule"}, get |-> {"elements"},
     list |-> Objs \ {"elements", "rule", "expr"}, reset |-> {"object", "objects"},
     flush |-> {"table", "chain", "set", "ruleset"}, rename |-> {"chain"},
     monitor |-> {"ruleset"}, describe |-> {"expr"}]

\* What a name is the name of: a rule names its chain, elements their set.
NamedKind ==
    [chain |-> "chain", set |-> "set", object |-> "object", flowtable |-> "flowtable",
     elements |-> "set", rule |-> "chain"]

\* A name comes with that of the table it is in; places are for new rules.
WellFormed(cmd) ==
    /\ cmd.obj \in ObjsOf[cmd.op]
    /\ cmd.table # Nothing => KindOf[cmd.table] = "table"
    /\ cmd.name # Nothing => /\ cmd.obj \in DOMAIN NamedKind
                             /\ KindOf[cmd.name] = NamedKind[cmd.obj]
                             /\ TableOf[cmd.name] = cmd.table
    /\ \A x \in cmd.refs : KindOf[x] = "set" /\ (cmd.obj = "table" => TableOf[x] = cmd.table)
    /\ cmd.at # "none" => cmd.op \in {"add", "insert"}

\* "body" is what a table or set is declared with: the block of the table, the
\* elements of the set; in an "automerge" one a set has auto-merge.  "at" is
\* how a rule says where it goes, "refs" are the sets its statements use, or
\* those a table's body declares with elements; a name may be too long.
Commands ==
    {cmd \in [op : Ops, obj : Objs,
              table : Item \cup {Nothing}, name : Item \cup {Nothing},
              body : {"none", "plain", "automerge"},
              at : {"none", "index", "position"},
              refs : SUBSET Item, toolong : BOOLEAN] : WellFormed(cmd)}

ASSUME NothingAssumption == Nothing \notin Item

ASSUME CommandAssumption == Command \subseteq Commands

ASSUME SettingAssumption == MaxBatch \in Nat

VARIABLES
    batch,    \* the commands read so far
    flags,    \* the flags they ask for
    list,     \* filter->list: the names of the last listing
    flushed,  \* filter->obj: the sets some command flushes
    failed,   \* a name was too long
    output    \* what the user set with --echo and --terse

vars == <<batch, flags, list, flushed, failed, output>>

NoList == [table |-> Nothing, chain |-> Nothing, set |-> Nothing, ft |-> Nothing]

\* enum cache_level_flags
CHAIN == {"table", "chain"}
SET == {"table", "set"}
FLOWTABLE == {"table", "flowtable"}
OBJECT == {"table", "object"}
SETELEM == {"table", "set", "setelem"}
RULE == {"table", "chain", "rule"}
FULL == Kinds

Echo == "echo" \in output
Terse == "terse" \in output

Init ==
    /\ batch = <<>> /\ flags = {} /\ list = NoList /\ flushed = {} /\ failed = FALSE
    /\ output \in SUBSET {"echo", "terse"}

-----------------------------------------------------------------------------
(***************************************************************************)
(* The flags one command adds.                                             *)
(***************************************************************************)
BodyFlags(cmd) ==
    {f \in CHAIN \cup SET \cup OBJECT \cup FLOWTABLE : cmd.body # "none"}
    \cup {f \in {"maybe"} : cmd.body = "automerge"}

\* For a rule that says where it goes, by handle or by index.
PlacedRule == RULE \cup {"update"}

AddFlags(cmd) ==
    {f \in FULL : Echo}
    \cup {f \in BodyFlags(cmd) : cmd.obj = "table"}
    \cup {f \in {"table"} : cmd.obj \in {"chain", "set", "object", "flowtable"}}
    \cup {f \in CHAIN \cup SET \cup OBJECT \cup {"maybe"} : cmd.obj = "elements"}
    \cup {f \in CHAIN \cup SET \cup OBJECT \cup FLOWTABLE : cmd.obj = "rule"}
    \cup {f \in PlacedRule : cmd.obj = "rule" /\ cmd.at # "none"}

\* Variant: MAYBE brings the elements of ranges but not their sets.
DeleteFlagsNoSet(cmd) ==
    CHAIN \cup FLOWTABLE \cup OBJECT \cup {f \in {"maybe"} : cmd.obj = "elements"}

DeleteFlags(cmd) ==
    CHAIN \cup SET \cup FLOWTABLE \cup OBJECT \cup {f \in {"maybe"} : cmd.obj = "elements"}

\* Names a table, and something in it where the object is no table.
Narrows(cmd) ==
    /\ cmd.obj \in {"table", "chain", "set", "flowtable"}
    /\ cmd.table # Nothing
    /\ cmd.obj \in {"set", "flowtable", "chain"} => cmd.name # Nothing

\* Variant: a listing of everything leaves the elements out.
ListFlagsNoElements(cmd, filter) ==
    {"refresh"} \cup {f \in {"terse"} : Terse} \cup (FULL \ {"setelem"})

ListFlags(cmd, filter) ==
    {"refresh"} \cup
    IF cmd.obj = "set" /\ filter.table # Nothing /\ filter.set # Nothing THEN SETELEM
    ELSE IF cmd.obj = "chains" THEN CHAIN
    ELSE IF cmd.obj = "sets" THEN SET
    ELSE IF cmd.obj \in {"flowtable", "flowtables"} THEN FLOWTABLE
    ELSE FULL \cup {f \in {"terse"} : Terse /\ cmd.obj \in {"set", "ruleset"}}

FlushFlags(cmd) ==
    {f \in SET : cmd.obj = "set"} \cup {f \in {"flushed"} : cmd.obj = "ruleset"}

OtherFlags(cmd) ==
    {f \in SETELEM : cmd.op = "get" /\ cmd.obj = "elements"}
    \cup {f \in {"table"} : cmd.op = "reset"}
    \cup {f \in CHAIN : cmd.op = "rename" /\ cmd.obj = "chain"}
    \cup {f \in FULL : cmd.op = "monitor"}

(***************************************************************************)
(* The filter.  Names are not cleared one by one: what an earlier listing  *)
(* has set and a later one does not set is still there.                    *)
(***************************************************************************)
\* Variant: the filter of a listing is never cleared.
KeepList(cmd) == list

Cleared(cmd) == IF list.table # Nothing /\ cmd.op # "list" THEN NoList ELSE list

Filtered(filter, cmd) ==
    IF cmd.op = "list" /\ Narrows(cmd)
    THEN [filter EXCEPT
            !.table = cmd.table,
            !.chain = IF cmd.obj = "chain" THEN cmd.name ELSE @,
            !.set = IF cmd.obj = "set" THEN cmd.name ELSE @,
            !.ft = IF cmd.obj = "flowtable" THEN cmd.name ELSE @]
    ELSE filter

Listed(cmd) == Filtered(Cleared(cmd), cmd)

(***************************************************************************)
(* One round of the loop, for each op.                                     *)
(***************************************************************************)
Validated(cmd) == ~cmd.toolong \/ cmd.obj = "ruleset"

Evaluate(cmd, ops, newflags) ==
    /\ ~failed /\ Len(batch) < MaxBatch
    /\ cmd.op \in ops /\ Validated(cmd)
    /\ batch' = Append(batch, cmd)
    /\ flags' = newflags
    /\ list' = Listed(cmd)
    /\ failed' = FALSE
    /\ UNCHANGED output

Add(cmd) ==
    Evaluate(cmd, {"add", "create", "insert"}, flags \cup AddFlags(cmd)) /\ UNCHANGED flushed

\* The one assignment that forgets what was asked for before.
Replace(cmd) == Evaluate(cmd, {"replace"}, FULL) /\ UNCHANGED flushed

Delete(cmd) == Evaluate(cmd, {"delete"}, flags \cup DeleteFlags(cmd)) /\ UNCHANGED flushed

\* Variant: listing does not ask for a refresh.
ListForKeeps(cmd) ==
    /\ Evaluate(cmd, {"list"}, flags \cup (ListFlags(cmd, Listed(cmd)) \ {"refresh"}))
    /\ UNCHANGED flushed

List(cmd) ==
    Evaluate(cmd, {"list"}, flags \cup ListFlags(cmd, Listed(cmd))) /\ UNCHANGED flushed

Flush(cmd) ==
    /\ Evaluate(cmd, {"flush"}, flags \cup FlushFlags(cmd))
    /\ flushed' = flushed \cup {s \in {cmd.name} : cmd.obj = "set"}

Other(cmd) ==
    /\ Evaluate(cmd, {"get", "reset", "rename", "monitor", "describe"},
                flags \cup OtherFlags(cmd))
    /\ UNCHANGED flushed

NameTooLong(cmd) ==
    /\ ~failed /\ ~Validated(cmd)
    /\ failed' = TRUE
    /\ UNCHANGED <<batch, flags, list, flushed, output>>

Next == \E cmd \in Command : \/ Add(cmd) \/ Replace(cmd) \/ Delete(cmd) \/ List(cmd)
                             \/ Flush(cmd) \/ Other(cmd) \/ NameTooLong(cmd)

Spec == Init /\ [][Next]_vars

-----------------------------------------------------------------------------
(***************************************************************************)
(* The request nft_cache_update gets: the filter hides the other tables,   *)
(* chains, sets and flowtables, and the elements of the sets that will be  *)
(* flushed.                                                                *)
(***************************************************************************)
HiddenByList(x) ==
    /\ list.table # Nothing
    /\ \/ TableOf[x] # list.table
       \/ list.chain # Nothing /\ KindOf[x] = "chain" /\ x # list.chain
       \/ list.chain # Nothing /\ KindOf[x] = "rule" /\ OwnerOf[x] # list.chain
       \/ list.set # Nothing /\ KindOf[x] = "set" /\ x # list.set
       \/ list.set # Nothing /\ KindOf[x] = "setelem" /\ OwnerOf[x] # list.set
       \/ list.ft # Nothing /\ KindOf[x] = "flowtable" /\ x # list.ft

Request ==
    [flags |-> flags,
     hide |-> {x \in Item : HiddenByList(x) \/ (KindOf[x] = "setelem" /\ OwnerOf[x] \in flushed)}]

(***************************************************************************)
(* What cmd_evaluate (src/evaluate.c) looks up for a command and takes for *)
(* an error when it is missing.  "have" are the flags of the cache: rules  *)
(* are looked up in it only if it is kept up to date.                      *)
(***************************************************************************)
DeclarationNeeds(cmd) ==
    {x \in {cmd.table} : cmd.obj \in {"chain", "set", "object", "flowtable"}}

ElementsNeed(cmd) == {x \in {cmd.table, cmd.name} : cmd.obj = "elements"}

Updated(cmd, have) == cmd.obj = "rule" /\ "update" \in have

RuleNeeds(cmd, have) ==
    {x \in cmd.refs : cmd.obj = "rule"} \cup {x \in {cmd.table, cmd.name} : Updated(cmd, have)}

ListNeeds(cmd) ==
    {x \in {cmd.table} : cmd.obj \notin {"chains", "ruleset"}}
    \cup {x \in {cmd.name} : cmd.obj \in {"chain", "set", "flowtable", "object"}}

ResetNeeds(cmd) == {cmd.table}

FlushNeeds(cmd) == {x \in {cmd.table, cmd.name} : cmd.obj = "set"}

RenameNeeds(cmd) == {cmd.table, cmd.name}

Needs(cmd, have) ==
    Item \cap
    ({x \in DeclarationNeeds(cmd) \cup ElementsNeed(cmd) \cup RuleNeeds(cmd, have) :
            cmd.op \in {"add", "create", "insert", "replace"}}
     \cup {x \in ElementsNeed(cmd) : cmd.op \in {"delete", "get"}}
     \cup {x \in ListNeeds(cmd) : cmd.op = "list"}
     \cup {x \in ResetNeeds(cmd) : cmd.op = "reset"}
     \cup {x \in FlushNeeds(cmd) : cmd.op = "flush"}
     \cup {x \in RenameNeeds(cmd) : cmd.op = "rename"})

\* The sets a command adds elements to, or deletes some of: those of
\* setelem_evaluate and set_evaluate, by itself or for a table's body.
Filled(cmd) ==
    {s \in {cmd.name} :
        \/ cmd.obj = "elements" /\ cmd.op # "get"
        \/ cmd.obj = "set" /\ cmd.op \in {"add", "create"} /\ cmd.body # "none"}
    \cup {s \in cmd.refs :
            cmd.obj = "table" /\ cmd.op \in {"add", "create"} /\ cmd.body # "none"}

\* The elements interval_set_eval compares their new ones with.
Compared(cmd) ==
    {x \in Item : KindOf[x] = "setelem" /\ OwnerOf[x] \in Filled(cmd) \cap Interval}

\* Those of them that evaluate_cache_add does not ask for: it has no elements
\* loaded for a set that is declared with some, nor for a table without
\* auto-merge.
Unasked(cmd) ==
    {x \in Compared(cmd) : cmd.obj = "set" \/ (cmd.obj = "table" /\ cmd.body # "automerge")}

\* The rules among which rule_cache_update finds the one that is referred to.
Counted(cmd, have) ==
    {x \in Item : /\ KindOf[x] = "rule" /\ OwnerOf[x] = cmd.name
                  /\ Updated(cmd, have)
                  /\ cmd.op \in {"add", "insert"} => cmd.at # "none"}

LooksUp(cmd) == Needs(cmd, flags) \cup Compared(cmd) \cup Counted(cmd, flags)

(***************************************************************************)
(* What do_command_list prints.                                            *)
(***************************************************************************)
Prints(cmd) ==
    {x \in Item :
        /\ cmd.op = "list"
        /\ KindOf[x] = "setelem" => ~Terse \/ OwnerOf[x] \in Anonymous
        /\ cmd.table # Nothing => TableOf[x] = cmd.table
        /\ \/ cmd.obj \in {"table", "ruleset"}
           \/ cmd.obj \in {"chain", "set", "flowtable", "object"}
              /\ (x = cmd.name \/ OwnerOf[x] = cmd.name)
           \/ cmd.obj = "chains" /\ KindOf[x] \in {"table", "chain"}
           \/ cmd.obj = "sets" /\ KindOf[x] \in {"table", "set"}
           \/ cmd.obj = "flowtables" /\ KindOf[x] \in {"table", "flowtable"}
           \/ cmd.obj = "objects" /\ KindOf[x] \in {"table", "object"}}

-----------------------------------------------------------------------------
TypeOK ==
    /\ batch \in Seq(Command)
    /\ flags \subseteq Kinds \cup Modifiers
    /\ list \in [table : Item \cup {Nothing}, chain : Item \cup {Nothing},
                 set : Item \cup {Nothing}, ft : Item \cup {Nothing}]
    /\ flushed \subseteq Item \cup {Nothing}
    /\ failed \in BOOLEAN
    /\ output \subseteq {"echo", "terse"}

\* A filter is in force only while the last listing still asks for a fresh
\* cache.
FilterRefreshes == list.table # Nothing => "refresh" \in flags

\* The flags of the owners come along with those of what they own.
OwnersAsked ==
    /\ "terse" \in flags => "refresh" \in flags
    /\ flags \cap Kinds # {} => "table" \in flags
    /\ "rule" \in flags => "chain" \in flags
    /\ {"setelem", "maybe"} \cap flags # {} => "set" \in flags /\ "table" \in flags
    /\ "update" \in flags => RULE \subseteq flags
    /\ list.table = Nothing => list = NoList

\* Commands after which the cache no longer holds what an earlier one needs.
Spoils(cmd) ==
    \/ cmd.op = "list" /\ (Narrows(cmd) \/ Terse)
    \/ cmd.op = "flush" /\ cmd.obj \in {"set", "ruleset"}

Undisturbed(i) == \A j \in DOMAIN batch : j # i => ~Spoils(batch[j])

\* What a command asks for on its own.
AskedBy(cmd) ==
    CASE cmd.op \in {"add", "create", "insert"} -> AddFlags(cmd)
      [] cmd.op = "replace" -> FULL
      [] cmd.op = "delete" -> DeleteFlags(cmd)
      [] cmd.op = "list" -> ListFlags(cmd, Filtered(NoList, cmd))
      [] cmd.op = "flush" -> FlushFlags(cmd)
      [] OTHER -> OtherFlags(cmd)

\* All it asked for will be loaded, and nothing but itself keeps out any of it.
Served(cmd) ==
    /\ AskedBy(cmd) \cap Kinds \subseteq flags
    /\ "maybe" \in AskedBy(cmd) => {"maybe", "setelem"} \cap flags # {}
    /\ list \in {NoList, Filtered(NoList, cmd)}
    /\ flushed \subseteq {s \in {cmd.name} : cmd.op = "flush" /\ cmd.obj = "set"}
    /\ "flushed" \in flags => cmd.op = "flush" /\ cmd.obj = "ruleset"
    /\ "terse" \in flags => cmd.op = "list" /\ Terse

Unspoilt ==
    (\A i \in DOMAIN batch : ~Spoils(batch[i])) =>
        list = NoList /\ flushed = {} /\ {"flushed", "terse"} \cap flags = {}

AllServed == \A i \in DOMAIN batch : Undisturbed(i) => Served(batch[i])

IInv == TypeOK /\ FilterRefreshes /\ OwnersAsked /\ Unspoilt /\ AllServed

\* Whatever the batch, the request is one nft_cache_update can serve: the
\* owners are loaded with what they own, and a cache that leaves out more
\* than the elements of flushed sets is not used again.
RequestIsSound == IsRequest(Request)

\* Every object cmd_evaluate looks up for a command of the batch is loaded,
\* if the kernel has it, so that evaluation cannot report it as missing; so
\* are the rules it counts, and the elements that element commands and tables
\* with auto-merge are compared with.  The elements a set, or a table without
\* auto-merge, is declared with may overlap some that are not loaded (Unasked).
LookupsLoaded ==
    \A i \in DOMAIN batch :
        Undisturbed(i) => LooksUp(batch[i]) \ Unasked(batch[i]) \subseteq Loads(Request)

\* Every object a listing prints is loaded.
ListingsLoaded ==
    \A i \in DOMAIN batch : Undisturbed(i) => Prints(batch[i]) \subseteq Loads(Request)
=============================================================================
