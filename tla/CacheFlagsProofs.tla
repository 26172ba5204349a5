-------------------------- MODULE CacheFlagsProofs --------------------------
(***************************************************************************)
(* Theorems about CacheFlags: for every batch of commands, what            *)
(* nft_cache_evaluate asks for is a request NftCache assumes it gets.      *)
(***************************************************************************)
EXTENDS CacheFlags, TLAPS

USE DEF Kinds, Modifiers, CHAIN, SET, FLOWTABLE, OBJECT, SETELEM, RULE, FULL

FlagTypes == Kinds \cup Modifiers

\* The bits of the owners come along with every kind.
Owned(F) ==
    /\ F \subseteq FlagTypes
    /\ F \cap Kinds # {} => "table" \in F
    /\ "rule" \in F => "chain" \in F
    /\ {"setelem", "maybe"} \cap F # {} => "set" \in F /\ "table" \in F
    /\ "update" \in F => RULE \subseteq F

\* Flags that come with their owners' flags still do when joined.
LEMMA OwnedUnion == ASSUME NEW F, NEW G, Owned(F), Owned(G) PROVE Owned(F \cup G)
BY DEF Owned, FlagTypes

\* The parts of a command.
LEMMA CommandShape ==
    ASSUME NEW cmd \in Command
    PROVE  /\ cmd.op \in Ops /\ cmd.obj \in Objs
           /\ cmd.table \in Item \cup {Nothing} /\ cmd.name \in Item \cup {Nothing}
BY CommandAssumption DEF Commands

(***************************************************************************)
(* Each command asks for the owners of what it asks for; only the flush of *)
(* a ruleset sets "flushed", and only a terse listing "terse".             *)
(***************************************************************************)
Asking(cmd, F) ==
    /\ Owned(F)
    /\ "flushed" \in F => cmd.op = "flush" /\ cmd.obj = "ruleset"
    /\ "terse" \in F => cmd.op = "list" /\ Terse

\* evaluate_cache_add
LEMMA AddAsks ==
    ASSUME NEW cmd \in Command
    PROVE  Asking(cmd, AddFlags(cmd))
BY DEF AddFlags, PlacedRule, BodyFlags, Asking, Owned, FlagTypes

\* evaluate_cache_del
LEMMA DeleteAsks == ASSUME NEW cmd \in Command PROVE Asking(cmd, DeleteFlags(cmd))
BY DEF DeleteFlags, Asking, Owned, FlagTypes

\* evaluate_cache_list
LEMMA ListAsks ==
    ASSUME NEW cmd \in Command, cmd.op = "list", NEW filter
    PROVE  Asking(cmd, ListFlags(cmd, filter)) /\ "refresh" \in ListFlags(cmd, filter)
BY DEF ListFlags, Asking, Owned, FlagTypes

\* evaluate_cache_flush
LEMMA FlushAsks ==
    ASSUME NEW cmd \in Command, cmd.op = "flush" PROVE Asking(cmd, FlushFlags(cmd))
BY DEF FlushFlags, Asking, Owned, FlagTypes

\* The other commands.
LEMMA OtherAsks == ASSUME NEW cmd \in Command PROVE Asking(cmd, OtherFlags(cmd))
BY DEF OtherFlags, Asking, Owned, FlagTypes

(***************************************************************************)
(* Only a listing puts names into the filter.                              *)
(***************************************************************************)
LEMMA ListedShape ==
    ASSUME TypeOK, list.table = Nothing => list = NoList, NEW cmd \in Command
    PROVE  /\ Listed(cmd) \in [table : Item \cup {Nothing}, chain : Item \cup {Nothing},
                               set : Item \cup {Nothing}, ft : Item \cup {Nothing}]
           /\ cmd.op # "list" => Listed(cmd) = NoList
           /\ Listed(cmd).table = Nothing => Listed(cmd) = NoList
           /\ ~Spoils(cmd) => Listed(cmd) \in {list, NoList}
           /\ list = NoList => Listed(cmd) = Filtered(NoList, cmd)
<1>1. NoList \in [table : Item \cup {Nothing}, chain : Item \cup {Nothing},
                  set : Item \cup {Nothing}, ft : Item \cup {Nothing}]
  BY DEF NoList
<1>2. Cleared(cmd) \in [table : Item \cup {Nothing}, chain : Item \cup {Nothing},
                        set : Item \cup {Nothing}, ft : Item \cup {Nothing}]
  BY <1>1 DEF Cleared, TypeOK
<1>3. CASE cmd.op = "list" /\ Narrows(cmd)
  <2>1. cmd.table # Nothing /\ Spoils(cmd) /\ Listed(cmd).table = cmd.table
    BY <1>2, <1>3 DEF Listed, Filtered, Narrows, Spoils
  <2>2. Listed(cmd) \in [table : Item \cup {Nothing}, chain : Item \cup {Nothing},
                         set : Item \cup {Nothing}, ft : Item \cup {Nothing}]
    BY <1>2, <1>3, CommandShape DEF Listed, Filtered
  <2>3. list = NoList => Listed(cmd) = Filtered(NoList, cmd)
    BY DEF Listed, Cleared, NoList
  <2> QED BY <1>3, <2>1, <2>2, <2>3
<1>4. CASE ~(cmd.op = "list" /\ Narrows(cmd))
  BY <1>1, <1>2, <1>4 DEF Listed, Filtered, Cleared, Spoils
<1> QED BY <1>3, <1>4

\* No command has been read at first.
LEMMA IInvInit == Init => IInv
<1> SUFFICES ASSUME Init PROVE IInv
  OBVIOUS
<1>1. batch = <<>> /\ batch \in Seq(Command)
  BY DEF Init
<1>2. /\ list = NoList /\ NoList.table = Nothing /\ flags = {} /\ flushed = {} /\ failed = FALSE
      /\ output \subseteq {"echo", "terse"}
  BY DEF Init, NoList
<1>3. NoList \in [table : Item \cup {Nothing}, chain : Item \cup {Nothing},
                  set : Item \cup {Nothing}, ft : Item \cup {Nothing}]
  BY DEF NoList
<1>4. TypeOK /\ FilterRefreshes /\ OwnersAsked /\ Unspoilt
  BY <1>1, <1>2, <1>3 DEF TypeOK, FilterRefreshes, OwnersAsked, Unspoilt
<1>5. AllServed
  BY <1>1 DEF AllServed
<1> QED BY <1>4, <1>5 DEF IInv

(***************************************************************************)
(* What one round of the loop does to the flags and to the flushed sets,   *)
(* whichever command it is for.                                            *)
(***************************************************************************)
Round(cmd, F) ==
    /\ Owned(F)
    /\ flags \subseteq F \/ (cmd.op = "replace" /\ F = FULL)
    /\ list = NoList => AskedBy(cmd) \subseteq F
    /\ cmd.op = "list" => "refresh" \in F
    /\ "flushed" \in F => "flushed" \in flags \/ (cmd.op = "flush" /\ cmd.obj = "ruleset")
    /\ "terse" \in F => "terse" \in flags \/ (cmd.op = "list" /\ Terse)
    /\ flushed' \subseteq flushed \cup {s \in {cmd.name} : cmd.op = "flush" /\ cmd.obj = "set"}

\* A round that adds to the flags what the command asks for.
LEMMA Adds ==
    ASSUME TypeOK, OwnersAsked, NEW cmd \in Command, NEW G, Asking(cmd, G),
           list = NoList => AskedBy(cmd) \subseteq G,
           cmd.op = "list" => "refresh" \in G,
           flushed' \subseteq flushed \cup {s \in {cmd.name} : cmd.op = "flush" /\ cmd.obj = "set"}
    PROVE  Round(cmd, flags \cup G)
<1>1. Owned(flags)
  BY DEF OwnersAsked, TypeOK, Owned, FlagTypes
<1>2. Owned(flags \cup G)
  BY <1>1, OwnedUnion DEF Asking
<1> QED BY <1>2 DEF Round, Asking

\* Every branch of nft_cache_evaluate's loop is such a round.
LEMMA EveryRound ==
    ASSUME TypeOK, OwnersAsked, NEW cmd \in Command,
           Add(cmd) \/ Replace(cmd) \/ Delete(cmd) \/ List(cmd) \/ Flush(cmd) \/ Other(cmd)
    PROVE  \E ops, F : Evaluate(cmd, ops, F) /\ Round(cmd, F)
<1>w. cmd.at # "none" => cmd.op \in {"add", "insert"}
  BY CommandAssumption DEF Commands, WellFormed
<1>k. UNCHANGED flushed => flushed' \subseteq flushed \cup {s \in {cmd.name} : cmd.op = "flush" /\ cmd.obj = "set"}
  OBVIOUS
<1>1. CASE Add(cmd)
  <2>1. cmd.op \in {"add", "create", "insert"} /\ UNCHANGED flushed
    BY <1>1 DEF Add, Evaluate
  <2>2. AskedBy(cmd) = AddFlags(cmd)
    BY <2>1 DEF AskedBy
  <2>3. Round(cmd, flags \cup AddFlags(cmd))
    BY <1>k, <2>1, <2>2, AddAsks, Adds
  <2> QED BY <1>1, <2>3 DEF Add
<1>2. CASE Replace(cmd)
  <2>1. cmd.op = "replace" /\ UNCHANGED flushed
    BY <1>2 DEF Replace, Evaluate
  <2>2. AskedBy(cmd) = FULL
    BY <2>1 DEF AskedBy
  <2>3. Round(cmd, FULL)
    BY <1>k, <2>1, <2>2 DEF Round, Owned, FlagTypes
  <2> QED BY <1>2, <2>3 DEF Replace
<1>3. CASE Delete(cmd)
  <2>1. cmd.op = "delete" /\ UNCHANGED flushed
    BY <1>3 DEF Delete, Evaluate
  <2>2. AskedBy(cmd) = DeleteFlags(cmd)
    BY <2>1 DEF AskedBy
  <2>3. Round(cmd, flags \cup DeleteFlags(cmd))
    BY <1>k, <1>w, <2>1, <2>2, DeleteAsks, Adds
  <2> QED BY <1>3, <2>3 DEF Delete
<1>4. CASE List(cmd)
  <2>1. cmd.op = "list" /\ UNCHANGED flushed
    BY <1>4 DEF List, Evaluate
  <2>2. list = NoList => AskedBy(cmd) = ListFlags(cmd, Listed(cmd))
    BY <2>1 DEF AskedBy, Listed, Cleared
  <2>3. Round(cmd, flags \cup ListFlags(cmd, Listed(cmd)))
    BY <1>k, <1>w, <2>1, <2>2, ListAsks, Adds
  <2> QED BY <1>4, <2>3 DEF List
<1>5. CASE Flush(cmd)
  <2>1. cmd.op = "flush" /\ flushed' = flushed \cup {s \in {cmd.name} : cmd.obj = "set"}
    BY <1>5 DEF Flush, Evaluate
  <2>2. AskedBy(cmd) = FlushFlags(cmd)
    BY <2>1 DEF AskedBy
  <2>3. Round(cmd, flags \cup FlushFlags(cmd))
    BY <1>w, <2>1, <2>2, FlushAsks, Adds
  <2> QED BY <1>5, <2>3 DEF Flush
<1>6. CASE Other(cmd)
  <2>1. cmd.op \in {"get", "reset", "rename", "monitor", "describe"} /\ UNCHANGED flushed
    BY <1>6 DEF Other, Evaluate
  <2>2. AskedBy(cmd) = OtherFlags(cmd)
    BY <2>1 DEF AskedBy
  <2>3. Round(cmd, flags \cup OtherFlags(cmd))
    BY <1>k, <1>w, <2>1, <2>2, OtherAsks, Adds
  <2> QED BY <1>6, <2>3 DEF Other
<1> QED BY <1>1, <1>2, <1>3, <1>4, <1>5, <1>6

\* A round keeps the invariant.
LEMMA IInvRound ==
    ASSUME IInv, NEW cmd \in Command, NEW ops, NEW F, Evaluate(cmd, ops, F), Round(cmd, F)
    PROVE  IInv'
<1>t. TypeOK /\ OwnersAsked /\ FilterRefreshes
  BY DEF IInv
<1>n. NoList.table = Nothing
  BY DEF NoList
<1>l. list.table = Nothing => list = NoList
  BY <1>t DEF OwnersAsked
<1> DEFINE last == Len(batch) + 1
<1>b. /\ batch' = Append(batch, cmd) /\ flags' = F /\ list' = Listed(cmd) /\ output' = output
      /\ failed' = FALSE
  BY DEF Evaluate
<1>i. /\ batch' \in Seq(Command)
      /\ DOMAIN batch' = DOMAIN batch \cup {last} /\ last \notin DOMAIN batch
      /\ Len(batch') = last /\ Len(batch) \in Nat
      /\ batch'[last] = cmd
      /\ \A i \in DOMAIN batch : batch'[i] = batch[i] /\ batch[i] \in Command
  BY <1>b, <1>t DEF TypeOK
<1>s. \A i : Spoils(batch[i])' = Spoils(batch'[i]) /\ AskedBy(batch[i])' = AskedBy(batch'[i])
  BY <1>b DEF Spoils, Terse, AskedBy, AddFlags, ListFlags, Echo
<1>p. /\ cmd.op = "flush" /\ cmd.obj = "set" => Spoils(cmd)
      /\ cmd.op = "flush" /\ cmd.obj = "ruleset" => Spoils(cmd)
      /\ cmd.op = "list" /\ Terse => Spoils(cmd)
  BY DEF Spoils
<1>1. TypeOK'
  <2>1. flushed' \subseteq Item \cup {Nothing}
    BY <1>t, CommandShape DEF Round, TypeOK
  <2> QED BY <1>b, <1>i, <1>l, <1>t, <2>1, ListedShape DEF TypeOK, Round, Owned, FlagTypes
<1>2. FilterRefreshes'
  BY <1>b, <1>l, <1>n, <1>t, ListedShape DEF FilterRefreshes, Round
<1>3. OwnersAsked'
  <2>1. "terse" \in F => "refresh" \in F
    BY <1>t DEF Round, OwnersAsked
  <2> QED BY <1>b, <1>l, <1>t, <2>1, ListedShape DEF OwnersAsked, Round, Owned
<1>4. Unspoilt'
  <2> SUFFICES ASSUME \A i \in DOMAIN batch' : ~Spoils(batch'[i])
               PROVE  list' = NoList /\ flushed' = {} /\ {"flushed", "terse"} \cap flags' = {}
    BY <1>s DEF Unspoilt
  <2>1. ~Spoils(cmd) /\ \A i \in DOMAIN batch : ~Spoils(batch[i])
    BY <1>i
  <2>2. list = NoList /\ flushed = {} /\ {"flushed", "terse"} \cap flags = {}
    BY <2>1 DEF IInv, Unspoilt
  <2> QED BY <1>b, <1>l, <1>p, <1>t, <2>1, <2>2, ListedShape DEF Round
<1>5. AllServed'
  <2> SUFFICES ASSUME NEW i \in DOMAIN batch',
                      \A j \in DOMAIN batch' : j # i => ~Spoils(batch'[j])
               PROVE  Served(batch[i])'
    BY <1>s DEF AllServed, Undisturbed
  <2>1. CASE i = last
    <3>1. \A j \in DOMAIN batch : ~Spoils(batch[j])
      BY <1>i, <2>1
    <3>2. list = NoList /\ flushed = {} /\ {"flushed", "terse"} \cap flags = {}
      BY <3>1 DEF IInv, Unspoilt
    <3>3. Listed(cmd) = Filtered(NoList, cmd)
      BY <1>t, <1>l, <3>2, ListedShape
    <3>4. AskedBy(cmd) \subseteq F
      BY <3>2 DEF Round
    <3>5. Terse' = Terse
      BY <1>b DEF Terse
    <3>6. batch'[i] = cmd
      BY <1>i, <2>1
    <3>7. /\ AskedBy(cmd) \cap Kinds \subseteq flags'
          /\ "maybe" \in AskedBy(cmd) => {"maybe", "setelem"} \cap flags' # {}
          /\ list' \in {NoList, Filtered(NoList, cmd)}
          /\ flushed' \subseteq {s \in {cmd.name} : cmd.op = "flush" /\ cmd.obj = "set"}
          /\ "flushed" \in flags' => cmd.op = "flush" /\ cmd.obj = "ruleset"
          /\ "terse" \in flags' => cmd.op = "list" /\ Terse
      BY <1>b, <3>2, <3>3, <3>4 DEF Round
    <3> QED BY <1>s, <3>5, <3>6, <3>7 DEF Served
  <2>2. CASE i \in DOMAIN batch
    <3>1. ~Spoils(cmd) /\ \A j \in DOMAIN batch : j # i => ~Spoils(batch[j])
      BY <1>i, <2>2
    <3>2. Served(batch[i])
      BY <2>2, <3>1 DEF IInv, AllServed, Undisturbed
    <3>3. batch'[i] = batch[i]
      BY <1>i, <2>2
    <3>4. Listed(cmd) \in {list, NoList}
      BY <1>l, <1>t, <3>1, ListedShape
    <3>5. flushed' \subseteq flushed
      BY <1>p, <3>1 DEF Round
    <3>6. ("flushed" \in F => "flushed" \in flags) /\ ("terse" \in F => "terse" \in flags)
      BY <1>p, <3>1 DEF Round
    <3>7. flags \cap Kinds \subseteq F /\ ("maybe" \in flags => {"maybe", "setelem"} \cap F # {})
      BY DEF Round
    <3>8. "setelem" \in flags => "setelem" \in F
      BY <3>7
    <3>9. Terse' = Terse
      BY <1>b DEF Terse
    <3> QED BY <1>b, <1>s, <3>2, <3>3, <3>4, <3>5, <3>6, <3>7, <3>8, <3>9 DEF Served
  <2> QED BY <1>i, <2>1, <2>2
<1> QED BY <1>1, <1>2, <1>3, <1>4, <1>5 DEF IInv

\* So does every step.
LEMMA IInvStep == IInv /\ [Next]_vars => IInv'
<1> SUFFICES ASSUME IInv, [Next]_vars PROVE IInv'
  OBVIOUS
<1>t. TypeOK /\ OwnersAsked
  BY DEF IInv
<1>k. ASSUME UNCHANGED <<batch, flags, list, flushed, output>>, failed' \in BOOLEAN PROVE IInv'
  <2>1. TypeOK' /\ FilterRefreshes' /\ OwnersAsked'
    BY <1>k DEF IInv, TypeOK, FilterRefreshes, OwnersAsked
  <2>2. \A c : /\ Spoils(c)' = Spoils(c) /\ AskedBy(c)' = AskedBy(c)
    BY <1>k DEF Spoils, Terse, AskedBy, AddFlags, ListFlags, Echo
  <2>3. Unspoilt'
    BY <1>k, <2>2 DEF IInv, Unspoilt
  <2>4. \A c : Served(c)' = Served(c)
    BY <1>k, <2>2 DEF Served, Terse
  <2>5. AllServed'
    BY <1>k, <2>2, <2>4 DEF IInv, AllServed, Undisturbed
  <2> QED BY <2>1, <2>3, <2>5 DEF IInv
<1>1. ASSUME NEW cmd \in Command,
             Add(cmd) \/ Replace(cmd) \/ Delete(cmd) \/ List(cmd) \/ Flush(cmd) \/ Other(cmd)
      PROVE  IInv'
  BY <1>1, <1>t, EveryRound, IInvRound
<1>2. ASSUME NEW cmd \in Command, NameTooLong(cmd) PROVE IInv'
  BY <1>2, <1>k DEF NameTooLong
<1>3. CASE UNCHANGED vars
  BY <1>3, <1>k, <1>t DEF vars, TypeOK
<1> QED BY <1>1, <1>2, <1>3 DEF Next

(***************************************************************************)
(* The flags name the owners of whatever they name, and the filter of a    *)
(* listing is in force only while a refresh is asked for.                  *)
(***************************************************************************)
THEOREM Inductive == Spec => []IInv
BY IInvInit, IInvStep, PTL DEF Spec

(***************************************************************************)
(* Every batch makes a request that NftCache is entitled to: this is its   *)
(* RequestAssumption.                                                      *)
(***************************************************************************)
THEOREM RequestsSound == Spec => []RequestIsSound
<1>1. IInv => RequestIsSound
  <2> SUFFICES ASSUME IInv PROVE IsRequest(Request)
    BY DEF RequestIsSound
  <2> DEFINE hide == Request.hide
  <2>1. Request.flags = flags
        /\ \A x \in Item : x \in hide <=>
              HiddenByList(x) \/ (KindOf[x] = "setelem" /\ OwnerOf[x] \in flushed)
    BY DEF Request
  <2>2. Request \in [flags : SUBSET (Kinds \cup Modifiers), hide : SUBSET Item]
    BY DEF Request, IInv, TypeOK
  <2>3. ASSUME NEW x \in Item, OwnerOf[x] \in hide PROVE x \in hide
    <3>1. OwnerOf[x] \in Item /\ KindOf[OwnerOf[x]] \in {"table", "chain", "set"}
      BY ItemAssumption
    <3>2. HiddenByList(OwnerOf[x])
      BY <2>1, <2>3, <3>1
    <3>3. CASE TableOf[x] # list.table
      BY <2>1, <3>2, <3>3 DEF HiddenByList
    <3>4. CASE TableOf[x] = list.table
      <4>1. TableOf[OwnerOf[x]] = list.table
        BY <3>4, ItemAssumption
      <4>2. \/ list.chain # Nothing /\ KindOf[OwnerOf[x]] = "chain" /\ OwnerOf[x] # list.chain
            \/ list.set # Nothing /\ KindOf[OwnerOf[x]] = "set" /\ OwnerOf[x] # list.set
        BY <3>1, <3>2, <4>1 DEF HiddenByList
      <4>3. /\ KindOf[OwnerOf[x]] = "chain" => KindOf[x] = "rule"
            /\ KindOf[OwnerOf[x]] = "set" => KindOf[x] = "setelem"
        BY ItemAssumption
      <4> QED BY <2>1, <3>2, <4>2, <4>3 DEF HiddenByList
    <3> QED BY <3>3, <3>4
  <2>4. ASSUME NEW x \in hide, KindOf[x] # "setelem" PROVE "refresh" \in flags
    <3>1. HiddenByList(x)
      BY <2>1, <2>2, <2>4
    <3> QED BY <3>1 DEF HiddenByList, IInv, FilterRefreshes
  <2> QED BY <2>1, <2>2, <2>3, <2>4 DEF IInv, OwnersAsked, IsRequest
<1> QED BY <1>1, Inductive, PTL

(***************************************************************************)
(* What an undisturbed command asked for is there when it is evaluated.    *)
(***************************************************************************)
\* An item is loaded when the filter lets it pass and its kind is asked for.
LEMMA Loaded ==
    ASSUME NEW x \in Item, "flushed" \notin flags, ~HiddenByList(x),
           KindOf[x] # "setelem" => KindOf[x] \in flags,
           KindOf[x] = "setelem" => OwnerOf[x] \notin flushed /\ LoadsElements(Request, OwnerOf[x])
    PROVE  x \in Loads(Request)
BY DEF Loads, Request

\* What a name is the name of.
LEMMA Names ==
    ASSUME NEW cmd \in Command
    PROVE  /\ cmd.obj \in ObjsOf[cmd.op]
           /\ cmd.table \in Item => KindOf[cmd.table] = "table"
           /\ cmd.name \in Item => /\ cmd.obj \in DOMAIN NamedKind
                                   /\ KindOf[cmd.name] = NamedKind[cmd.obj]
                                   /\ TableOf[cmd.name] = cmd.table
           /\ \A x \in cmd.refs : KindOf[x] = "set"
           /\ cmd.at # "none" => cmd.op \in {"add", "insert"}
<1>1. WellFormed(cmd)
  BY CommandAssumption DEF Commands
<1> QED BY <1>1, NothingAssumption DEF WellFormed

\* Only a listing leaves anything out, and nothing of what it is about.
LEMMA Passes ==
    ASSUME IInv, NEW cmd \in Command, Served(cmd), NEW x \in Item,
           cmd.op = "list" /\ cmd.table # Nothing => TableOf[x] = cmd.table,
           cmd.op = "list" /\ cmd.obj \in {"chain", "set", "flowtable"} =>
               x \in {cmd.table, cmd.name} \/ OwnerOf[x] = cmd.name
    PROVE  ~HiddenByList(x)
<1>1. CASE list = NoList
  BY <1>1 DEF HiddenByList, NoList
<1>2. CASE list # NoList
  <2>1. /\ list = Filtered(NoList, cmd) /\ cmd.op = "list" /\ Narrows(cmd)
    BY <1>2 DEF Served, Filtered
  <2>2. /\ list.table = cmd.table /\ cmd.table \in Item
        /\ list.chain = IF cmd.obj = "chain" THEN cmd.name ELSE Nothing
        /\ list.set = IF cmd.obj = "set" THEN cmd.name ELSE Nothing
        /\ list.ft = IF cmd.obj = "flowtable" THEN cmd.name ELSE Nothing
    BY <2>1, CommandShape DEF Filtered, NoList, Narrows
  <2>3. KindOf[cmd.table] = "table"
    BY <2>2, Names
  <2>4. TableOf[x] = list.table
    BY <2>1, <2>2, NothingAssumption
  <2>5. ASSUME cmd.obj \in {"chain", "set", "flowtable"}
        PROVE  /\ cmd.name \in Item
               /\ KindOf[x] = "rule" \/ KindOf[x] = "setelem" => OwnerOf[x] = cmd.name
               /\ KindOf[x] = cmd.obj => x = cmd.name
    <3>1. cmd.name \in Item /\ KindOf[cmd.name] = cmd.obj
      BY <2>1, <2>5, CommandShape, Names DEF Narrows, NamedKind
    <3>2. /\ KindOf[x] = "table" => OwnerOf[x] = x
          /\ KindOf[x] \in {"chain", "set", "flowtable"} => KindOf[OwnerOf[x]] = "table"
      BY ItemAssumption
    <3> QED BY <2>1, <2>3, <2>5, <3>1, <3>2
  <2> QED BY <2>2, <2>4, <2>5 DEF HiddenByList
<1> QED BY <1>1, <1>2

(***************************************************************************)
(* Whatever the batch, an undisturbed listing finds all that it prints.    *)
(***************************************************************************)
THEOREM ListingsHold == Spec => []ListingsLoaded
<1>1. IInv => ListingsLoaded
  <2> SUFFICES ASSUME IInv, NEW i \in DOMAIN batch, Undisturbed(i),
                      NEW x \in Item, x \in Prints(batch[i])
               PROVE  x \in Loads(Request)
    BY DEF ListingsLoaded, Prints
  <2> DEFINE cmd == batch[i]
  <2>1. cmd \in Command /\ Served(cmd)
    BY DEF IInv, TypeOK, AllServed
  <2>2. cmd.op = "list"
    BY DEF Prints
  <2>3. AskedBy(cmd) = ListFlags(cmd, Filtered(NoList, cmd))
    BY <2>2 DEF AskedBy
  <2>4. ListFlags(cmd, Filtered(NoList, cmd)) \cap Kinds \subseteq flags
    BY <2>1, <2>3 DEF Served
  <2>5. flushed = {} /\ "flushed" \notin flags /\ ("terse" \in flags => Terse)
    BY <2>1, <2>2 DEF Served
  <2> HIDE DEF cmd
  <2>6. /\ cmd.obj \in Objs \ {"elements", "rule", "expr"}
        /\ cmd.name \in Item => cmd.table \in Item
    BY <2>1, <2>2, Names, ItemAssumption DEF ObjsOf
  <2>7. ASSUME cmd.obj \in {"chain", "set", "flowtable", "object"}
        PROVE  /\ x = cmd.name \/ OwnerOf[x] = cmd.name
               /\ cmd.name \in Item /\ cmd.table \in Item
               /\ KindOf[cmd.name] = cmd.obj
               /\ KindOf[x] \in {cmd.obj, "rule", "setelem"}
    <3>1. x = cmd.name \/ OwnerOf[x] = cmd.name
      BY <2>7 DEF Prints, cmd
    <3>2. cmd.name \in Item /\ cmd.table \in Item
      BY <2>6, <3>1, ItemAssumption
    <3>3. KindOf[cmd.name] = cmd.obj
      BY <2>1, <2>7, <3>2, Names DEF NamedKind
    <3>4. OwnerOf[x] = cmd.name => KindOf[x] \in {"rule", "setelem"}
      BY <2>7, <3>3, ItemAssumption
    <3> QED BY <3>1, <3>2, <3>3, <3>4
  <2>8. ~HiddenByList(x)
    <3>1. cmd.table # Nothing => TableOf[x] = cmd.table
      BY DEF Prints, cmd
    <3> QED BY <2>1, <2>7, <3>1, Passes
  <2>9. KindOf[x] \in flags
    <3>1. CASE cmd.obj = "set"
      <4>1. Filtered(NoList, cmd).table # Nothing /\ Filtered(NoList, cmd).set # Nothing
        BY <2>2, <2>7, <3>1, NothingAssumption DEF Filtered, Narrows, NoList
      <4>2. SETELEM \subseteq flags
        BY <2>4, <3>1, <4>1 DEF ListFlags
      <4>3. KindOf[OwnerOf[x]] = "set" => KindOf[x] = "setelem"
        BY ItemAssumption
      <4> QED BY <2>7, <3>1, <4>2, <4>3
    <3>2. CASE cmd.obj \in {"chains", "sets", "flowtables"}
      BY <2>4, <3>2 DEF ListFlags, Prints, cmd
    <3>3. CASE cmd.obj = "flowtable"
      <4>1. FLOWTABLE \subseteq flags
        BY <2>4, <3>3 DEF ListFlags
      <4>2. KindOf[OwnerOf[x]] # "flowtable"
        BY ItemAssumption
      <4> QED BY <2>7, <3>3, <4>1, <4>2
    <3>4. CASE cmd.obj \in {"table", "chain", "object", "objects", "ruleset"}
      BY <2>4, <3>4, ItemAssumption DEF ListFlags
    <3> QED BY <2>6, <3>1, <3>2, <3>3, <3>4 DEF Objs
  <2>10. KindOf[x] = "setelem" => LoadsElements(Request, OwnerOf[x])
    <3>1. KindOf[x] = "setelem" => ~Terse \/ OwnerOf[x] \in Anonymous
      BY DEF Prints
    <3> QED BY <2>5, <2>9, <3>1 DEF LoadsElements, Request
  <2> QED BY <2>5, <2>8, <2>9, <2>10, Loaded
<1> QED BY <1>1, Inductive, PTL

(***************************************************************************)
(* Whatever the batch, cmd_evaluate finds in the cache what it looks up    *)
(* for an undisturbed command, the rules it counts, and the elements it    *)
(* compares new ones with: but for those of a set, or of a table without   *)
(* auto-merge, that is declared with elements, which nothing asks for.     *)
(***************************************************************************)
THEOREM LookupsHold == Spec => []LookupsLoaded
<1>1. IInv => LookupsLoaded
  <2> SUFFICES ASSUME IInv, NEW i \in DOMAIN batch, Undisturbed(i),
                      NEW x \in LooksUp(batch[i]), x \notin Unasked(batch[i])
               PROVE  x \in Loads(Request)
    BY DEF LookupsLoaded
  <2> DEFINE cmd == batch[i]
  <2>1. cmd \in Command /\ Served(cmd)
    BY DEF IInv, TypeOK, AllServed
  <2> HIDE DEF cmd
  <2>2. x \in Item /\ x \in Needs(cmd, flags) \cup Compared(cmd) \cup Counted(cmd, flags)
    BY DEF LooksUp, Needs, Compared, Counted, cmd
  <2>u. x \notin Unasked(cmd)
    BY DEF cmd
  <2>3. AskedBy(cmd) \cap Kinds \subseteq flags
    BY <2>1 DEF Served
  <2>4. CASE x \in Needs(cmd, flags)
    <3>1. "flushed" \notin flags
      BY <2>1, <2>4, Names DEF Served, Needs, FlushNeeds
    <3>2. /\ x \in {cmd.table, cmd.name} \cup cmd.refs
          /\ x \in cmd.refs => KindOf[x] = "set"
          /\ x = cmd.table => KindOf[x] = "table" /\ TableOf[x] = x
          /\ x = cmd.name => cmd.obj \in DOMAIN NamedKind /\ KindOf[x] = NamedKind[cmd.obj]
      BY <2>1, <2>2, <2>4, Names, ItemAssumption
         DEF Needs, DeclarationNeeds, ElementsNeed, RuleNeeds, ListNeeds, ResetNeeds, FlushNeeds,
             RenameNeeds
    <3>3. KindOf[x] # "setelem"
      BY <3>2 DEF NamedKind
    <3>4. cmd.op = "list" => /\ x \in {cmd.table, cmd.name}
                             /\ cmd.table # Nothing => TableOf[x] = cmd.table
      BY <2>1, <2>2, <2>4, <3>2, Names DEF Needs, ListNeeds
    <3>5. ~HiddenByList(x)
      BY <2>1, <2>2, <3>4, Passes
    <3>6. KindOf[x] \in flags
      <4>1. CASE cmd.op \in {"add", "create", "insert"}
        <5>1. AddFlags(cmd) \cap Kinds \subseteq flags
          BY <2>3, <4>1 DEF AskedBy
        <5>2. x = cmd.table \/ cmd.obj \in {"elements", "rule"}
          BY <2>4, <4>1 DEF Needs, DeclarationNeeds, ElementsNeed, RuleNeeds, Updated
        <5>3. x \in cmd.refs \/ x = cmd.table \/ x = cmd.name
          BY <3>2
        <5>4. cmd.obj \in {"chain", "set", "object", "flowtable", "elements", "rule"}
          BY <2>4, <4>1 DEF Needs, DeclarationNeeds, ElementsNeed, RuleNeeds, Updated
        <5>5. "table" \in flags /\ (cmd.obj \in {"elements", "rule"} => {"chain", "set"} \subseteq flags)
          BY <5>1, <5>4 DEF AddFlags
        <5> QED BY <3>2, <5>2, <5>3, <5>5 DEF NamedKind
      <4>2. CASE cmd.op = "replace"
        BY <2>2, <2>3, <4>2, ItemAssumption DEF AskedBy
      <4>3. CASE cmd.op = "delete"
        <5>1. DeleteFlags(cmd) \cap Kinds \subseteq flags
          BY <2>3, <4>3 DEF AskedBy
        <5>2. cmd.obj = "elements" /\ x \in {cmd.table, cmd.name}
          BY <2>4, <4>3 DEF Needs, ElementsNeed
        <5> QED BY <3>2, <5>1, <5>2 DEF DeleteFlags, NamedKind
      <4>4. CASE cmd.op = "list"
        <5>1. ListFlags(cmd, Filtered(NoList, cmd)) \cap Kinds \subseteq flags
          BY <2>3, <4>4 DEF AskedBy
        <5>2. "table" \in flags
          BY <5>1 DEF ListFlags
        <5>3. x = cmd.table \/ (x = cmd.name /\ cmd.obj \in {"chain", "set", "flowtable", "object"})
          BY <2>4, <4>4 DEF Needs, ListNeeds
        <5>4. cmd.obj \in {"chain", "set", "flowtable", "object"} => cmd.obj \in flags
          BY <5>1 DEF ListFlags
        <5> QED BY <3>2, <5>2, <5>3, <5>4 DEF NamedKind
      <4>5. CASE cmd.op = "flush"
        <5>1. FlushFlags(cmd) \cap Kinds \subseteq flags
          BY <2>3, <4>5 DEF AskedBy
        <5>2. cmd.obj = "set" /\ x \in {cmd.table, cmd.name}
          BY <2>4, <4>5 DEF Needs, FlushNeeds
        <5> QED BY <3>2, <5>1, <5>2 DEF FlushFlags, NamedKind
      <4>6. CASE cmd.op \in {"get", "reset", "rename"}
        <5>1. OtherFlags(cmd) \cap Kinds \subseteq flags
          BY <2>3, <4>6 DEF AskedBy
        <5>2. \/ cmd.op = "get" /\ cmd.obj = "elements" /\ x \in {cmd.table, cmd.name}
              \/ cmd.op = "reset" /\ x = cmd.table
              \/ cmd.op = "rename" /\ x \in {cmd.table, cmd.name}
          BY <2>4, <4>6 DEF Needs, ElementsNeed, ResetNeeds, RenameNeeds
        <5>3. cmd.op = "rename" => cmd.obj = "chain"
          BY <2>1, Names DEF ObjsOf
        <5> QED BY <3>2, <5>1, <5>2, <5>3 DEF OtherFlags, NamedKind
      <4> QED BY <2>4, <4>1, <4>2, <4>3, <4>4, <4>5, <4>6 DEF Needs
    <3> QED BY <2>2, <3>1, <3>3, <3>5, <3>6, Loaded
  <2>5. CASE x \in Compared(cmd)
    <3>1. KindOf[x] = "setelem" /\ OwnerOf[x] \in Interval /\ OwnerOf[x] \in Filled(cmd)
      BY <2>5 DEF Compared
    <3>2. \/ cmd.obj = "elements" /\ cmd.op \in {"add", "create", "delete"}
          \/ cmd.obj = "table" /\ cmd.op \in {"add", "create"} /\ cmd.body = "automerge"
      BY <2>1, <2>5, <2>u, <3>1, CommandShape, Names DEF Filled, Unasked, ObjsOf, Ops, Declared
    <3>3. "maybe" \in AskedBy(cmd)
      BY <3>2 DEF AskedBy, AddFlags, BodyFlags, DeleteFlags
    <3>4. {"maybe", "setelem"} \cap flags # {} /\ {"terse", "flushed"} \cap flags = {} /\ flushed = {}
      BY <2>1, <3>2, <3>3 DEF Served
    <3>5. ~HiddenByList(x)
      BY <2>1, <2>2, <3>2, Passes
    <3> QED BY <2>2, <3>1, <3>4, <3>5, Loaded DEF LoadsElements, Request
  <2>6. CASE x \in Counted(cmd, flags)
    <3>1. KindOf[x] = "rule" /\ cmd.obj = "rule" /\ "update" \in flags
      BY <2>6 DEF Counted, Updated
    <3>2. cmd.op # "list" /\ cmd.op # "flush"
      BY <2>1, <3>1, Names DEF ObjsOf, Objs
    <3>3. "rule" \in flags /\ "flushed" \notin flags
      BY <2>1, <3>1, <3>2 DEF IInv, OwnersAsked, Served
    <3>4. ~HiddenByList(x)
      BY <2>1, <2>2, <3>2, Passes
    <3> QED BY <2>2, <3>1, <3>3, <3>4, Loaded
  <2> QED BY <2>2, <2>4, <2>5, <2>6
<1> QED BY <1>1, Inductive, PTL
=============================================================================
