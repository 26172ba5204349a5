--------------------------- MODULE RuleIndexProofs ---------------------------
(***************************************************************************)
(* Theorems about RuleIndex, for chains and batches of any length:         *)
(*                                                                         *)
(*   IdsAlwaysResolve  an id a message refers to is the id of one rule,    *)
(*                     and of one that comes before in the batch;          *)
(*   StaysAlways       a rule given by index is next to the rule that was  *)
(*                     there, whatever others and the batch have done;     *)
(*   PlacedAlways      a batch that counts as the user does, and whose     *)
(*                     indices are looked up, is taken and leaves the      *)
(*                     chain its commands mean.                            *)
(*                                                                         *)
(* IdInv says what the evaluation knows of rules and ids, PlaceInv which   *)
(* rules are in the kernel's lists and in which order, MeantInv that both  *)
(* lists, nft's and the kernel's, are the chain the commands mean so far.  *)
(***************************************************************************)
EXTENDS RuleIndex, FiniteInduction, SequenceTheorems, FiniteSetTheorems, WellFoundedInduction,
        TLAPS

Rules(n) == 1..(MaxRules + n)
Entry == [cmd : Commands, ref : Nat, position : Nat, id : Nat]

\* The handles of the kernel's rules stay, so that a rule without one is of
\* this batch.
TypeInv ==
    /\ cmds \in Seq(Entry) /\ Len(cmds) <= MaxCommands
    /\ cached \in Seq(Rules(Len(cmds)))
    /\ handle \in [All -> 0..MaxRules]
    /\ \A r \in Old : handle[r] # None
    /\ lastid \in Nat
    /\ ruleid \in [All -> 0..lastid]

IdsDiffer == \A r, s \in All : ruleid[r] # None /\ ruleid[r] = ruleid[s] => r = s

IdsGiven ==
    \A i \in DOMAIN cmds :
        cmds[i].id # None => \E j \in 1..(i - 1) : ruleid[New(j)] = cmds[i].id

IdInv == TypeInv /\ IdsDiffer /\ IdsGiven

(***************************************************************************)
(* Places in a list.                                                       *)
(***************************************************************************)
LEMMA MinIn == ASSUME NEW S \in SUBSET Nat, S # {} PROVE Min(S) \in S
BY Least DEF Min

\* The place of a rule that is in a list.
LEMMA AtIn ==
    ASSUME NEW S, NEW list \in Seq(S), NEW r, NEW i \in 1..Len(list), list[i] = r
    PROVE  At(list, r) \in 1..Len(list)
<1>. DEFINE I == {k \in 1..Len(list) : list[k] = r}
<1>1. I \in SUBSET Nat /\ I # {} /\ I \subseteq 1..Len(list)
  BY LenProperties
<1>2. Min(I) \in I
  BY <1>1, MinIn
<1>. QED BY <1>1, <1>2 DEF At, SelectInSeq

\* A list with one more rule.
LEMMA InsertedIn ==
    ASSUME NEW S, NEW list \in Seq(S), NEW i \in 1..(Len(list) + 1), NEW e \in S
    PROVE  InsertAt(list, i, e) \in Seq(S)
<1>. Len(list) \in Nat /\ \A k \in 1..Len(list) : list[k] \in S
  BY LenProperties, ElementOfSeq
<1>1. SubSeq(list, 1, i - 1) \in Seq(S)
  BY SubSeqProperties
<1>2. SubSeq(list, i, Len(list)) \in Seq(S)
  BY SubSeqProperties
<1>3. <<e>> \in Seq(S)
  OBVIOUS
<1>. QED BY <1>1, <1>2, <1>3, ConcatProperties DEF InsertAt

(***************************************************************************)
(* What a command refers to.                                               *)
(***************************************************************************)
LEMMA CommandShape ==
    ASSUME NEW c \in Commands
    PROVE  /\ c.op \in {"add", "insert", "flush", "replace", "delete"}
           /\ c.at \in Nat
           /\ c.by = "handle" => c.at \in Old
           /\ c.by = "index" => c.at >= 1
           /\ c.by \in {"none", "index", "handle"}
           /\ c.op \in {"replace", "delete"} => c.by = "handle"
BY BoundAssumption DEF Commands, Placed, Old, None

\* A rule that was found is in the list.
LEMMA LookupIn ==
    ASSUME TypeInv, NEW c \in Commands, Lookup(c) # None
    PROVE  \E i \in 1..Len(cached) : cached[i] = Lookup(c)
<1>. c.by \in {"none", "index", "handle"} /\ c.at \in Nat /\ (c.by = "index" => c.at >= 1)
  BY CommandShape
<1>1. Len(cached) \in Nat
  BY LenProperties DEF TypeInv
<1>2. CASE c.by # "handle"
  <2>1. c.by # "none" /\ c.at <= Len(cached) /\ Lookup(c) = cached[c.at]
    BY <1>2 DEF Lookup
  <2>2. c.at \in 1..Len(cached)
    BY <1>1, <1>2, <2>1
  <2>. QED BY <2>1, <2>2
<1>3. CASE c.by = "handle"
  <2>. DEFINE I == {k \in 1..Len(cached) : handle[cached[k]] = c.at}
              i == SelectInSeq(cached, LAMBDA r : handle[r] = c.at)
  <2>1. i = IF I # {} THEN Min(I) ELSE 0
    BY DEF SelectInSeq
  <2>2. Lookup(c) = IF i = 0 THEN None ELSE cached[i]
    BY <1>3 DEF Lookup
  <2>3. I \in SUBSET Nat /\ I \subseteq 1..Len(cached)
    BY <1>1
  <2>4. I # {} => Min(I) \in I
    BY <2>3, MinIn
  <2>5. i # 0 /\ I # {}
    BY <2>1, <2>2
  <2>6. i \in 1..Len(cached)
    BY <2>1, <2>3, <2>4, <2>5
  <2>. QED BY <2>2, <2>5, <2>6
<1>. QED BY <1>2, <1>3

\* It is a rule of the kernel, or of a command before.
LEMMA RefIn ==
    ASSUME TypeInv, NEW c \in Commands, Lookup(c) # None
    PROVE  /\ Lookup(c) \in Rules(Len(cmds)) /\ Lookup(c) \in All /\ Lookup(c) \in Nat
           /\ At(cached, Lookup(c)) \in 1..Len(cached)
           /\ handle[Lookup(c)] = None => \E j \in 1..Len(cmds) : Lookup(c) = New(j)
<1>1. PICK i \in 1..Len(cached) : cached[i] = Lookup(c)
  BY LookupIn
<1>2. Lookup(c) \in Rules(Len(cmds)) /\ At(cached, Lookup(c)) \in 1..Len(cached)
  BY <1>1, AtIn, ElementOfSeq DEF TypeInv
<1>3. Len(cmds) \in 0..MaxCommands
  BY LenProperties, BoundAssumption DEF TypeInv
<1>4. Lookup(c) \in Nat /\ Lookup(c) \in All
  BY <1>2, <1>3, BoundAssumption DEF Rules, All
<1>5. ASSUME handle[Lookup(c)] = None PROVE \E j \in 1..Len(cmds) : Lookup(c) = New(j)
  <2>1. Lookup(c) > MaxRules
    BY <1>2, <1>4, <1>5, BoundAssumption DEF TypeInv, Old, Rules
  <2>2. Lookup(c) - MaxRules \in 1..Len(cmds)
    BY <1>2, <1>3, <2>1, BoundAssumption DEF Rules
  <2>3. Lookup(c) = New(Lookup(c) - MaxRules)
    BY <1>4, <2>2, BoundAssumption DEF New
  <2>. QED BY <2>2, <2>3
<1>. QED BY <1>2, <1>4, <1>5

(***************************************************************************)
(* One more command: there is room for its rule, and what it refers to by  *)
(* id has to come before it.                                               *)
(***************************************************************************)
LEMMA RoomFor ==
    ASSUME TypeInv, Len(cmds) < MaxCommands
    PROVE  /\ Len(cmds) \in Nat
           /\ New(Len(cmds) + 1) \in Rules(Len(cmds) + 1) /\ New(Len(cmds) + 1) \in All
           /\ cached \in Seq(Rules(Len(cmds) + 1))
<1>1. Len(cmds) \in Nat
  BY LenProperties DEF TypeInv
<1>2. Rules(Len(cmds)) \subseteq Rules(Len(cmds) + 1)
  BY <1>1, BoundAssumption DEF Rules
<1>3. cached \in Seq(Rules(Len(cmds) + 1))
  BY <1>2, SeqMonotonic DEF TypeInv
<1>4. New(Len(cmds) + 1) \in Rules(Len(cmds) + 1) /\ New(Len(cmds) + 1) \in All
  BY <1>1, BoundAssumption DEF New, Rules, All
<1>. QED BY <1>1, <1>3, <1>4

\* The batch with one more command.
LEMMA Appended ==
    ASSUME IdInv, Len(cmds) < MaxCommands, NEW e \in Entry, cmds' = Append(cmds, e),
           \A r \in All : ruleid[r] # None => ruleid'[r] = ruleid[r],
           e.id # None => \E j \in 1..Len(cmds) : ruleid'[New(j)] = e.id
    PROVE  /\ cmds' \in Seq(Entry) /\ Len(cmds') = Len(cmds) + 1 /\ Len(cmds') <= MaxCommands
           /\ IdsGiven'
<1>1. Len(cmds) \in Nat /\ DOMAIN cmds = 1..Len(cmds)
  BY LenProperties DEF IdInv, TypeInv
<1>2. /\ cmds' \in Seq(Entry) /\ Len(cmds') = Len(cmds) + 1
      /\ \A i \in 1..Len(cmds) : cmds'[i] = cmds[i]
      /\ cmds'[Len(cmds) + 1] = e
  BY AppendProperties DEF IdInv, TypeInv
<1>3. DOMAIN cmds' = 1..(Len(cmds) + 1)
  BY <1>2, LenProperties
<1>4. Len(cmds') <= MaxCommands
  BY <1>1, <1>2, BoundAssumption
<1>5. ASSUME NEW i \in DOMAIN cmds', cmds'[i].id # None
      PROVE  \E j \in 1..(i - 1) : ruleid'[New(j)] = cmds'[i].id
  <2>1. CASE i = Len(cmds) + 1
    BY <1>1, <1>2, <1>5, <2>1
  <2>2. CASE i # Len(cmds) + 1
    <3>1. i \in 1..Len(cmds) /\ cmds'[i] = cmds[i]
      BY <1>1, <1>2, <1>3, <2>2
    <3>2. PICK j \in 1..(i - 1) : ruleid[New(j)] = cmds[i].id
      BY <1>1, <1>5, <3>1 DEF IdInv, IdsGiven
    <3>3. New(j) \in All
      BY <1>1, <3>1, BoundAssumption DEF New, All, IdInv, TypeInv
    <3>. QED BY <1>5, <3>1, <3>2, <3>3
  <2>. QED BY <2>1, <2>2
<1>. QED BY <1>2, <1>4, <1>5 DEF IdsGiven

\* A rule gets its id once, and one no other rule has.
LEMMA Linked ==
    ASSUME IdInv, NEW ref \in All, ruleid' = Link(ref),
           lastid' = IF Link(ref) = ruleid THEN lastid ELSE lastid + 1
    PROVE  /\ lastid' \in Nat /\ ruleid' \in [All -> 0..lastid'] /\ IdsDiffer'
           /\ \A r \in All : ruleid[r] # None => ruleid'[r] = ruleid[r]
           /\ Link(ref)[ref] \in Nat
<1>1. lastid \in Nat /\ ruleid \in [All -> 0..lastid]
  BY DEF IdInv, TypeInv
<1>2. CASE ruleid[ref] # None
  <2>1. ruleid' = ruleid /\ lastid' = lastid
    BY <1>2 DEF Link
  <2>2. Link(ref)[ref] \in Nat
    BY <1>1, <1>2 DEF Link
  <2>. QED BY <1>1, <2>1, <2>2 DEF IdInv, IdsDiffer
<1>3. CASE ruleid[ref] = None
  <2>1. ruleid' = [ruleid EXCEPT ![ref] = lastid + 1] /\ Link(ref) = ruleid'
    BY <1>3 DEF Link
  <2>2. ruleid'[ref] = lastid + 1 /\ \A r \in All : r # ref => ruleid'[r] = ruleid[r]
    BY <1>1, <2>1
  <2>3. lastid' = lastid + 1
    BY <1>1, <1>3, <2>1, <2>2 DEF None
  <2>4. ruleid' \in [All -> 0..lastid']
    BY <1>1, <2>1, <2>3
  <2>5. \A r \in All : ruleid[r] <= lastid
    BY <1>1
  <2>6. ASSUME NEW r \in All, NEW s \in All, ruleid'[r] # None, ruleid'[r] = ruleid'[s]
        PROVE  r = s
    BY <1>1, <2>2, <2>5, <2>6 DEF IdInv, IdsDiffer
  <2>. QED BY <1>1, <1>3, <2>1, <2>2, <2>3, <2>4, <2>6 DEF IdsDiffer
<1>. QED BY <1>2, <1>3

(***************************************************************************)
(* The steps.                                                              *)
(***************************************************************************)
LEMMA RuleStep ==
    ASSUME IdInv, NEW c \in Commands, EvaluateRule(c)
    PROVE  IdInv'
<1>. DEFINE ref == Lookup(c)
            new == New(Len(cmds) + 1)
<1>1. CASE c.by # "none" /\ ref = None
  <2>1. UNCHANGED <<cached, ruleid, lastid, cmds, handle>>
    BY <1>1 DEF EvaluateRule
  <2>. QED BY <2>1 DEF IdInv, TypeInv, IdsDiffer, IdsGiven
<1>2. CASE ~ (c.by # "none" /\ ref = None)
  <2>1. /\ Len(cmds) < MaxCommands
        /\ cached' = CachedAfter(c, ref, new)
        /\ cmds' = Append(cmds, Resolved(c, ref))
        /\ handle' = handle
        /\ IF c.by = "index" /\ handle[ref] = None
           THEN /\ ruleid' = Link(ref)
                /\ lastid' = IF Link(ref) = ruleid THEN lastid ELSE lastid + 1
           ELSE UNCHANGED <<ruleid, lastid>>
    BY <1>2 DEF EvaluateRule, Room
  <2>2. ref # None =>
            /\ ref \in All /\ ref \in Nat /\ At(cached, ref) \in 1..Len(cached)
            /\ handle[ref] = None => \E j \in 1..Len(cmds) : ref = New(j)
    BY RefIn DEF IdInv
  <2>3. /\ c.by \in {"none", "index", "handle"} /\ c.at \in Nat
        /\ c.by = "index" => ref # None
    BY <1>2, CommandShape
  <2>4. /\ Len(cmds) \in Nat /\ new \in Rules(Len(cmds) + 1)
        /\ cached \in Seq(Rules(Len(cmds) + 1))
    BY <2>1, RoomFor DEF IdInv
  <2>5. cached' \in Seq(Rules(Len(cmds) + 1))
    <3>. HIDE DEF ref, new
    <3>1. Len(cached) \in Nat
      BY <2>4, LenProperties
    <3>2. Append(cached, new) \in Seq(Rules(Len(cmds) + 1))
      BY <2>4, AppendProperties
    <3>3. <<new>> \o cached \in Seq(Rules(Len(cmds) + 1))
      BY <2>4, ConcatProperties
    <3>4. ref # None => /\ Before(cached, ref, new) \in Seq(Rules(Len(cmds) + 1))
                        /\ After(cached, ref, new) \in Seq(Rules(Len(cmds) + 1))
      <4>. SUFFICES ASSUME ref # None
                    PROVE  /\ Before(cached, ref, new) \in Seq(Rules(Len(cmds) + 1))
                           /\ After(cached, ref, new) \in Seq(Rules(Len(cmds) + 1))
        OBVIOUS
      <4>. DEFINE i == At(cached, ref)
      <4>1. i \in 1..(Len(cached) + 1) /\ i + 1 \in 1..(Len(cached) + 1)
        BY <2>2, <3>1
      <4>. HIDE DEF i
      <4>2. /\ InsertAt(cached, i, new) \in Seq(Rules(Len(cmds) + 1))
            /\ InsertAt(cached, i + 1, new) \in Seq(Rules(Len(cmds) + 1))
        BY <2>4, <4>1, InsertedIn
      <4>. QED BY <4>2 DEF i, Before, After
    <3>. QED BY <2>1, <3>2, <3>3, <3>4 DEF CachedAfter
  <2>6. /\ lastid' \in Nat /\ ruleid' \in [All -> 0..lastid'] /\ IdsDiffer'
        /\ \A r \in All : ruleid[r] # None => ruleid'[r] = ruleid[r]
        /\ c.by = "index" /\ handle[ref] = None => Link(ref)[ref] \in Nat
    <3>1. CASE c.by = "index" /\ handle[ref] = None
      BY <2>1, <2>2, <2>3, <3>1, Linked
    <3>2. CASE ~ (c.by = "index" /\ handle[ref] = None)
      BY <2>1, <3>2 DEF IdInv, TypeInv, IdsDiffer
    <3>. QED BY <3>1, <3>2
  <2>7. /\ Resolved(c, ref) \in Entry
        /\ Resolved(c, ref).id # None =>
               \E j \in 1..Len(cmds) : ruleid'[New(j)] = Resolved(c, ref).id
    <3>0. ref \in Nat
      BY <2>2 DEF None
    <3>1. CASE c.by = "index" /\ handle[ref] = None
      <4>1. Resolved(c, ref) = [cmd |-> c, ref |-> ref, position |-> None, id |-> Link(ref)[ref]]
        BY <3>1 DEF Resolved
      <4>2. \E j \in 1..Len(cmds) : ref = New(j)
        BY <2>2, <2>3, <3>1
      <4>. QED BY <2>1, <2>6, <3>0, <3>1, <4>1, <4>2 DEF Entry, None
    <3>2. CASE ~ (c.by = "index" /\ handle[ref] = None)
      <4>1. Resolved(c, ref) =
                [cmd |-> c, ref |-> ref,
                 position |-> IF c.by = "index" THEN handle[ref] ELSE c.at, id |-> None]
        BY <3>2 DEF Resolved
      <4>2. c.by = "index" => handle[ref] \in Nat
        BY <2>2, <2>3, BoundAssumption DEF IdInv, TypeInv
      <4>. QED BY <2>3, <3>0, <4>1, <4>2 DEF Entry, None
    <3>. QED BY <3>1, <3>2
  <2>8. /\ cmds' \in Seq(Entry) /\ Len(cmds') = Len(cmds) + 1 /\ Len(cmds') <= MaxCommands
        /\ IdsGiven'
    <3>. HIDE DEF ref
    <3>. QED BY <2>1, <2>6, <2>7, Appended
  <2>. QED BY <2>1, <2>5, <2>6, <2>8 DEF IdInv, TypeInv
<1>. QED BY <1>1, <1>2

\* rule_cache_update for replace.
LEMMA ReplaceStep ==
    ASSUME IdInv, NEW c \in Commands, EvaluateReplace(c)
    PROVE  IdInv'
<1>. DEFINE ref == Lookup(c)
            new == New(Len(cmds) + 1)
<1>1. CASE ref = None
  <2>1. UNCHANGED <<cached, ruleid, lastid, cmds, handle>>
    BY <1>1 DEF EvaluateReplace
  <2>. QED BY <2>1 DEF IdInv, TypeInv, IdsDiffer, IdsGiven
<1>2. CASE ref # None
  <2>1. /\ Len(cmds) < MaxCommands /\ c.op = "replace"
        /\ cached' = [cached EXCEPT ![At(cached, ref)] = new]
        /\ handle' = [handle EXCEPT ![new] = c.at]
        /\ cmds' = Append(cmds, Resolved(c, ref))
        /\ UNCHANGED <<ruleid, lastid>>
    BY <1>2 DEF EvaluateReplace, Room
  <2>2. c.by = "handle" /\ c.at \in Old /\ c.at \in Nat
    BY <2>1, CommandShape
  <2>3. ref \in Nat /\ At(cached, ref) \in 1..Len(cached)
    BY <1>2, RefIn DEF IdInv
  <2>4. /\ Len(cmds) \in Nat /\ new \in Rules(Len(cmds) + 1) /\ new \in All
        /\ cached \in Seq(Rules(Len(cmds) + 1))
    BY <2>1, RoomFor DEF IdInv
  <2>5. cached' \in Seq(Rules(Len(cmds) + 1))
    <3>. HIDE DEF ref, new
    <3>. QED BY <2>1, <2>3, <2>4, ExceptSeq
  <2>6. handle' \in [All -> 0..MaxRules] /\ \A r \in Old : handle'[r] # None
    <3>. HIDE DEF new
    <3>1. c.at \in 0..MaxRules /\ c.at # None
      BY <2>2, BoundAssumption DEF Old, None
    <3>2. Old \subseteq All
      BY BoundAssumption DEF Old, All
    <3>. QED BY <2>1, <2>4, <3>1, <3>2 DEF IdInv, TypeInv
  <2>7. Resolved(c, ref) \in Entry /\ Resolved(c, ref).id = None
    BY <2>2, <2>3 DEF Resolved, Entry, None
  <2>8. /\ cmds' \in Seq(Entry) /\ Len(cmds') = Len(cmds) + 1 /\ Len(cmds') <= MaxCommands
        /\ IdsGiven'
    <3>. HIDE DEF ref
    <3>. QED BY <2>1, <2>7, Appended
  <2>. QED BY <2>1, <2>5, <2>6, <2>8 DEF IdInv, TypeInv, IdsDiffer
<1>. QED BY <1>1, <1>2

\* Commands that leave the list alone.
LEMMA PassStep ==
    ASSUME IdInv, NEW c \in Commands, PassOver(c)
    PROVE  IdInv'
<1>. DEFINE e == Unresolved(c)
<1>1. /\ Len(cmds) < MaxCommands /\ cmds' = Append(cmds, e)
      /\ UNCHANGED <<cached, handle, ruleid, lastid>>
  BY DEF PassOver, Room
<1>2. e \in Entry /\ e.id = None
  BY CommandShape DEF Unresolved, Entry, None
<1>3. cached \in Seq(Rules(Len(cmds) + 1))
  BY <1>1, RoomFor DEF IdInv
<1>4. /\ cmds' \in Seq(Entry) /\ Len(cmds') = Len(cmds) + 1 /\ Len(cmds') <= MaxCommands
      /\ IdsGiven'
  <2>. HIDE DEF e
  <2>. QED BY <1>1, <1>2, Appended
<1>. QED BY <1>1, <1>3, <1>4 DEF IdInv, TypeInv, IdsDiffer

\* Steps of others, and of the kernel.
LEMMA OtherStep ==
    ASSUME IdInv, UNCHANGED <<cached, handle, ruleid, lastid, cmds>>
    PROVE  IdInv'
BY DEF IdInv, TypeInv, IdsDiffer, IdsGiven

\* No command has been evaluated at first.
LEMMA InitInv == Init => IdInv
<1>. SUFFICES ASSUME Init PROVE IdInv
  OBVIOUS
<1>1. cmds \in Seq(Entry) /\ Len(cmds) = 0 /\ DOMAIN cmds = {}
  BY DEF Init
<1>2. PICK k \in 0..MaxRules : cached = [i \in 1..k |-> i]
  BY DEF Init
<1>3. cached \in Seq(Rules(0))
  BY <1>2, SeqDef, BoundAssumption DEF Rules
<1>4. handle \in [All -> 0..MaxRules] /\ \A r \in Old : handle[r] # None
  BY BoundAssumption DEF Init, All, Old, None
<1>5. lastid = 0 /\ ruleid = [r \in All |-> 0]
  BY DEF Init, None
<1>. QED BY <1>1, <1>3, <1>4, <1>5, BoundAssumption DEF IdInv, TypeInv, IdsDiffer, IdsGiven, None

\* What goes with the commands is well formed, ids are given once, and
\* only to rules of commands before, however long the batch is.
THEOREM Inductive == Spec => []IdInv
<1>1. ASSUME IdInv, [Next]_vars PROVE IdInv'
  <2>1. ASSUME NEW c \in Commands, EvaluateRule(c) \/ EvaluateReplace(c) \/ PassOver(c)
        PROVE  IdInv'
    BY <1>1, <2>1, RuleStep, ReplaceStep, PassStep
  <2>2. CASE EndOfBatch \/ Others
    BY <1>1, <2>2, OtherStep DEF EndOfBatch, Others
  <2>3. CASE SendRule \/ SendDelete \/ SendFlush \/ Commit
    BY <1>1, <2>3, OtherStep DEF SendRule, SendDelete, SendFlush, Commit
  <2>4. CASE UNCHANGED vars
    BY <1>1, <2>4, OtherStep DEF vars
  <2>. QED BY <1>1, <2>1, <2>2, <2>3, <2>4 DEF Next
<1>. QED BY <1>1, InitInv, PTL DEF Spec

\* An id that is given once is found once.
LEMMA Resolves == IdInv => IdsResolve
<1>. SUFFICES ASSUME IdInv, NEW i \in DOMAIN cmds, cmds[i].id # None
              PROVE  Cardinality({j \in 1..(i - 1) : ruleid[New(j)] = cmds[i].id}) = 1
  BY DEF IdsResolve
<1>1. i \in 1..Len(cmds) /\ Len(cmds) \in Nat /\ Len(cmds) <= MaxCommands
  BY LenProperties DEF IdInv, TypeInv
<1>2. PICK j \in 1..(i - 1) : ruleid[New(j)] = cmds[i].id
  BY DEF IdInv, IdsGiven
<1>3. \A k \in 1..(i - 1) : New(k) \in All
  BY <1>1, BoundAssumption DEF New, All
<1>4. \A k \in 1..(i - 1) : ruleid[New(k)] = cmds[i].id => New(k) = New(j)
  BY <1>2, <1>3 DEF IdInv, IdsDiffer
<1>5. \A k \in 1..(i - 1) : New(k) = New(j) => k = j
  BY <1>1, BoundAssumption DEF New
<1>6. {k \in 1..(i - 1) : ruleid[New(k)] = cmds[i].id} = {j}
  BY <1>2, <1>4, <1>5
<1>. QED BY <1>6, FS_Singleton

\* A rule referred to by id is one rule, and its message is before the one
\* that refers to it: the kernel never gets an id it does not know.
THEOREM IdsAlwaysResolve == Spec => []IdsResolve
BY Inductive, Resolves, PTL

(***************************************************************************)
(* Where the rules are.  A rule is once in a list; before the batch the    *)
(* chain holds rules of the kernel, old and of others, and while the batch *)
(* is carried out those of the messages that were.                         *)
(***************************************************************************)
Once(list) == \A p, q \in DOMAIN list : list[p] = list[q] => p = q
Ahead(list, r, s) == \E p, q \in DOMAIN list : p < q /\ list[p] = r /\ list[q] = s
Known(n) == Old \cup {Foreign(m) : m \in 1..n}
Sent(n) == {New(i) : i \in 1..n}
Deletes(n) == \E j \in 1..n : cmds[j].cmd.op \in {"delete", "flush"}

\* A handle is one the kernel has given, or that of the rule replaced.
HandlesGiven ==
    \A r \in All : handle[r] # None =>
        \/ r \in Old /\ handle[r] = r
        \/ \E j \in DOMAIN cmds : cmds[j].cmd.op = "replace" /\ r = New(j)

HandlesDiffer ==
    \A p, q \in DOMAIN cached :
        handle[cached[p]] # None /\ handle[cached[p]] = handle[cached[q]] => p = q

\* What goes with a command tells which rule it refers to, if that was looked
\* up.
RefsTold ==
    \A i \in DOMAIN cmds :
        LET e == cmds[i]
        IN  IF Indexed(i)
            THEN \/ e.ref \in Old /\ e.position = e.ref /\ e.id = None
                 \/ /\ e.position = None /\ e.id # None /\ ruleid[e.ref] = e.id
                    /\ \E j \in 1..(i - 1) : e.ref = New(j)
                 \/ e.position # None /\ HitsReplacing(i)
                 \/ e.ref = None /\ e.position = None /\ e.id = None
            ELSE e.position = e.cmd.at /\ e.id = None

\* An index that was looked up, and does not hit a rule that replaces another.
Told(i) == Indexed(i) /\ cmds[i].ref # None /\ ~HitsReplacing(i)

\* As long as nothing is deleted, the list that nft updates is the chain the
\* commands mean.
ListMeant ==
    updating /\ phase = "evaluate" /\ ~Deletes(Len(cmds)) /\ MeantBy(Len(cmds)) # <<None>> =>
        cached = MeantBy(Len(cmds))

\* An index that is looked up is counted in the chain the commands before mean.
RefsMeant ==
    \A i \in DOMAIN cmds :
        Indexed(i) /\ cmds[i].ref # None /\ ~Deletes(i - 1) /\ MeantBy(i - 1) # <<None>> =>
            /\ cmds[i].cmd.at \in 1..Len(MeantBy(i - 1))
            /\ cmds[i].ref = MeantBy(i - 1)[cmds[i].cmd.at]

Chains ==
    /\ start \in Seq(Nat) /\ moved \in Nat
    /\ phase \in {"evaluate", "send"} =>
        /\ chain \in Seq(Nat) /\ Once(chain) /\ ToSet(chain) \subseteq Known(moved)
        /\ moved = 0 => chain = start
    /\ phase = "evaluate" => sent = 0 /\ dead = {}

Carried ==
    phase \in {"send", "committed", "refused"} =>
        /\ sent \in 0..Len(cmds)
        /\ next \in Seq(Nat) /\ Once(next) /\ ToSet(next) \subseteq Known(moved) \cup Sent(sent)
        /\ dead \subseteq ToSet(next)
        /\ phase = "committed" => sent = Len(cmds) /\ chain = Without(next, dead)

\* Every index is looked up while the list is updated, and it is if the batch
\* asks for it.
RefsFound == updating => \A i \in DOMAIN cmds : Indexed(i) => cmds[i].ref # None
FlagTrue == phase \in {"send", "committed", "refused"} /\ Updates(cmds) => updating

\* Rules that were put by an index are where the index says.
OrderKept ==
    phase \in {"send", "committed", "refused"} =>
        \A i \in 1..sent :
            Told(i) =>
                IF cmds[i].cmd.op = "add"
                THEN Ahead(next, cmds[i].ref, New(i))
                ELSE Ahead(next, New(i), cmds[i].ref)

PlaceInv == IdInv /\ HandlesGiven /\ RefsTold /\ Chains /\ Carried /\ OrderKept

\* The chain as the transaction leaves it is the one the commands mean.
KeptMeant ==
    moved = 0 /\ ~Miscounted /\ ~IndexLost /\ phase \in {"send", "committed", "refused"}
    /\ MeantBy(Len(cmds)) # <<None>> =>
        phase # "refused" /\ Without(next, dead) = MeantBy(sent)

MeantInv ==
    PlaceInv /\ HandlesDiffer /\ ListMeant /\ RefsMeant /\ RefsFound /\ FlagTrue /\ KeptMeant

(***************************************************************************)
(* Lists with one rule more, or one less.                                  *)
(***************************************************************************)

\* What is where in a list with one more rule.
LEMMA Inserted ==
    ASSUME NEW list \in Seq(Nat), NEW i \in 1..(Len(list) + 1), NEW e \in Nat
    PROVE  /\ InsertAt(list, i, e) \in Seq(Nat) /\ Len(InsertAt(list, i, e)) = Len(list) + 1
           /\ \A k \in 1..(Len(list) + 1) :
                  InsertAt(list, i, e)[k] =
                      IF k < i THEN list[k] ELSE IF k = i THEN e ELSE list[k - 1]
<1>. DEFINE len == Len(list)
            front == SubSeq(list, 1, i - 1)
            rear == SubSeq(list, i, len)
<1>1. len \in Nat /\ \A k \in 1..len : list[k] \in Nat
  BY LenProperties, ElementOfSeq
<1>2. /\ front \in Seq(Nat) /\ Len(front) = i - 1
      /\ \A k \in 1..(i - 1) : front[k] = list[k]
  <2>1. /\ front \in Seq(Nat) /\ Len(front) = IF 1 <= i - 1 THEN (i - 1) - 1 + 1 ELSE 0
        /\ \A k \in 1..((i - 1) - 1 + 1) : front[k] = list[1 + k - 1]
    BY <1>1, SubSeqProperties
  <2>. HIDE DEF front, len
  <2>2. \A k \in 1..(i - 1) : 1 + k - 1 = k
    BY <1>1
  <2>. QED BY <1>1, <2>1, <2>2 DEF len
<1>3. /\ rear \in Seq(Nat) /\ Len(rear) = len - i + 1
      /\ \A k \in 1..(len - i + 1) : rear[k] = list[i + k - 1]
  <2>1. /\ rear \in Seq(Nat) /\ Len(rear) = IF i <= len THEN len - i + 1 ELSE 0
        /\ \A k \in 1..(len - i + 1) : rear[k] = list[i + k - 1]
    BY <1>1, SubSeqProperties
  <2>. HIDE DEF rear, len
  <2>. QED BY <1>1, <2>1 DEF len
<1>4. /\ <<e>> \in Seq(Nat) /\ Len(<<e>>) = 1 /\ <<e>>[1] = e
  OBVIOUS
<1>. HIDE DEF front, rear
<1>5. /\ front \o <<e>> \in Seq(Nat) /\ Len(front \o <<e>>) = i
      /\ \A k \in 1..i : (front \o <<e>>)[k] = IF k < i THEN list[k] ELSE e
  <2>1. /\ front \o <<e>> \in Seq(Nat) /\ Len(front \o <<e>>) = Len(front) + Len(<<e>>)
        /\ \A k \in 1..(Len(front) + Len(<<e>>)) :
               (front \o <<e>>)[k] =
                   IF k <= Len(front) THEN front[k] ELSE <<e>>[k - Len(front)]
    BY <1>2, <1>4, ConcatProperties
  <2>. DEFINE l == front \o <<e>>
  <2>. HIDE DEF l
  <2>. QED BY <1>1, <1>2, <1>4, <2>1 DEF l
<1>6. InsertAt(list, i, e) = (front \o <<e>>) \o rear
  BY DEF InsertAt, front, rear
<1>. DEFINE l == front \o <<e>>
<1>a. l \in Seq(Nat) /\ Len(l) = i
  BY <1>5
<1>. HIDE DEF l
<1>7. /\ l \o rear \in Seq(Nat) /\ Len(l \o rear) = Len(l) + Len(rear)
      /\ \A k \in 1..(Len(l) + Len(rear)) :
             (l \o rear)[k] = IF k <= Len(l) THEN l[k] ELSE rear[k - Len(l)]
  BY <1>3, <1>a, ConcatProperties
<1>. HIDE DEF len
<1>8. Len(l) = i /\ Len(l) + Len(rear) = len + 1
  BY <1>1, <1>3, <1>a DEF len
<1>9. ASSUME NEW k \in 1..(len + 1)
      PROVE  (l \o rear)[k] = IF k < i THEN list[k] ELSE IF k = i THEN e ELSE list[k - 1]
  <2>1. CASE k <= i
    <3>1. (l \o rear)[k] = l[k]
      BY <1>7, <1>8, <2>1
    <3>. QED BY <1>5, <2>1, <3>1 DEF l
  <2>2. CASE ~ (k <= i)
    <3>1. k - i \in 1..(len - i + 1) /\ i + (k - i) - 1 = k - 1
      BY <1>1, <2>2 DEF len
    <3>2. (l \o rear)[k] = rear[k - i]
      BY <1>7, <1>8, <2>2
    <3>3. rear[k - i] = list[i + (k - i) - 1]
      BY <1>3, <3>1
    <3>. QED BY <2>2, <3>1, <3>2, <3>3
  <2>. QED BY <2>1, <2>2
<1>. QED BY <1>6, <1>7, <1>8, <1>9 DEF l, len

\* A new rule leaves the others in their order.
LEMMA InsertedOnce ==
    ASSUME NEW list \in Seq(Nat), Once(list), NEW i \in 1..(Len(list) + 1),
           NEW e \in Nat, e \notin ToSet(list)
    PROVE  LET longer == InsertAt(list, i, e)
           IN  /\ longer \in Seq(Nat) /\ Once(longer) /\ ToSet(longer) = ToSet(list) \cup {e}
               /\ \A r, s : Ahead(list, r, s) => Ahead(longer, r, s)
               /\ \A k \in 1..(i - 1) : Ahead(longer, list[k], e)
               /\ \A k \in i..Len(list) : Ahead(longer, e, list[k])
<1>. DEFINE len == Len(list)
            longer == InsertAt(list, i, e)
<1>1. len \in Nat /\ DOMAIN list = 1..len
  BY LenProperties
<1>2. /\ longer \in Seq(Nat) /\ Len(longer) = len + 1
      /\ \A k \in 1..(len + 1) :
             longer[k] = IF k < i THEN list[k] ELSE IF k = i THEN e ELSE list[k - 1]
  BY Inserted
<1>3. DOMAIN longer = 1..(len + 1)
  BY <1>2, LenProperties
<1>4. i \in 1..(len + 1) /\ \A k \in 1..len : list[k] # e
  BY <1>1 DEF ToSet
<1>5. \A p, q \in 1..len : list[p] = list[q] => p = q
  BY <1>1 DEF Once
<1>. HIDE DEF len, longer
<1>6. \A k \in 1..len : /\ k < i => k \in 1..(len + 1) /\ longer[k] = list[k]
                        /\ k >= i => k + 1 \in 1..(len + 1) /\ longer[k + 1] = list[k]
  BY <1>1, <1>2, <1>4
<1>7. longer[i] = e
  BY <1>2, <1>4
<1>8. Once(longer)
  <2>1. ASSUME NEW p \in 1..(len + 1), NEW q \in 1..(len + 1), longer[p] = longer[q] PROVE p = q
    <3>. DEFINE P == IF p < i THEN p ELSE p - 1
                Q == IF q < i THEN q ELSE q - 1
    <3>1. p # i => P \in 1..len /\ longer[p] = list[P]
      BY <1>1, <1>2, <1>4
    <3>2. q # i => Q \in 1..len /\ longer[q] = list[Q]
      BY <1>1, <1>2, <1>4
    <3>3. CASE p = i \/ q = i
      BY <1>4, <1>7, <2>1, <3>1, <3>2, <3>3
    <3>4. CASE p # i /\ q # i
      <4>1. P = Q
        BY <1>5, <2>1, <3>1, <3>2, <3>4
      <4>. QED BY <1>1, <1>4, <3>4, <4>1
    <3>. QED BY <3>3, <3>4
  <2>. QED BY <1>3, <2>1 DEF Once
<1>9. ToSet(longer) = ToSet(list) \cup {e}
  <2>1. ASSUME NEW x \in ToSet(longer) PROVE x \in ToSet(list) \cup {e}
    <3>1. PICK k \in 1..(len + 1) : x = longer[k]
      BY <1>3 DEF ToSet
    <3>2. k < i => k \in 1..len
      BY <1>1, <1>4
    <3>3. k > i => k - 1 \in 1..len
      BY <1>1, <1>4
    <3>4. x = list[k] \/ x = e \/ x = list[k - 1]
      BY <1>2, <3>1
    <3>5. CASE k < i
      BY <1>1, <1>2, <3>1, <3>2, <3>5 DEF ToSet
    <3>6. CASE k = i
      BY <1>7, <3>1, <3>6
    <3>7. CASE k > i
      <4>1. x = list[k - 1]
        BY <1>2, <1>4, <3>1, <3>7
      <4>. QED BY <1>1, <3>3, <3>7, <4>1 DEF ToSet
    <3>. QED BY <1>4, <3>5, <3>6, <3>7
  <2>2. ASSUME NEW k \in 1..len PROVE list[k] \in ToSet(longer)
    <3>1. CASE k < i
      BY <1>3, <1>6, <3>1 DEF ToSet
    <3>2. CASE k >= i
      BY <1>3, <1>6, <3>2 DEF ToSet
    <3>. QED BY <1>4, <3>1, <3>2
  <2>3. e \in ToSet(longer)
    BY <1>3, <1>4, <1>7 DEF ToSet
  <2>. QED BY <1>1, <2>1, <2>2, <2>3 DEF ToSet
<1>10. ASSUME NEW r, NEW s, Ahead(list, r, s) PROVE Ahead(longer, r, s)
  <2>1. PICK p \in 1..len, q \in 1..len : p < q /\ list[p] = r /\ list[q] = s
    BY <1>1, <1>10 DEF Ahead
  <2>. DEFINE P == IF p < i THEN p ELSE p + 1
              Q == IF q < i THEN q ELSE q + 1
  <2>2. P \in 1..(len + 1) /\ Q \in 1..(len + 1) /\ P < Q
    BY <1>1, <1>4, <2>1
  <2>3. longer[P] = r /\ longer[Q] = s
    BY <1>4, <1>6, <2>1
  <2>. QED BY <1>3, <2>2, <2>3 DEF Ahead
<1>11. ASSUME NEW k \in 1..(i - 1) PROVE Ahead(longer, list[k], e)
  <2>1. k \in 1..len /\ k < i
    BY <1>1, <1>4
  <2>. QED BY <1>3, <1>4, <1>6, <1>7, <2>1 DEF Ahead
<1>12. ASSUME NEW k \in i..len PROVE Ahead(longer, e, list[k])
  <2>1. k \in 1..len /\ k >= i /\ i < k + 1
    BY <1>1, <1>4
  <2>. QED BY <1>3, <1>4, <1>6, <1>7, <2>1 DEF Ahead
<1>. QED BY <1>2, <1>8, <1>9, <1>10, <1>11, <1>12 DEF longer, len

\* A rule that is in a list once is at one place.
LEMMA AtPlace ==
    ASSUME NEW list \in Seq(Nat), Once(list), NEW i \in 1..Len(list)
    PROVE  At(list, list[i]) = i
<1>1. At(list, list[i]) \in 1..Len(list) /\ list[At(list, list[i])] = list[i]
  <2>. DEFINE r == list[i]
              I == {k \in 1..Len(list) : list[k] = r}
  <2>1. I \in SUBSET Nat /\ I # {}
    BY LenProperties
  <2>2. Min(I) \in I
    BY <2>1, MinIn
  <2>. QED BY <2>1, <2>2 DEF At, SelectInSeq
<1>2. DOMAIN list = 1..Len(list)
  BY LenProperties
<1>. QED BY <1>1, <1>2 DEF Once

(***************************************************************************)
(* A list without some rules.                                              *)
(***************************************************************************)
Keeps(kept, list, gone) ==
    /\ kept \in [0..Len(list) -> Seq(Nat)] /\ kept[0] = <<>>
    /\ \A n \in 1..Len(list) :
           kept[n] = IF list[n] \in gone THEN kept[n - 1] ELSE Append(kept[n - 1], list[n])

\* The function that Without is defined by exists.
LEMMA WithoutKeeps ==
    ASSUME NEW list \in Seq(Nat), NEW gone
    PROVE  \E kept : Keeps(kept, list, gone) /\ Without(list, gone) = kept[Len(list)]
<1>. DEFINE V == Seq(Nat)
            N == Len(list)
            Kept(l, n) == IF list[n] \in gone THEN l ELSE Append(l, list[n])
            step == [p \in V \X (1..N) |-> Kept(p[1], p[2])]
            Follows(f) == f = [n \in 0..N |-> IF n = 0 THEN <<>> ELSE Kept(f[n - 1], n)]
            kept == CHOOSE f : Follows(f)
<1>1. N \in Nat /\ \A n \in 1..N : list[n] \in Nat
  BY LenProperties, ElementOfSeq
<1>2. step \in [V \X (1..N) -> V]
  <2>. SUFFICES ASSUME NEW l \in V, NEW n \in 1..N PROVE Kept(l, n) \in V
    OBVIOUS
  <2>. QED BY <1>1, AppendProperties
<1>3. PICK g : Recurs(g, N, V, <<>>, step)
  <2>1. <<>> \in V
    OBVIOUS
  <2>. HIDE DEF V, N, step
  <2>. QED BY <1>1, <1>2, <2>1, Recursion
<1>4. Follows(g)
  <2>1. ASSUME NEW m \in 1..N PROVE g[m] = Kept(g[m - 1], m)
    <3>1. g[m - 1] \in V /\ g[m] = step[<<g[m - 1], m>>]
      <4>1. m - 1 \in 0..N
        BY <1>1
      <4>. HIDE DEF V, step, N
      <4>. QED BY <1>3, <4>1 DEF Recurs
    <3>2. step[<<g[m - 1], m>>] = Kept(g[m - 1], m)
      BY <3>1
    <3>. QED BY <3>1, <3>2
  <2>2. g = [m \in 0..N |-> g[m]] /\ g[0] = <<>>
    BY <1>3 DEF Recurs
  <2>3. ASSUME NEW m \in 0..N PROVE g[m] = IF m = 0 THEN <<>> ELSE Kept(g[m - 1], m)
    <3>1. CASE m = 0
      BY <2>2, <3>1
    <3>2. CASE m # 0
      <4>1. m \in 1..N
        BY <1>1, <3>2
      <4>. QED BY <2>1, <3>2, <4>1
    <3>. QED BY <3>1, <3>2
  <2>. QED BY <2>2, <2>3
<1>5. Follows(kept)
  <2>. HIDE DEF Follows
  <2>. QED BY <1>4
<1>6. Without(list, gone) = kept[N]
  BY DEF Without
<1>7. kept[0] = <<>> /\ \A n \in 1..N : kept[n] = Kept(kept[n - 1], n)
  <2>. HIDE DEF kept, Kept
  <2>. QED BY <1>1, <1>5, SMTT(30)
<1>. HIDE DEF kept
<1>8. 0..N \subseteq {n \in 0..N : kept[n] \in V}
  <2>. DEFINE S == {n \in 0..N : kept[n] \in V}
  <2>1. 0 \in S
    <3>1. 0 \in 0..N /\ <<>> \in V
      BY <1>1
    <3>2. kept[0] \in V
      BY <1>7, <3>1
    <3>. HIDE DEF V
    <3>. QED BY <3>1, <3>2
  <2>2. ASSUME NEW n \in 0..(N - 1), n \in S PROVE n + 1 \in S
    <3>1. n + 1 \in 1..N /\ (n + 1) - 1 = n /\ list[n + 1] \in Nat
      BY <1>1
    <3>2. kept[n + 1] = Kept(kept[n], n + 1)
      <4>. HIDE DEF Kept, N
      <4>. QED BY <1>7, <3>1
    <3>3. kept[n] \in V
      BY <2>2
    <3>4. Kept(kept[n], n + 1) \in V
      BY <3>1, <3>3, AppendProperties
    <3>5. n + 1 \in 0..N /\ kept[n + 1] \in V
      <4>. HIDE DEF V, Kept
      <4>. QED BY <1>1, <3>2, <3>4
    <3>. HIDE DEF V
    <3>. QED BY <3>5
  <2>. HIDE DEF S
  <2>. QED BY <1>1, <2>1, <2>2, Upto DEF S
<1>9. kept \in [0..N -> V]
  <2>1. kept = [n \in 0..N |-> kept[n]]
    BY <1>5 DEF kept
  <2>. QED BY <1>8, <2>1
<1>10. Keeps(kept, list, gone)
  BY <1>7, <1>9 DEF Keeps
<1>. QED BY <1>6, <1>10

\* What is left keeps its order.
LEMMA WithoutKeepsOrder ==
    ASSUME NEW list \in Seq(Nat), NEW gone
    PROVE  /\ Without(list, gone) \in Seq(Nat)
           /\ \E f : /\ f \in [1..Len(Without(list, gone)) -> 1..Len(list)]
                     /\ \A k, l \in 1..Len(Without(list, gone)) : k < l => f[k] < f[l]
                     /\ \A k \in 1..Len(Without(list, gone)) :
                            Without(list, gone)[k] = list[f[k]] /\ list[f[k]] \notin gone
<1>. DEFINE N == Len(list)
            Embeds(f, w, n) == /\ f \in [1..Len(w) -> 1..n]
                               /\ \A k, l \in 1..Len(w) : k < l => f[k] < f[l]
                               /\ \A k \in 1..Len(w) : w[k] = list[f[k]] /\ list[f[k]] \notin gone
<1>1. PICK kept : Keeps(kept, list, gone) /\ Without(list, gone) = kept[N]
  BY WithoutKeeps
<1>2. N \in Nat /\ \A n \in 1..N : list[n] \in Nat
  BY LenProperties, ElementOfSeq
<1>3. \A n \in 0..N : kept[n] \in Seq(Nat)
  BY <1>1 DEF Keeps
<1>. DEFINE S == {n \in 0..N : \E f : Embeds(f, kept[n], n)}
<1>4. 0 \in S
  <2>1. kept[0] = <<>> /\ Len(<<>>) = 0 /\ 1..0 = {}
    BY <1>1 DEF Keeps
  <2>. DEFINE f == [k \in 1..0 |-> 0]
  <2>2. Embeds(f, <<>>, 0)
    BY <2>1
  <2>. HIDE DEF Embeds
  <2>. QED BY <1>2, <2>1, <2>2
<1>5. ASSUME NEW n \in 0..(N - 1), n \in S PROVE n + 1 \in S
  <2>1. n + 1 \in 1..N /\ (n + 1) - 1 = n /\ n + 1 \in 0..N /\ n \in 0..N /\ n \in Nat
    BY <1>2
  <2>2. kept[n + 1] = IF list[n + 1] \in gone THEN kept[n] ELSE Append(kept[n], list[n + 1])
    BY <1>1, <2>1 DEF Keeps
  <2>3. PICK f : Embeds(f, kept[n], n)
    BY <1>5
  <2>4. Len(kept[n]) \in Nat
    BY <1>3, <2>1, LenProperties
  <2>. DEFINE w == kept[n]
              u == Append(w, list[n + 1])
              len == Len(w)
  <2>5. CASE list[n + 1] \in gone
    <3>1. kept[n + 1] = kept[n]
      BY <2>2, <2>5
    <3>2. Embeds(f, kept[n], n + 1)
      <4>0. f \in [1..len -> 1..n]
        BY <2>3
      <4>. HIDE DEF len
      <4>1. \A k \in 1..len : f[k] \in 1..(n + 1)
        BY <2>1, <4>0
      <4>. USE DEF len
      <4>. QED BY <2>3, <4>1
    <3>. HIDE DEF Embeds
    <3>. QED BY <2>1, <3>1, <3>2
  <2>6. CASE list[n + 1] \notin gone
    <3>1. kept[n + 1] = u
      BY <2>2, <2>6
    <3>2. /\ Len(u) = len + 1 /\ u[len + 1] = list[n + 1]
          /\ \A k \in 1..len : u[k] = w[k]
      BY <1>2, <1>3, <2>1, AppendProperties
    <3>. DEFINE g == [k \in 1..(len + 1) |-> IF k = len + 1 THEN n + 1 ELSE f[k]]
    <3>3. /\ f \in [1..len -> 1..n]
          /\ \A k, l \in 1..len : k < l => f[k] < f[l]
          /\ \A k \in 1..len : w[k] = list[f[k]] /\ list[f[k]] \notin gone
      BY <2>3
    <3>. HIDE DEF w, u, len
    <3>4. len \in Nat
      BY <2>4 DEF len, w
    <3>5. \A k \in 1..(len + 1) : k # len + 1 => k \in 1..len /\ g[k] = f[k] /\ f[k] \in 1..n
      BY <3>3, <3>4
    <3>6. g[len + 1] = n + 1
      BY <3>4
    <3>7. g \in [1..(len + 1) -> 1..(n + 1)]
      <4>1. \A k \in 1..(len + 1) : g[k] \in 1..(n + 1)
        <5>. HIDE DEF g
        <5>. QED BY <2>1, <3>4, <3>5, <3>6
      <4>. QED BY <4>1
    <3>. HIDE DEF g
    <3>8. ASSUME NEW k \in 1..(len + 1), NEW l \in 1..(len + 1), k < l PROVE g[k] < g[l]
      <4>1. k # len + 1 /\ k \in 1..len
        BY <3>4, <3>8
      <4>. QED BY <2>1, <3>3, <3>5, <3>6, <3>8, <4>1
    <3>9. ASSUME NEW k \in 1..(len + 1) PROVE u[k] = list[g[k]] /\ list[g[k]] \notin gone
      BY <2>6, <3>2, <3>3, <3>5, <3>6
    <3>10. Embeds(g, u, n + 1)
      BY <3>2, <3>7, <3>8, <3>9
    <3>. HIDE DEF Embeds
    <3>. QED BY <2>1, <3>1, <3>10
  <2>. QED BY <2>5, <2>6
<1>6. N \in S
  <2>. HIDE DEF S
  <2>1. 0..N \subseteq S
    BY <1>2, <1>4, <1>5, Upto
  <2>. QED BY <1>2, <2>1
<1>. QED BY <1>1, <1>2, <1>3, <1>6

\* A rule that is found in a list is there.
LEMMA AtFound ==
    ASSUME NEW list \in Seq(Nat), NEW r, At(list, r) # 0
    PROVE  At(list, r) \in 1..Len(list) /\ list[At(list, r)] = r
<1>. DEFINE I == {k \in 1..Len(list) : list[k] = r}
<1>1. I \in SUBSET Nat
  BY LenProperties
<1>2. At(list, r) = IF I # {} THEN Min(I) ELSE 0
  BY DEF At, SelectInSeq
<1>3. I # {} => Min(I) \in I
  BY <1>1, MinIn
<1>. QED BY <1>2, <1>3

\* The ends of a list are places like any other.
LEMMA AtEnds ==
    ASSUME NEW list \in Seq(Nat), NEW e \in Nat
    PROVE  /\ Append(list, e) = InsertAt(list, Len(list) + 1, e)
           /\ <<e>> \o list = InsertAt(list, 1, e)
<1>1. Len(list) \in Nat /\ <<e>> \in Seq(Nat) /\ <<>> \in Seq(Nat)
  BY LenProperties
<1>2. SubSeq(list, 1, Len(list)) = list
  BY SubSeqFull
<1>3. SubSeq(list, Len(list) + 1, Len(list)) = <<>> /\ SubSeq(list, 1, 1 - 1) = <<>>
  BY <1>1, SubSeqEmpty
<1>4. (Len(list) + 1) - 1 = Len(list)
  BY <1>1
<1>5. Append(list, e) = list \o <<e>> /\ list \o <<e>> \in Seq(Nat)
  BY <1>1, AppendIsConcat, ConcatProperties
<1>6. InsertAt(list, Len(list) + 1, e) = (list \o <<e>>) \o <<>>
  BY <1>2, <1>3, <1>4 DEF InsertAt
<1>7. (list \o <<e>>) \o <<>> = list \o <<e>>
  BY <1>5, ConcatEmptySeq
<1>8. InsertAt(list, 1, e) = (<<>> \o <<e>>) \o list
  BY <1>2, <1>3 DEF InsertAt
<1>9. <<>> \o <<e>> = <<e>>
  BY <1>1, ConcatEmptySeq
<1>. QED BY <1>5, <1>6, <1>7, <1>8, <1>9

\* A rule less leaves each of the others once.
LEMMA RemovedOnce ==
    ASSUME NEW list \in Seq(Nat), Once(list), NEW i \in 1..Len(list)
    PROVE  Once(RemoveAt(list, i)) /\ ToSet(RemoveAt(list, i)) \subseteq ToSet(list)
<1>. DEFINE len == Len(list)
            shorter == RemoveAt(list, i)
<1>1. len \in Nat /\ DOMAIN list = 1..len
  BY LenProperties
<1>2. /\ shorter \in Seq(Nat) /\ Len(shorter) = len - 1
      /\ \A k \in 1..(len - 1) : shorter[k] = IF k < i THEN list[k] ELSE list[k + 1]
  BY Removed
<1>3. DOMAIN shorter = 1..(len - 1)
  BY <1>2, LenProperties
<1>4. \A p, q \in 1..len : list[p] = list[q] => p = q
  BY <1>1 DEF Once
<1>. HIDE DEF len, shorter
<1>. DEFINE P(k) == IF k < i THEN k ELSE k + 1
<1>5. i \in 1..len
  BY DEF len
<1>6. \A k \in 1..(len - 1) : P(k) \in 1..len /\ shorter[k] = list[P(k)]
  BY <1>1, <1>2, <1>5
<1>7. \A k, l \in 1..(len - 1) : P(k) = P(l) => k = l
  BY <1>1, <1>5
<1>. HIDE DEF P
<1>8. Once(shorter)
  BY <1>3, <1>4, <1>6, <1>7 DEF Once
<1>9. ToSet(shorter) \subseteq ToSet(list)
  BY <1>1, <1>3, <1>6 DEF ToSet
<1>. QED BY <1>8, <1>9 DEF shorter

(***************************************************************************)
(* The steps of the evaluation.                                            *)
(***************************************************************************)

(***************************************************************************)
(* Evaluation: one more command.                                           *)
(***************************************************************************)
LEMMA Grown ==
    ASSUME cmds \in Seq(Entry), NEW e \in Entry, cmds' = Append(cmds, e)
    PROVE  /\ Len(cmds) \in Nat /\ Len(cmds') = Len(cmds) + 1
           /\ DOMAIN cmds = 1..Len(cmds) /\ DOMAIN cmds' = 1..(Len(cmds) + 1)
           /\ \A i \in 1..Len(cmds) : cmds'[i] = cmds[i]
           /\ cmds'[Len(cmds) + 1] = e
           /\ \A i \in 1..(Len(cmds) + 1) :
                  (i \in 1..Len(cmds) \/ i = Len(cmds) + 1) /\ 1..(i - 1) \subseteq 1..Len(cmds)
<1>1. /\ cmds' \in Seq(Entry) /\ Len(cmds') = Len(cmds) + 1
      /\ \A i \in 1..Len(cmds) : cmds'[i] = cmds[i]
      /\ cmds'[Len(cmds) + 1] = e
  BY AppendProperties
<1>2. Len(cmds) \in Nat /\ DOMAIN cmds = 1..Len(cmds) /\ DOMAIN cmds' = 1..(Len(cmds) + 1)
  BY <1>1, LenProperties
<1>. DEFINE n == Len(cmds)
<1>3. n \in Nat
  BY <1>2
<1>. HIDE DEF n
<1>4. \A i \in 1..(n + 1) : (i \in 1..n \/ i = n + 1) /\ 1..(i - 1) \subseteq 1..n
  BY <1>3
<1>. QED BY <1>1, <1>2, <1>4 DEF n


\* The batch with one more command, and handles and ids as before.
LEMMA GrownRefs ==
    ASSUME IdInv, HandlesGiven, RefsTold, Chains, phase = "evaluate",
           NEW e \in Entry, cmds' = Append(cmds, e),
           e.cmd.by = "index" =>
               \/ e.ref \in Old /\ e.position = e.ref /\ e.id = None
               \/ /\ e.position = None /\ e.id # None /\ ruleid'[e.ref] = e.id
                  /\ \E j \in 1..Len(cmds) : e.ref = New(j)
               \/ /\ e.position # None
                  /\ \E j \in 1..Len(cmds) : cmds[j].cmd.op = "replace" /\ e.ref = New(j)
               \/ e.ref = None /\ e.position = None /\ e.id = None,
           e.cmd.by # "index" => e.position = e.cmd.at /\ e.id = None,
           \A r \in All : ruleid[r] # None => ruleid'[r] = ruleid[r],
           \A r \in All :
               handle'[r] = handle[r] \/ (e.cmd.op = "replace" /\ r = New(Len(cmds) + 1)),
           phase' = "evaluate", UNCHANGED <<chain, start, next, dead, sent, moved>>
    PROVE  HandlesGiven' /\ RefsTold' /\ Chains' /\ Carried' /\ OrderKept'
<1>1. cmds \in Seq(Entry) /\ Len(cmds) <= MaxCommands
  BY DEF IdInv, TypeInv
<1>. DEFINE n == Len(cmds)
<1>2. /\ n \in Nat /\ Len(cmds') = n + 1
      /\ DOMAIN cmds = 1..n /\ DOMAIN cmds' = 1..(n + 1)
      /\ \A i \in 1..n : cmds'[i] = cmds[i]
      /\ cmds'[n + 1] = e
      /\ \A i \in 1..(n + 1) : (i \in 1..n \/ i = n + 1) /\ 1..(i - 1) \subseteq 1..n
  BY <1>1, Grown
<1>3. HandlesGiven'
  <2>1. ASSUME NEW r \in All, handle'[r] # None
        PROVE  \/ r \in Old /\ handle'[r] = r
               \/ \E j \in 1..(n + 1) : cmds'[j].cmd.op = "replace" /\ r = New(j)
    <3>1. CASE handle'[r] = handle[r]
      <4>1. CASE r \in Old /\ handle[r] = r
        BY <3>1, <4>1
      <4>2. CASE \E j \in 1..n : cmds[j].cmd.op = "replace" /\ r = New(j)
        BY <1>2, <4>2
      <4>. QED BY <1>2, <2>1, <3>1, <4>1, <4>2 DEF HandlesGiven
    <3>2. CASE e.cmd.op = "replace" /\ r = New(n + 1)
      <4>1. n + 1 \in 1..(n + 1)
        BY <1>2
      <4>. QED BY <1>2, <3>2, <4>1
    <3>. QED BY <3>1, <3>2
  <2>. HIDE DEF n
  <2>. QED BY <1>2, <2>1 DEF HandlesGiven
<1>4. RefsTold'
  <2>1. ASSUME NEW i \in 1..n
        PROVE  LET f == cmds'[i]
               IN  IF f.cmd.by = "index"
                   THEN \/ f.ref \in Old /\ f.position = f.ref /\ f.id = None
                        \/ /\ f.position = None /\ f.id # None /\ ruleid'[f.ref] = f.id
                           /\ \E j \in 1..(i - 1) : f.ref = New(j)
                        \/ /\ f.position # None
                           /\ \E j \in 1..(i - 1) : cmds'[j].cmd.op = "replace" /\ f.ref = New(j)
                        \/ f.ref = None /\ f.position = None /\ f.id = None
                   ELSE f.position = f.cmd.at /\ f.id = None
    <3>. DEFINE f == cmds[i]
    <3>1. cmds'[i] = f /\ \A j \in 1..(i - 1) : cmds'[j] = cmds[j]
      BY <1>2
    <3>2. IF f.cmd.by = "index"
          THEN \/ f.ref \in Old /\ f.position = f.ref /\ f.id = None
               \/ /\ f.position = None /\ f.id # None /\ ruleid[f.ref] = f.id
                  /\ \E j \in 1..(i - 1) : f.ref = New(j)
               \/ /\ f.position # None
                  /\ \E j \in 1..(i - 1) : cmds[j].cmd.op = "replace" /\ f.ref = New(j)
               \/ f.ref = None /\ f.position = None /\ f.id = None
          ELSE f.position = f.cmd.at /\ f.id = None
      BY <1>2 DEF RefsTold, Indexed, HitsReplacing
    <3>3. ASSUME NEW j \in 1..(i - 1) PROVE New(j) \in All
      <4>1. j \in 1..MaxCommands
        <5>1. j \in 1..n
          BY <1>2
        <5>. QED BY <1>1, <1>2, <5>1, BoundAssumption
      <4>. QED BY <4>1, BoundAssumption DEF New, All
    <3>4. ASSUME f.id # None, ruleid[f.ref] = f.id, NEW j \in 1..(i - 1), f.ref = New(j)
          PROVE  ruleid'[f.ref] = f.id
      BY <3>3, <3>4
    <3>. HIDE DEF f
    <3>. QED BY <3>1, <3>2, <3>4
  <2>2. LET i == n + 1
            f == cmds'[i]
        IN  IF f.cmd.by = "index"
            THEN \/ f.ref \in Old /\ f.position = f.ref /\ f.id = None
                 \/ /\ f.position = None /\ f.id # None /\ ruleid'[f.ref] = f.id
                    /\ \E j \in 1..(i - 1) : f.ref = New(j)
                 \/ /\ f.position # None
                    /\ \E j \in 1..(i - 1) : cmds'[j].cmd.op = "replace" /\ f.ref = New(j)
                 \/ f.ref = None /\ f.position = None /\ f.id = None
            ELSE f.position = f.cmd.at /\ f.id = None
    <3>1. (n + 1) - 1 = n
      BY <1>2
    <3>. QED BY <1>2, <3>1
  <2>. HIDE DEF n
  <2>. QED BY <1>2, <2>1, <2>2 DEF RefsTold, Indexed, HitsReplacing
<1>5. Chains'
  BY DEF Chains
<1>6. Carried' /\ OrderKept'
  BY DEF Carried, OrderKept
<1>. QED BY <1>3, <1>4, <1>5, <1>6

\* A command that fails to be evaluated ends the run.
LEMMA FailedPlace ==
    ASSUME PlaceInv, phase = "evaluate", phase' = "error",
           UNCHANGED <<chain, start, handle, ruleid, cmds, next, dead, sent, moved>>
    PROVE  HandlesGiven' /\ RefsTold' /\ Chains' /\ Carried' /\ OrderKept'
<1>1. HandlesGiven'
  BY DEF PlaceInv, HandlesGiven
<1>2. RefsTold'
  BY DEF PlaceInv, RefsTold, Indexed, HitsReplacing
<1>3. Chains'
  BY DEF PlaceInv, Chains
<1>4. Carried' /\ OrderKept'
  BY DEF Carried, OrderKept
<1>. QED BY <1>1, <1>2, <1>3, <1>4

\* What goes with a rule by index: a handle of its own, that of the rule it
\* replaces, or an id.
LEMMA RulePlace ==
    ASSUME PlaceInv, NEW c \in Commands, EvaluateRule(c)
    PROVE  HandlesGiven' /\ RefsTold' /\ Chains' /\ Carried' /\ OrderKept'
<1>. DEFINE ref == Lookup(c)
            new == New(Len(cmds) + 1)
            e == Resolved(c, ref)
<1>0. IdInv /\ IdInv'
  BY RuleStep DEF PlaceInv
<1>1. phase = "evaluate" /\ UNCHANGED <<chain, start, handle, next, dead, sent, moved>>
  BY DEF EvaluateRule, Room
<1>2. CASE c.by # "none" /\ ref = None
  <2>1. phase' = "error" /\ UNCHANGED <<ruleid, cmds>>
    BY <1>2 DEF EvaluateRule
  <2>. QED BY <1>1, <2>1, FailedPlace
<1>3. CASE ~ (c.by # "none" /\ ref = None)
  <2>1. /\ cmds' = Append(cmds, e)
        /\ IF c.by = "index" /\ handle[ref] = None
           THEN /\ ruleid' = Link(ref)
                /\ lastid' = IF Link(ref) = ruleid THEN lastid ELSE lastid + 1
           ELSE UNCHANGED <<ruleid, lastid>>
        /\ phase' = "evaluate"
    BY <1>1, <1>3 DEF EvaluateRule, Room
  <2>2. ref # None =>
            /\ ref \in All /\ ref \in Nat
            /\ handle[ref] = None => \E j \in 1..Len(cmds) : ref = New(j)
    BY <1>0, RefIn DEF IdInv
  <2>3. /\ c.by \in {"none", "index", "handle"} /\ c.at \in Nat
        /\ c.by = "index" => ref # None
    BY <1>3, CommandShape
  <2>4. cmds \in Seq(Entry) /\ cmds' \in Seq(Entry) /\ DOMAIN cmds = 1..Len(cmds)
    BY <1>0, LenProperties DEF IdInv, TypeInv
  <2>5. e \in Entry /\ e.cmd = c
    <3>1. ref \in Nat
      BY <2>2 DEF None
    <3>2. CASE c.by = "index" /\ handle[ref] = None
      <4>1. e = [cmd |-> c, ref |-> ref, position |-> None, id |-> Link(ref)[ref]]
        BY <3>2 DEF Resolved
      <4>2. Link(ref)[ref] \in Nat
        BY <1>0, <2>1, <2>2, <2>3, <3>2, Linked
      <4>. QED BY <3>1, <4>1, <4>2 DEF Entry, None
    <3>3. CASE ~ (c.by = "index" /\ handle[ref] = None)
      <4>1. e = [cmd |-> c, ref |-> ref,
                 position |-> IF c.by = "index" THEN handle[ref] ELSE c.at, id |-> None]
        BY <3>3 DEF Resolved
      <4>2. c.by = "index" => handle[ref] \in Nat
        BY <1>0, <2>2, <2>3, BoundAssumption DEF IdInv, TypeInv
      <4>. QED BY <2>3, <3>1, <4>1, <4>2 DEF Entry, None
    <3>. QED BY <3>2, <3>3
  <2>6. \A r \in All : ruleid[r] # None => ruleid'[r] = ruleid[r]
    <3>1. CASE c.by = "index" /\ handle[ref] = None
      BY <1>0, <2>1, <2>2, <2>3, <3>1, Linked
    <3>2. CASE ~ (c.by = "index" /\ handle[ref] = None)
      BY <2>1, <3>2
    <3>. QED BY <3>1, <3>2
  <2>7. ASSUME c.by = "index"
        PROVE  \/ e.ref \in Old /\ e.position = e.ref /\ e.id = None
               \/ /\ e.position = None /\ e.id # None /\ ruleid'[e.ref] = e.id
                  /\ \E j \in 1..Len(cmds) : e.ref = New(j)
               \/ /\ e.position # None
                  /\ \E j \in 1..Len(cmds) : cmds[j].cmd.op = "replace" /\ e.ref = New(j)
    <3>1. ref # None /\ ref \in All
      BY <2>2, <2>3, <2>7
    <3>2. CASE handle[ref] = None
      <4>1. e = [cmd |-> c, ref |-> ref, position |-> None, id |-> Link(ref)[ref]]
        BY <2>7, <3>2 DEF Resolved
      <4>2. ruleid' = Link(ref) /\ \E j \in 1..Len(cmds) : ref = New(j)
        BY <2>1, <2>2, <2>7, <3>1, <3>2
      <4>3. Link(ref)[ref] # None
        <5>1. ruleid \in [All -> 0..lastid] /\ lastid \in Nat
          BY <1>0 DEF IdInv, TypeInv
        <5>. QED BY <3>1, <5>1 DEF Link, None
      <4>. HIDE DEF ref, e
      <4>. QED BY <4>1, <4>2, <4>3
    <3>3. CASE handle[ref] # None
      <4>1. e = [cmd |-> c, ref |-> ref, position |-> handle[ref], id |-> None]
        BY <2>7, <3>3 DEF Resolved
      <4>2. \/ ref \in Old /\ handle[ref] = ref
            \/ \E j \in 1..Len(cmds) : cmds[j].cmd.op = "replace" /\ ref = New(j)
        BY <2>4, <3>1, <3>3 DEF PlaceInv, HandlesGiven
      <4>. HIDE DEF ref, e
      <4>. QED BY <3>3, <4>1, <4>2
    <3>. QED BY <3>2, <3>3
  <2>8. ASSUME c.by # "index" PROVE e.position = c.at /\ e.id = None
    BY <2>8 DEF Resolved
  <2>. HIDE DEF e, ref
  <2>. QED BY <1>0, <1>1, <2>1, <2>5, <2>6, <2>7, <2>8, GrownRefs DEF PlaceInv
<1>. QED BY <1>2, <1>3

\* The rule that replaces another has its handle.
LEMMA ReplacePlace ==
    ASSUME PlaceInv, NEW c \in Commands, EvaluateReplace(c)
    PROVE  HandlesGiven' /\ RefsTold' /\ Chains' /\ Carried' /\ OrderKept'
<1>. DEFINE ref == Lookup(c)
            new == New(Len(cmds) + 1)
            e == Resolved(c, ref)
<1>0. IdInv /\ TypeInv
  BY DEF PlaceInv, IdInv
<1>1. /\ phase = "evaluate" /\ c.op = "replace"
      /\ UNCHANGED <<chain, start, ruleid, next, dead, sent, moved>>
  BY DEF EvaluateReplace, Room
<1>2. CASE ref = None
  <2>1. phase' = "error" /\ UNCHANGED <<handle, cmds>>
    BY <1>2 DEF EvaluateReplace
  <2>. QED BY <1>1, <2>1, FailedPlace
<1>3. CASE ref # None
  <2>1. /\ cmds' = Append(cmds, e) /\ handle' = [handle EXCEPT ![new] = c.at]
        /\ phase' = "evaluate"
    BY <1>1, <1>3 DEF EvaluateReplace
  <2>2. c.by = "handle" /\ c.at \in Nat
    BY <1>1, CommandShape
  <2>3. ref \in Nat
    BY <1>0, <1>3, RefIn
  <2>4. e = [cmd |-> c, ref |-> ref, position |-> c.at, id |-> None]
    BY <2>2 DEF Resolved
  <2>5. e \in Entry
    BY <2>2, <2>3, <2>4 DEF Entry, None
  <2>. HIDE DEF ref
  <2>6. e.cmd = c /\ e.position = c.at /\ e.id = None
    BY <2>4
  <2>7. \A r \in All : handle'[r] = handle[r] \/ (e.cmd.op = "replace" /\ r = new)
    BY <1>0, <1>1, <2>1, <2>6 DEF TypeInv
  <2>8. \A r \in All : ruleid[r] # None => ruleid'[r] = ruleid[r]
    BY <1>1
  <2>. HIDE DEF e
  <2>. QED BY <1>0, <1>1, <2>1, <2>2, <2>5, <2>6, <2>7, <2>8, GrownRefs DEF PlaceInv
<1>. QED BY <1>2, <1>3

\* Commands that are sent as they were given.
LEMMA PassPlace ==
    ASSUME PlaceInv, NEW c \in Commands, PassOver(c)
    PROVE  HandlesGiven' /\ RefsTold' /\ Chains' /\ Carried' /\ OrderKept'
<1>. DEFINE e == Unresolved(c)
<1>0. IdInv
  BY DEF PlaceInv
<1>1. /\ phase = "evaluate" /\ phase' = "evaluate" /\ cmds' = Append(cmds, e)
      /\ UNCHANGED <<chain, start, handle, ruleid, next, dead, sent, moved>>
  BY DEF PassOver, Room
<1>2. c.at \in Nat
  BY CommandShape
<1>3. e \in Entry /\ e.cmd = c /\ e.ref = None /\ e.id = None
      /\ e.position = (IF c.by = "index" THEN None ELSE c.at)
  BY <1>2 DEF Unresolved, Entry, None
<1>4. \A r \in All : ruleid[r] # None => ruleid'[r] = ruleid[r]
  BY <1>1
<1>5. \A r \in All : handle'[r] = handle[r] \/ (e.cmd.op = "replace" /\ r = New(Len(cmds) + 1))
  BY <1>1
<1>. HIDE DEF e
<1>. QED BY <1>0, <1>1, <1>3, <1>4, <1>5, GrownRefs DEF PlaceInv

(***************************************************************************)
(* The steps of the kernel.                                                *)
(***************************************************************************)

\* Others change the chain only before the batch is carried out.
LEMMA OthersPlace ==
    ASSUME PlaceInv, Others
    PROVE  HandlesGiven' /\ RefsTold' /\ Chains' /\ Carried' /\ OrderKept'
<1>1. /\ phase = "evaluate" /\ phase' = "evaluate" /\ moved' = moved + 1
      /\ UNCHANGED <<start, handle, ruleid, cmds, dead, sent>>
  BY DEF Others
<1>2. /\ start \in Seq(Nat) /\ moved \in Nat /\ chain \in Seq(Nat) /\ Once(chain)
      /\ ToSet(chain) \subseteq Known(moved) /\ sent = 0 /\ dead = {}
  BY <1>1 DEF PlaceInv, Chains
<1>3. moved' \in Nat /\ moved' # 0
  BY <1>1, <1>2
<1>4. chain' \in Seq(Nat) /\ Once(chain') /\ ToSet(chain') \subseteq Known(moved')
  <2>. DEFINE e == Foreign(moved + 1)
  <2>1. e \in Nat /\ e \notin Known(moved) /\ Known(moved) \cup {e} \subseteq Known(moved + 1)
    <3>1. e \in Nat
      BY <1>2, BoundAssumption DEF Foreign
    <3>2. e \notin Old /\ \A m \in 1..moved : e # Foreign(m)
      BY <1>2, BoundAssumption DEF Foreign, Old
    <3>3. moved + 1 \in 1..(moved + 1) /\ 1..moved \subseteq 1..(moved + 1)
      BY <1>2
    <3>. QED BY <3>1, <3>2, <3>3 DEF Known
  <2>2. ASSUME NEW i \in DOMAIN chain, chain' = RemoveAt(chain, i)
        PROVE  chain' \in Seq(Nat) /\ Once(chain') /\ ToSet(chain') \subseteq Known(moved')
    <3>1. i \in 1..Len(chain)
      BY <1>2, LenProperties
    <3>. QED BY <1>1, <1>2, <2>1, <2>2, <3>1, Removed, RemovedOnce
  <2>3. ASSUME NEW i \in 1..(Len(chain) + 1), chain' = InsertAt(chain, i, e)
        PROVE  chain' \in Seq(Nat) /\ Once(chain') /\ ToSet(chain') \subseteq Known(moved')
    <3>1. e \notin ToSet(chain)
      BY <1>2, <2>1
    <3>2. chain' \in Seq(Nat) /\ Once(chain') /\ ToSet(chain') = ToSet(chain) \cup {e}
      <4>. HIDE DEF e
      <4>. QED BY <1>2, <2>1, <2>3, <3>1, InsertedOnce
    <3>. QED BY <1>1, <1>2, <2>1, <3>2
  <2>. QED BY <2>2, <2>3 DEF Others
<1>5. Chains'
  BY <1>1, <1>2, <1>3, <1>4 DEF Chains
<1>6. HandlesGiven' /\ RefsTold'
  BY <1>1 DEF PlaceInv, HandlesGiven, RefsTold, Indexed, HitsReplacing
<1>7. Carried' /\ OrderKept'
  BY <1>1 DEF Carried, OrderKept
<1>. QED BY <1>5, <1>6, <1>7

\* The kernel starts from its chain.
LEMMA EndPlace ==
    ASSUME PlaceInv, EndOfBatch
    PROVE  HandlesGiven' /\ RefsTold' /\ Chains' /\ Carried' /\ OrderKept'
<1>1. /\ phase = "evaluate" /\ phase' = "send" /\ next' = chain
      /\ UNCHANGED <<chain, start, handle, ruleid, cmds, dead, sent, moved>>
  BY DEF EndOfBatch
<1>2. /\ start \in Seq(Nat) /\ moved \in Nat /\ chain \in Seq(Nat) /\ Once(chain)
      /\ ToSet(chain) \subseteq Known(moved) /\ sent = 0 /\ dead = {}
      /\ moved = 0 => chain = start
  BY <1>1 DEF PlaceInv, Chains
<1>3. Chains'
  BY <1>1, <1>2 DEF Chains
<1>4. HandlesGiven' /\ RefsTold'
  BY <1>1 DEF PlaceInv, HandlesGiven, RefsTold, Indexed, HitsReplacing
<1>5. Len(cmds) \in Nat
  BY LenProperties DEF PlaceInv, IdInv, TypeInv
<1>6. Carried'
  BY <1>1, <1>2, <1>5 DEF Carried
<1>7. OrderKept'
  <2>1. 1..0 = {}
    OBVIOUS
  <2>. QED BY <1>1, <1>2, <2>1 DEF OrderKept
<1>. QED BY <1>3, <1>4, <1>6, <1>7

(***************************************************************************)
(* The kernel takes the rule of one more message.                          *)
(***************************************************************************)
\* The batch is on its way.
Underway == phase = "send" /\ sent < Len(cmds)

\* The rule of the next message is not in the chain yet.
LEMMA NewIsNew ==
    ASSUME PlaceInv, Underway
    PROVE  /\ sent \in Nat /\ sent + 1 \in 1..Len(cmds) /\ Len(cmds) \in Nat
           /\ next \in Seq(Nat) /\ Once(next) /\ dead \subseteq ToSet(next)
           /\ ToSet(next) \subseteq Known(moved) \cup Sent(sent)
           /\ New(sent + 1) \in Nat /\ New(sent + 1) \notin ToSet(next)
           /\ \A i \in 1..sent : New(i) # New(sent + 1) /\ New(i) \in All
<1>1. Len(cmds) \in Nat /\ Len(cmds) <= MaxCommands
  BY LenProperties DEF PlaceInv, IdInv, TypeInv
<1>2. /\ sent \in 0..Len(cmds) /\ sent < Len(cmds)
      /\ next \in Seq(Nat) /\ Once(next) /\ dead \subseteq ToSet(next)
      /\ ToSet(next) \subseteq Known(moved) \cup Sent(sent)
      /\ moved \in Nat
  BY DEF PlaceInv, Carried, Underway, Chains
<1>. DEFINE n == Len(cmds)
<1>. HIDE DEF n
<1>3. sent \in Nat /\ sent + 1 \in 1..n /\ sent + 1 <= MaxCommands
  BY <1>1, <1>2, BoundAssumption DEF n
<1>4. New(sent + 1) \in Nat /\ New(sent + 1) \notin Known(moved)
  <2>1. New(sent + 1) \in Nat /\ New(sent + 1) \notin Old
    BY <1>3, BoundAssumption DEF New, Old
  <2>2. \A m \in 1..moved : Foreign(m) # New(sent + 1)
    BY <1>2, <1>3, BoundAssumption DEF New, Foreign
  <2>. QED BY <2>1, <2>2 DEF Known
<1>5. \A i \in 1..sent : New(i) # New(sent + 1) /\ New(i) \in All
  BY <1>3, BoundAssumption DEF New, All
<1>6. New(sent + 1) \notin Sent(sent)
  BY <1>5 DEF Sent
<1>. QED BY <1>1, <1>2, <1>3, <1>4, <1>5, <1>6 DEF n

\* It goes somewhere; the others stay in their order.
LEMMA PutPlace ==
    ASSUME PlaceInv, Underway, NEW i \in 1..(Len(next) + 1),
           next' = InsertAt(next, i, New(sent + 1)), dead' \subseteq ToSet(next),
           sent' = sent + 1, phase' = "send",
           UNCHANGED <<chain, start, handle, ruleid, cmds, moved>>,
           Told(sent + 1) =>
               IF cmds[sent + 1].cmd.op = "add"
               THEN \E k \in 1..(i - 1) : next[k] = cmds[sent + 1].ref
               ELSE \E k \in i..Len(next) : next[k] = cmds[sent + 1].ref
    PROVE  HandlesGiven' /\ RefsTold' /\ Chains' /\ Carried' /\ OrderKept'
<1>. DEFINE new == New(sent + 1)
<1>1. /\ sent \in Nat /\ sent + 1 \in 1..Len(cmds) /\ Len(cmds) \in Nat
      /\ next \in Seq(Nat) /\ Once(next)
      /\ ToSet(next) \subseteq Known(moved) \cup Sent(sent)
      /\ new \in Nat /\ new \notin ToSet(next)
  BY NewIsNew
<1>. HIDE DEF new
<1>2. next' = InsertAt(next, i, new)
  BY DEF new
<1>3. /\ next' \in Seq(Nat) /\ Once(next') /\ ToSet(next') = ToSet(next) \cup {new}
      /\ \A r, s : Ahead(next, r, s) => Ahead(next', r, s)
      /\ \A k \in 1..(i - 1) : Ahead(next', next[k], new)
      /\ \A k \in i..Len(next) : Ahead(next', new, next[k])
  BY <1>1, <1>2, InsertedOnce
<1>4. ToSet(next') \subseteq Known(moved') \cup Sent(sent')
  <2>1. Sent(sent) \subseteq Sent(sent + 1) /\ new \in Sent(sent + 1)
    <3>1. 1..sent \subseteq 1..(sent + 1) /\ sent + 1 \in 1..(sent + 1)
      BY <1>1
    <3>. QED BY <3>1 DEF Sent, new
  <2>. QED BY <1>1, <1>3, <2>1
<1>5. Carried'
  BY <1>1, <1>3, <1>4 DEF Carried
<1>6. OrderKept'
  <2>1. ASSUME NEW j \in 1..(sent + 1), Told(j)
        PROVE  IF cmds[j].cmd.op = "add"
               THEN Ahead(next', cmds[j].ref, New(j))
               ELSE Ahead(next', New(j), cmds[j].ref)
    <3>1. CASE j = sent + 1
      BY <1>3, <2>1, <3>1 DEF new
    <3>2. CASE j # sent + 1
      <4>1. j \in 1..sent
        BY <1>1, <3>2
      <4>2. IF cmds[j].cmd.op = "add"
            THEN Ahead(next, cmds[j].ref, New(j))
            ELSE Ahead(next, New(j), cmds[j].ref)
        BY <2>1, <4>1 DEF PlaceInv, OrderKept, Underway
      <4>. QED BY <1>3, <4>2
    <3>. QED BY <3>1, <3>2
  <2>2. \A j : (Told(j))' = Told(j) /\ (Told(j) => Indexed(j))
    BY DEF Told, Indexed, HitsReplacing
  <2>. QED BY <2>1, <2>2 DEF OrderKept
<1>7. Chains'
  BY DEF PlaceInv, Chains, Underway
<1>8. HandlesGiven' /\ RefsTold'
  BY DEF PlaceInv, HandlesGiven, RefsTold, Indexed, HitsReplacing
<1>. QED BY <1>5, <1>6, <1>7, <1>8

\* A message that fails leaves all as it is.
LEMMA RefusedPlace ==
    ASSUME PlaceInv, phase = "send", phase' = "refused",
           UNCHANGED <<chain, start, handle, ruleid, cmds, next, dead, sent, moved>>
    PROVE  HandlesGiven' /\ RefsTold' /\ Chains' /\ Carried' /\ OrderKept'
<1>1. HandlesGiven' /\ RefsTold' /\ Chains'
  BY DEF PlaceInv, HandlesGiven, RefsTold, Indexed, HitsReplacing, Chains
<1>2. Carried'
  BY DEF PlaceInv, Carried
<1>3. OrderKept'
  BY DEF PlaceInv, OrderKept, Told, Indexed, HitsReplacing
<1>. QED BY <1>1, <1>2, <1>3

\* A rule next to one in the chain.
LEMMA NextTo ==
    ASSUME NEW list \in Seq(Nat), Once(list), NEW r \in ToSet(list), NEW new
    PROVE  /\ \E i \in 1..(Len(list) + 1) :
                  After(list, r, new) = InsertAt(list, i, new) /\ \E k \in 1..(i - 1) : list[k] = r
           /\ \E i \in 1..(Len(list) + 1) :
                  Before(list, r, new) = InsertAt(list, i, new) /\ \E k \in i..Len(list) : list[k] = r
<1>1. PICK p \in 1..Len(list) : r = list[p]
  BY LenProperties DEF ToSet
<1>2. At(list, r) = p
  BY <1>1, AtPlace
<1>3. Len(list) \in Nat
  BY LenProperties
<1>4. p + 1 \in 1..(Len(list) + 1) /\ p \in 1..((p + 1) - 1) /\ p \in 1..(Len(list) + 1)
      /\ p \in p..Len(list)
  BY <1>3
<1>5. After(list, r, new) = InsertAt(list, p + 1, new) /\ \E k \in 1..((p + 1) - 1) : list[k] = r
  BY <1>1, <1>2, <1>4 DEF After
<1>6. Before(list, r, new) = InsertAt(list, p, new) /\ \E k \in p..Len(list) : list[k] = r
  BY <1>1, <1>2, <1>4 DEF Before
<1>. QED BY <1>4, <1>5, <1>6

\* The rule a message tells is the one the command refers to.
LEMMA ToldTrue ==
    ASSUME PlaceInv, NEW i \in DOMAIN cmds, Told(i)
    PROVE  /\ cmds[i].position # None =>
                  cmds[i].ref = cmds[i].position /\ cmds[i].position \in Old /\ cmds[i].id = None
           /\ cmds[i].position = None => cmds[i].id # None
           /\ cmds[i].id # None =>
                  /\ cmds[i].position = None
                  /\ \E j \in 1..(i - 1) : cmds[i].ref = New(j)
                  /\ \A j \in 1..(i - 1) : ruleid[New(j)] = cmds[i].id => New(j) = cmds[i].ref
                  /\ ruleid[cmds[i].ref] = cmds[i].id
<1>. DEFINE e == cmds[i]
<1>1. \/ e.ref \in Old /\ e.position = e.ref /\ e.id = None
      \/ /\ e.position = None /\ e.id # None /\ ruleid[e.ref] = e.id
         /\ \E j \in 1..(i - 1) : e.ref = New(j)
  BY DEF PlaceInv, RefsTold, Told
<1>2. i \in 1..Len(cmds) /\ Len(cmds) \in Nat /\ Len(cmds) <= MaxCommands
  BY LenProperties DEF PlaceInv, IdInv, TypeInv
<1>3. \A j \in 1..(i - 1) : New(j) \in All
  BY <1>2, BoundAssumption DEF New, All
<1>4. \A r \in Old : r # None
  BY DEF Old, None
<1>. HIDE DEF e
<1>5. ASSUME e.id # None, ruleid[e.ref] = e.id, \E j \in 1..(i - 1) : e.ref = New(j),
             NEW j \in 1..(i - 1), ruleid[New(j)] = e.id
      PROVE  New(j) = e.ref
  BY <1>3, <1>5 DEF PlaceInv, IdInv, IdsDiffer
<1>6. /\ e.position # None => e.ref = e.position /\ e.position \in Old /\ e.id = None
      /\ e.position = None => e.id # None
      /\ e.id # None => /\ e.position = None
                        /\ \E j \in 1..(i - 1) : e.ref = New(j)
                        /\ ruleid[e.ref] = e.id
  BY <1>1, <1>4
<1>. QED BY <1>5, <1>6 DEF e

\* mnl_nft_rule_add, for a rule that is taken.
LEMMA SendRulePlace ==
    ASSUME PlaceInv, SendRule
    PROVE  HandlesGiven' /\ RefsTold' /\ Chains' /\ Carried' /\ OrderKept'
<1>. DEFINE i == sent + 1
            new == New(i)
            Put(r) == IF Msg.cmd.op = "add" THEN After(next, r, new) ELSE Before(next, r, new)
            Named == {r \in ToSet(next) : r \in {New(k) : k \in 1..sent} /\ ruleid[r] = Msg.id}
<1>1. /\ Underway /\ Msg = cmds[i] /\ Msg.cmd.op \in {"add", "insert"}
      /\ UNCHANGED <<chain, start, handle, ruleid, lastid, cmds, moved>>
  BY DEF SendRule, Sending, Underway, Msg
<1>2. \/ Refuse
      \/ Msg.position # None /\ InKernel(Msg.position) /\ Done(Put(Msg.position), {})
      \/ Msg.position = None /\ Msg.id # None /\ \E r \in Named : Done(Put(r), {})
      \/ /\ Msg.position = None /\ Msg.id = None
         /\ Done(IF Msg.cmd.op = "add" THEN Append(next, new) ELSE <<new>> \o next, {})
  BY DEF SendRule
<1>3. /\ sent \in Nat /\ i \in 1..Len(cmds) /\ Len(cmds) \in Nat
      /\ next \in Seq(Nat) /\ Once(next) /\ dead \subseteq ToSet(next)
      /\ new \in Nat /\ new \notin ToSet(next)
  BY <1>1, NewIsNew
<1>4. i \in DOMAIN cmds /\ i - 1 = sent
  BY <1>3, LenProperties DEF PlaceInv, IdInv, TypeInv
<1>5. CASE Refuse
  BY <1>1, <1>5, RefusedPlace DEF Refuse, Underway
<1>6. ASSUME NEW r \in ToSet(next), Done(Put(r), {}),
             Told(i) => r = cmds[i].ref
      PROVE  HandlesGiven' /\ RefsTold' /\ Chains' /\ Carried' /\ OrderKept'
  <2>1. next' = Put(r) /\ dead' = dead /\ sent' = i /\ phase' = "send"
    BY <1>1, <1>6 DEF Done, Underway
  <2>2. PICK a \in 1..(Len(next) + 1) :
            After(next, r, new) = InsertAt(next, a, new) /\ \E k \in 1..(a - 1) : next[k] = r
    BY <1>3, NextTo
  <2>3. PICK b \in 1..(Len(next) + 1) :
            Before(next, r, new) = InsertAt(next, b, new) /\ \E k \in b..Len(next) : next[k] = r
    BY <1>3, NextTo
  <2>4. CASE Msg.cmd.op = "add"
    <3>1. next' = InsertAt(next, a, new)
      BY <2>1, <2>2, <2>4
    <3>2. Told(i) => \E k \in 1..(a - 1) : next[k] = cmds[i].ref
      BY <1>6, <2>2
    <3>. QED BY <1>1, <1>3, <2>1, <2>4, <3>1, <3>2, PutPlace
  <2>5. CASE Msg.cmd.op # "add"
    <3>1. next' = InsertAt(next, b, new)
      BY <2>1, <2>3, <2>5
    <3>2. Told(i) => \E k \in b..Len(next) : next[k] = cmds[i].ref
      BY <1>6, <2>3
    <3>. QED BY <1>1, <1>3, <2>1, <2>5, <3>1, <3>2, PutPlace
  <2>. QED BY <2>4, <2>5
<1>7. CASE Msg.position # None /\ InKernel(Msg.position) /\ Done(Put(Msg.position), {})
  <2>1. Msg.position \in ToSet(next)
    BY <1>7 DEF InKernel
  <2>2. Told(i) => Msg.position = cmds[i].ref
    BY <1>1, <1>4, <1>7, ToldTrue
  <2>. QED BY <1>6, <1>7, <2>1, <2>2
<1>8. ASSUME Msg.position = None, Msg.id # None, NEW r \in Named, Done(Put(r), {})
      PROVE  HandlesGiven' /\ RefsTold' /\ Chains' /\ Carried' /\ OrderKept'
  <2>1. r \in ToSet(next) /\ ruleid[r] = Msg.id /\ \E j \in 1..(i - 1) : r = New(j)
    BY <1>4
  <2>2. Told(i) => r = cmds[i].ref
    BY <1>1, <1>4, <1>8, <2>1, ToldTrue
  <2>. QED BY <1>6, <1>8, <2>1, <2>2
<1>9. CASE /\ Msg.position = None /\ Msg.id = None
           /\ Done(IF Msg.cmd.op = "add" THEN Append(next, new) ELSE <<new>> \o next, {})
  <2>1. /\ next' = IF Msg.cmd.op = "add" THEN Append(next, new) ELSE <<new>> \o next
        /\ dead' = dead /\ sent' = i /\ phase' = "send"
    BY <1>1, <1>9 DEF Done, Underway
  <2>2. ~Told(i)
    BY <1>1, <1>4, <1>9, ToldTrue
  <2>3. Len(next) \in Nat
    BY <1>3, LenProperties
  <2>4. Len(next) + 1 \in 1..(Len(next) + 1) /\ 1 \in 1..(Len(next) + 1)
    BY <2>3
  <2>5. \E k \in 1..(Len(next) + 1) : next' = InsertAt(next, k, new)
    BY <1>3, <2>1, <2>4, AtEnds
  <2>. QED BY <1>1, <1>3, <2>1, <2>2, <2>5, PutPlace
<1>. QED BY <1>2, <1>5, <1>7, <1>8, <1>9

\* Rules that are deleted stay where they are until the commit.
LEMMA MarkedPlace ==
    ASSUME PlaceInv, Underway, next' = next, dead' \subseteq ToSet(next),
           sent' = sent + 1, phase' = "send", ~Indexed(sent + 1),
           UNCHANGED <<chain, start, handle, ruleid, cmds, moved>>
    PROVE  HandlesGiven' /\ RefsTold' /\ Chains' /\ Carried' /\ OrderKept'
<1>1. /\ sent \in Nat /\ sent + 1 \in 1..Len(cmds) /\ Len(cmds) \in Nat
      /\ next \in Seq(Nat) /\ Once(next)
      /\ ToSet(next) \subseteq Known(moved) \cup Sent(sent)
  BY NewIsNew
<1>2. Sent(sent) \subseteq Sent(sent')
  <2>1. 1..sent \subseteq 1..(sent + 1)
    BY <1>1
  <2>. QED BY <2>1 DEF Sent
<1>3. Carried'
  BY <1>1, <1>2 DEF Carried
<1>4. OrderKept'
  <2>1. \A j : (Told(j))' = Told(j) /\ (Told(j) => Indexed(j))
    BY DEF Told, Indexed, HitsReplacing
  <2>2. \A j \in 1..(sent + 1) : j \in 1..sent \/ j = sent + 1
    BY <1>1
  <2>. QED BY <2>1, <2>2 DEF PlaceInv, OrderKept, Underway
<1>5. HandlesGiven' /\ RefsTold' /\ Chains'
  BY DEF PlaceInv, HandlesGiven, RefsTold, Indexed, HitsReplacing, Chains, Underway
<1>. QED BY <1>3, <1>4, <1>5

\* mnl_nft_rule_replace, mnl_nft_rule_del: what is deleted is marked, and
\* the rule that replaces it goes after it.
LEMMA SendDeletePlace ==
    ASSUME PlaceInv, SendDelete
    PROVE  HandlesGiven' /\ RefsTold' /\ Chains' /\ Carried' /\ OrderKept'
<1>. DEFINE i == sent + 1
            new == New(i)
            r == Msg.position
<1>1. /\ Underway /\ Msg = cmds[i] /\ Msg.cmd.op \in {"replace", "delete"}
      /\ UNCHANGED <<chain, start, handle, ruleid, lastid, cmds, moved>>
  BY DEF SendDelete, Sending, Underway, Msg
<1>2. \/ Refuse
      \/ InKernel(r) /\ Done(IF Msg.cmd.op = "delete" THEN next ELSE After(next, r, new), {r})
  BY DEF SendDelete
<1>3. /\ sent \in Nat /\ i \in 1..Len(cmds) /\ Len(cmds) \in Nat
      /\ next \in Seq(Nat) /\ Once(next) /\ dead \subseteq ToSet(next)
      /\ ToSet(next) \subseteq Known(moved) \cup Sent(sent)
      /\ new \in Nat /\ new \notin ToSet(next)
  BY <1>1, NewIsNew
<1>4. ~Indexed(i) /\ ~Told(i)
  <2>1. cmds[i] \in Entry
    BY <1>3, ElementOfSeq DEF PlaceInv, IdInv, TypeInv
  <2>2. cmds[i].cmd \in Commands
    BY <2>1 DEF Entry
  <2>3. cmds[i].cmd.by = "handle"
    BY <1>1, <2>2, CommandShape
  <2>. QED BY <2>3 DEF Indexed, Told
<1>5. CASE Refuse
  BY <1>1, <1>5, RefusedPlace DEF Refuse, Underway
<1>6. CASE InKernel(r) /\ Done(IF Msg.cmd.op = "delete" THEN next ELSE After(next, r, new), {r})
  <2>1. /\ next' = IF Msg.cmd.op = "delete" THEN next ELSE After(next, r, new)
        /\ dead' = dead \cup {r} /\ sent' = i /\ phase' = "send" /\ r \in ToSet(next)
    BY <1>1, <1>6 DEF Done, Underway, InKernel
  <2>2. dead' \subseteq ToSet(next)
    BY <1>3, <2>1
  <2>3. CASE Msg.cmd.op = "delete"
    <3>1. next' = next
      BY <2>1, <2>3
    <3>. QED BY <1>1, <1>4, <2>1, <2>2, <3>1, MarkedPlace
  <2>4. CASE Msg.cmd.op # "delete"
    <3>1. \E a \in 1..(Len(next) + 1) : After(next, r, new) = InsertAt(next, a, new)
      BY <1>3, <2>1, NextTo
    <3>. QED BY <1>1, <1>4, <2>1, <2>2, <2>4, <3>1, PutPlace
  <2>. QED BY <2>3, <2>4
<1>. QED BY <1>2, <1>5, <1>6

\* mnl_nft_rule_del for the chain.
LEMMA SendFlushPlace ==
    ASSUME PlaceInv, SendFlush
    PROVE  HandlesGiven' /\ RefsTold' /\ Chains' /\ Carried' /\ OrderKept'
<1>. DEFINE i == sent + 1
<1>1. /\ Underway /\ cmds[i].cmd.op = "flush" /\ next' = next /\ sent' = i /\ phase' = "send"
      /\ dead' = dead \cup ToSet(next)
      /\ UNCHANGED <<chain, start, handle, ruleid, cmds, moved>>
  BY DEF SendFlush, Sending, Underway, Msg, Done
<1>2. i \in 1..Len(cmds) /\ dead \subseteq ToSet(next)
  BY <1>1, NewIsNew
<1>3. ~Indexed(i)
  <2>1. cmds[i] \in Entry
    BY <1>2, ElementOfSeq DEF PlaceInv, IdInv, TypeInv
  <2>2. cmds[i].cmd \in Commands
    BY <2>1 DEF Entry
  <2>3. cmds[i].cmd.by = "none"
    BY <1>1, <2>2 DEF Commands, Placed
  <2>. QED BY <2>3 DEF Indexed
<1>. QED BY <1>1, <1>2, <1>3, MarkedPlace

\* Nothing moves when the batch is committed.
LEMMA CommitPlace ==
    ASSUME PlaceInv, Commit
    PROVE  HandlesGiven' /\ RefsTold' /\ Chains' /\ Carried' /\ OrderKept'
<1>1. /\ phase = "send" /\ phase' = "committed" /\ sent = Len(cmds)
      /\ chain' = Without(next, dead)
      /\ UNCHANGED <<start, cached, handle, ruleid, lastid, cmds, next, dead, sent, moved>>
  BY DEF Commit
<1>2. HandlesGiven' /\ RefsTold' /\ Chains'
  BY <1>1 DEF PlaceInv, HandlesGiven, RefsTold, Indexed, HitsReplacing, Chains
<1>3. Carried'
  BY <1>1 DEF PlaceInv, Carried
<1>4. OrderKept'
  BY <1>1 DEF PlaceInv, OrderKept, Told, Indexed, HitsReplacing
<1>. QED BY <1>2, <1>3, <1>4

\* At first the chain has the rules of the kernel, in their order.
LEMMA InitPlace == Init => PlaceInv
<1>. SUFFICES ASSUME Init PROVE PlaceInv
  OBVIOUS
<1>1. PICK k \in 0..MaxRules : chain = [i \in 1..k |-> i]
  BY DEF Init
<1>2. chain \in Seq(Nat) /\ DOMAIN chain = 1..k
  BY <1>1, SeqDef, BoundAssumption
<1>3. Once(chain) /\ ToSet(chain) \subseteq Old
  BY <1>1, <1>2, BoundAssumption DEF Once, ToSet, Old
<1>4. /\ start = chain /\ cmds = <<>> /\ sent = 0 /\ dead = {} /\ moved = 0 /\ phase = "evaluate"
      /\ handle = [r \in All |-> IF r \in Old THEN r ELSE None]
  BY DEF Init
<1>5. Chains
  BY <1>2, <1>3, <1>4 DEF Chains, Known
<1>6. DOMAIN cmds = {}
  BY <1>4
<1>7. RefsTold
  BY <1>6 DEF RefsTold
<1>8. HandlesGiven
  BY <1>4 DEF HandlesGiven
<1>9. Carried /\ OrderKept
  BY <1>4 DEF Carried, OrderKept
<1>. QED BY <1>5, <1>7, <1>8, <1>9, InitInv DEF PlaceInv

\* Each step keeps the rules where they are to be.
LEMMA PlaceStep == PlaceInv /\ [Next]_vars => PlaceInv'
<1>. SUFFICES ASSUME PlaceInv, [Next]_vars PROVE PlaceInv'
  OBVIOUS
<1>1. ASSUME NEW c \in Commands, EvaluateRule(c) PROVE PlaceInv'
  BY <1>1, RuleStep, RulePlace DEF PlaceInv
<1>2. ASSUME NEW c \in Commands, EvaluateReplace(c) PROVE PlaceInv'
  BY <1>2, ReplaceStep, ReplacePlace DEF PlaceInv
<1>3. ASSUME NEW c \in Commands, PassOver(c) PROVE PlaceInv'
  BY <1>3, PassStep, PassPlace DEF PlaceInv
<1>4. ASSUME UNCHANGED <<cached, handle, ruleid, lastid, cmds>>
      PROVE  IdInv'
  BY <1>4, OtherStep DEF PlaceInv
<1>5. CASE EndOfBatch
  BY <1>4, <1>5, EndPlace DEF PlaceInv, EndOfBatch
<1>6. CASE Others
  BY <1>4, <1>6, OthersPlace DEF PlaceInv, Others
<1>7. CASE SendRule
  BY <1>4, <1>7, SendRulePlace DEF PlaceInv, SendRule
<1>8. CASE SendDelete
  BY <1>4, <1>8, SendDeletePlace DEF PlaceInv, SendDelete
<1>9. CASE SendFlush
  BY <1>4, <1>9, SendFlushPlace DEF PlaceInv, SendFlush
<1>10. CASE Commit
  BY <1>4, <1>10, CommitPlace DEF PlaceInv, Commit
<1>11. CASE UNCHANGED vars
  <2>1. UNCHANGED <<chain, start, cached, handle, ruleid, lastid, cmds>>
        /\ UNCHANGED <<next, dead, sent, moved, phase>>
    BY <1>11 DEF vars
  <2>2. HandlesGiven' /\ RefsTold' /\ Chains' /\ Carried'
    BY <2>1 DEF PlaceInv, HandlesGiven, RefsTold, Indexed, HitsReplacing, Chains, Carried
  <2>3. OrderKept'
    BY <2>1 DEF PlaceInv, OrderKept, Told, Indexed, HitsReplacing
  <2>. QED BY <1>4, <2>1, <2>2, <2>3 DEF PlaceInv
<1>. QED BY <1>1, <1>2, <1>3, <1>5, <1>6, <1>7, <1>8, <1>9, <1>10, <1>11 DEF Next

\* The commit takes rules out of the chain and leaves the others in order.
LEMMA Stays == PlaceInv => StaysWithReference
<1>. SUFFICES ASSUME PlaceInv, phase = "committed", NEW i \in DOMAIN cmds,
                     Indexed(i), ~HitsReplacing(i),
                     At(chain, New(i)) # 0, At(chain, cmds[i].ref) # 0
              PROVE  IF cmds[i].cmd.op = "add"
                     THEN At(chain, cmds[i].ref) < At(chain, New(i))
                     ELSE At(chain, New(i)) < At(chain, cmds[i].ref)
  BY DEF StaysWithReference
<1>. DEFINE new == At(chain, New(i))
            ref == At(chain, cmds[i].ref)
<1>1. /\ sent = Len(cmds) /\ next \in Seq(Nat) /\ Once(next) /\ chain = Without(next, dead)
  BY DEF PlaceInv, Carried
<1>2. i \in 1..sent
  BY <1>1, LenProperties DEF PlaceInv, IdInv, TypeInv
<1>4. chain \in Seq(Nat)
  BY <1>1, WithoutKeepsOrder
<1>c. next \in Seq(Nat)
  BY <1>1
<1>a. PICK f : /\ f \in [1..Len(Without(next, dead)) -> 1..Len(next)]
               /\ \A k, l \in 1..Len(Without(next, dead)) : k < l => f[k] < f[l]
               /\ \A k \in 1..Len(Without(next, dead)) : 
                      Without(next, dead)[k] = next[f[k]] /\ next[f[k]] \notin dead
  BY <1>c, WithoutKeepsOrder
<1>5. /\ f \in [1..Len(chain) -> 1..Len(next)]
      /\ \A k, l \in 1..Len(chain) : k < l => f[k] < f[l]
      /\ \A k \in 1..Len(chain) : chain[k] = next[f[k]]
  BY <1>1, <1>a
<1>6. /\ new \in 1..Len(chain) /\ chain[new] = New(i)
      /\ ref \in 1..Len(chain) /\ chain[ref] = cmds[i].ref
  BY <1>4, AtFound
<1>. HIDE DEF new, ref
<1>b. cmds[i].ref # None
  <2>1. cmds[i].ref \in ToSet(next)
    <3>1. f[ref] \in 1..Len(next) /\ next[f[ref]] = cmds[i].ref
      BY <1>5, <1>6
    <3>. QED BY <1>1, <3>1, LenProperties DEF ToSet
  <2>2. moved \in Nat /\ ToSet(next) \subseteq Known(moved) \cup Sent(sent)
    BY DEF PlaceInv, Chains, Carried
  <2>3. sent \in Nat
    BY <1>1, LenProperties DEF PlaceInv, IdInv, TypeInv
  <2>4. None \notin Known(moved) \cup Sent(sent)
    BY <2>2, <2>3, BoundAssumption DEF Known, Sent, Old, Foreign, New, None
  <2>. QED BY <2>1, <2>2, <2>4
<1>3. IF cmds[i].cmd.op = "add"
      THEN Ahead(next, cmds[i].ref, New(i)) ELSE Ahead(next, New(i), cmds[i].ref)
  BY <1>2, <1>b DEF PlaceInv, OrderKept, Told
<1>7. /\ f[new] \in 1..Len(next) /\ next[f[new]] = New(i)
      /\ f[ref] \in 1..Len(next) /\ next[f[ref]] = cmds[i].ref
  BY <1>5, <1>6
<1>8. ASSUME NEW x \in 1..Len(chain), NEW y \in 1..Len(chain), Ahead(next, next[f[x]], next[f[y]])
      PROVE  x < y
  <2>1. DOMAIN next = 1..Len(next) /\ Len(next) \in Nat /\ Len(chain) \in Nat
    BY <1>1, <1>4, LenProperties
  <2>2. PICK p \in 1..Len(next), q \in 1..Len(next) :
            p < q /\ next[p] = next[f[x]] /\ next[q] = next[f[y]]
    BY <1>8, <2>1 DEF Ahead
  <2>3. f[x] \in 1..Len(next) /\ f[y] \in 1..Len(next)
    BY <1>5
  <2>4. p = f[x] /\ q = f[y]
    BY <1>1, <2>1, <2>2, <2>3 DEF Once
  <2>5. f[x] < f[y]
    BY <2>2, <2>4
  <2>6. ~ (y < x) /\ x # y
    BY <1>5, <2>1, <2>3, <2>5
  <2>. QED BY <2>1, <2>6
<1>9. cmds[i].cmd.op = "add" => ref < new
  BY <1>3, <1>6, <1>7, <1>8
<1>10. cmds[i].cmd.op # "add" => new < ref
  BY <1>3, <1>6, <1>7, <1>8
<1>. QED BY <1>9, <1>10 DEF new, ref

\* Others may have changed the chain, and the batch may delete rules: a rule
\* that is given by index is after, or before, the rule that was there.
THEOREM StaysAlways == Spec => []StaysWithReference
BY InitPlace, PlaceStep, Stays, PTL DEF Spec

(***************************************************************************)
(* What a commit leaves of a list: it is what is left of its parts, so that *)
(* what is done at a rule that stays is done at it in what is left.        *)
(***************************************************************************)

\* What is left of two lists is what is left of each.
LEMMA WithoutConcat ==
    ASSUME NEW x \in Seq(Nat), NEW y \in Seq(Nat), NEW gone
    PROVE  Without(x \o y, gone) = Without(x, gone) \o Without(y, gone)
<1>. DEFINE z == x \o y
            lx == Len(x)
            ly == Len(y)
<1>1. z \in Seq(Nat) /\ Len(z) = lx + ly
      /\ \A k \in 1..(lx + ly) : z[k] = IF k <= lx THEN x[k] ELSE y[k - lx]
  BY ConcatProperties
<1>2. lx \in Nat /\ ly \in Nat
  BY LenProperties
<1>3. (\A k \in 1..lx : x[k] \in Nat) /\ (\A k \in 1..ly : y[k] \in Nat)
  BY ElementOfSeq
<1>4. PICK kx : Keeps(kx, x, gone) /\ Without(x, gone) = kx[lx]
  BY WithoutKeeps
<1>5. PICK ky : Keeps(ky, y, gone) /\ Without(y, gone) = ky[ly]
  BY WithoutKeeps
<1>6. PICK kz : Keeps(kz, z, gone) /\ Without(z, gone) = kz[lx + ly]
  <2>. HIDE DEF z
  <2>. QED BY <1>1, WithoutKeeps
<1>7. /\ kx \in [0..lx -> Seq(Nat)] /\ kx[0] = <<>>
      /\ \A n \in 1..lx : kx[n] = IF x[n] \in gone THEN kx[n - 1] ELSE Append(kx[n - 1], x[n])
  BY <1>4 DEF Keeps
<1>8. /\ ky \in [0..ly -> Seq(Nat)] /\ ky[0] = <<>>
      /\ \A n \in 1..ly : ky[n] = IF y[n] \in gone THEN ky[n - 1] ELSE Append(ky[n - 1], y[n])
  BY <1>5 DEF Keeps
<1>9. /\ kz[0] = <<>>
      /\ \A n \in 1..(lx + ly) :
             kz[n] = IF z[n] \in gone THEN kz[n - 1] ELSE Append(kz[n - 1], z[n])
  BY <1>1, <1>6 DEF Keeps
<1>. HIDE DEF lx, ly, z
<1>. DEFINE S == {n \in 0..lx : kz[n] = kx[n]}
            T == {n \in 0..ly : kz[lx + n] = kx[lx] \o ky[n]}
<1>10. lx \in S
  <2>1. 0 \in S
    BY <1>2, <1>7, <1>9
  <2>2. ASSUME NEW n \in 0..(lx - 1), n \in S PROVE n + 1 \in S
    <3>1. n + 1 \in 1..lx /\ n + 1 \in 1..(lx + ly) /\ (n + 1) - 1 = n /\ n + 1 <= lx
      BY <1>2
    <3>2. z[n + 1] = x[n + 1]
      BY <1>1, <3>1
    <3>3. kz[n] = kx[n]
      BY <2>2
    <3>4. kz[n + 1] = kx[n + 1]
      BY <1>7, <1>9, <3>1, <3>2, <3>3
    <3>5. n + 1 \in 0..lx
      BY <1>2, <3>1
    <3>. QED BY <3>4, <3>5
  <2>. HIDE DEF S
  <2>3. 0..lx \subseteq S
    BY <1>2, <2>1, <2>2, Upto
  <2>. QED BY <1>2, <2>3
<1>11. kz[lx] = kx[lx] /\ kx[lx] \in Seq(Nat)
  BY <1>2, <1>7, <1>10
<1>12. ly \in T
  <2>1. 0 \in T
    <3>1. kx[lx] \o <<>> = kx[lx]
      BY <1>11, ConcatEmptySeq
    <3>2. lx + 0 = lx /\ 0 \in 0..ly /\ ky[0] = <<>>
      BY <1>2, <1>8
    <3>. QED BY <1>11, <3>1, <3>2
  <2>2. ASSUME NEW n \in 0..(ly - 1), n \in T PROVE n + 1 \in T
    <3>1. /\ n + 1 \in 1..ly /\ lx + (n + 1) \in 1..(lx + ly) /\ (n + 1) - 1 = n
          /\ ~(lx + (n + 1) <= lx) /\ (lx + (n + 1)) - lx = n + 1
          /\ (lx + (n + 1)) - 1 = lx + n /\ n \in 0..ly
      BY <1>2
    <3>2. z[lx + (n + 1)] = y[n + 1] /\ y[n + 1] \in Nat
      BY <1>1, <1>3, <3>1
    <3>3. kz[lx + n] = kx[lx] \o ky[n] /\ ky[n] \in Seq(Nat)
      BY <1>8, <2>2, <3>1
    <3>4. Append(kx[lx] \o ky[n], y[n + 1]) = kx[lx] \o Append(ky[n], y[n + 1])
      <4>. DEFINE u == kx[lx]
                  v == ky[n]
                  e == y[n + 1]
      <4>1. u \in Seq(Nat) /\ v \in Seq(Nat) /\ e \in Nat /\ <<e>> \in Seq(Nat)
        BY <1>11, <3>2, <3>3
      <4>. HIDE DEF u, v, e
      <4>2. u \o v \in Seq(Nat)
        BY <4>1, ConcatProperties
      <4>3. Append(u \o v, e) = (u \o v) \o <<e>> /\ Append(v, e) = v \o <<e>>
        BY <4>1, <4>2, AppendIsConcat
      <4>4. (u \o v) \o <<e>> = u \o (v \o <<e>>)
        BY <4>1, ConcatAssociative, SMTT(30)
      <4>5. Append(u \o v, e) = u \o Append(v, e)
        BY <4>3, <4>4
      <4>. QED BY <4>5 DEF u, v, e
    <3>5. kz[lx + (n + 1)] = IF y[n + 1] \in gone THEN kz[lx + n] ELSE Append(kz[lx + n], y[n + 1])
      BY <1>9, <3>1, <3>2
    <3>6. ky[n + 1] = IF y[n + 1] \in gone THEN ky[n] ELSE Append(ky[n], y[n + 1])
      BY <1>8, <3>1
    <3>7. kz[lx + (n + 1)] = kx[lx] \o ky[n + 1]
      BY <3>3, <3>4, <3>5, <3>6
    <3>8. n + 1 \in 0..ly
      BY <1>2, <3>1
    <3>. QED BY <3>7, <3>8
  <2>. HIDE DEF T
  <2>3. 0..ly \subseteq T
    BY <1>2, <2>1, <2>2, Upto
  <2>. QED BY <1>2, <2>3
<1>13. kz[lx + ly] = kx[lx] \o ky[ly]
  BY <1>12
<1>. QED BY <1>4, <1>5, <1>6, <1>13 DEF lx, ly, z

\* One rule is left, or not.
LEMMA WithoutOne ==
    ASSUME NEW e \in Nat, NEW gone
    PROVE  Without(<<e>>, gone) = IF e \in gone THEN <<>> ELSE <<e>>
<1>1. <<e>> \in Seq(Nat) /\ Len(<<e>>) = 1 /\ <<e>>[1] = e /\ 1 \in 1..1 /\ 1 - 1 = 0
  OBVIOUS
<1>2. PICK kept : Keeps(kept, <<e>>, gone) /\ Without(<<e>>, gone) = kept[Len(<<e>>)]
  BY <1>1, WithoutKeeps
<1>3. kept[0] = <<>> /\ kept[1] = IF e \in gone THEN kept[0] ELSE Append(kept[0], e)
  BY <1>1, <1>2 DEF Keeps
<1>4. Append(<<>>, e) = <<e>>
  OBVIOUS
<1>. QED BY <1>1, <1>2, <1>3, <1>4

\* Rules that are not in the list do not matter.
LEMMA WithoutSame ==
    ASSUME NEW list \in Seq(Nat), NEW gone, NEW more, ToSet(list) \cap more = {}
    PROVE  Without(list, gone \cup more) = Without(list, gone)
<1>. DEFINE N == Len(list)
<1>1. PICK k : Keeps(k, list, gone) /\ Without(list, gone) = k[N]
  BY WithoutKeeps
<1>2. PICK l : Keeps(l, list, gone \cup more) /\ Without(list, gone \cup more) = l[N]
  BY WithoutKeeps
<1>3. N \in Nat /\ DOMAIN list = 1..N
  BY LenProperties
<1>4. \A n \in 1..N : list[n] \notin more
  BY <1>3 DEF ToSet
<1>. DEFINE S == {n \in 0..N : k[n] = l[n]}
<1>5. 0 \in S
  BY <1>1, <1>2, <1>3 DEF Keeps
<1>6. ASSUME NEW n \in 0..(N - 1), n \in S PROVE n + 1 \in S
  <2>1. n + 1 \in 1..N /\ n + 1 \in 0..N /\ (n + 1) - 1 = n
    BY <1>3
  <2>2. list[n + 1] \in gone \cup more <=> list[n + 1] \in gone
    BY <1>4, <2>1
  <2>3. k[n] = l[n]
    BY <1>6
  <2>4. k[n + 1] = IF list[n + 1] \in gone THEN k[n] ELSE Append(k[n], list[n + 1])
    BY <1>1, <2>1 DEF Keeps
  <2>5. l[n + 1] = IF list[n + 1] \in gone \cup more THEN l[n] ELSE Append(l[n], list[n + 1])
    BY <1>2, <2>1 DEF Keeps
  <2>. QED BY <2>1, <2>2, <2>3, <2>4, <2>5
<1>. HIDE DEF S, N
<1>7. 0..N \subseteq S
  BY <1>3, <1>5, <1>6, Upto
<1>8. N \in S
  BY <1>3, <1>7
<1>. QED BY <1>1, <1>2, <1>8 DEF S, N

\* Nothing is left of a list that is deleted.
LEMMA WithoutAll ==
    ASSUME NEW list \in Seq(Nat), NEW gone, ToSet(list) \subseteq gone
    PROVE  Without(list, gone) = <<>>
<1>. DEFINE N == Len(list)
<1>1. PICK k : Keeps(k, list, gone) /\ Without(list, gone) = k[N]
  BY WithoutKeeps
<1>3. N \in Nat /\ DOMAIN list = 1..N
  BY LenProperties
<1>4. \A n \in 1..N : list[n] \in gone
  BY <1>3 DEF ToSet
<1>. DEFINE S == {n \in 0..N : k[n] = <<>>}
<1>5. 0 \in S
  BY <1>1, <1>3 DEF Keeps
<1>6. ASSUME NEW n \in 0..(N - 1), n \in S PROVE n + 1 \in S
  <2>1. n + 1 \in 1..N /\ n + 1 \in 0..N /\ (n + 1) - 1 = n
    BY <1>3
  <2>2. k[n + 1] = k[n]
    BY <1>1, <1>4, <2>1 DEF Keeps
  <2>. QED BY <1>6, <2>1, <2>2
<1>. HIDE DEF S, N
<1>7. 0..N \subseteq S
  BY <1>3, <1>5, <1>6, Upto
<1>8. N \in S
  BY <1>3, <1>7
<1>. QED BY <1>1, <1>8 DEF S, N

\* All of a list is left when nothing is deleted.
LEMMA WithoutNone ==
    ASSUME NEW list \in Seq(Nat)
    PROVE  Without(list, {}) = list
<1>. DEFINE N == Len(list)
<1>1. PICK k : Keeps(k, list, {}) /\ Without(list, {}) = k[N]
  BY WithoutKeeps
<1>3. N \in Nat /\ \A n \in 1..N : list[n] \in Nat
  BY LenProperties, ElementOfSeq
<1>. DEFINE S == {n \in 0..N : k[n] = SubSeq(list, 1, n)}
<1>5. 0 \in S
  <2>1. SubSeq(list, 1, 0) = <<>>
    BY SubSeqEmpty
  <2>2. k[0] = <<>> /\ 0 \in 0..N
    BY <1>1, <1>3 DEF Keeps
  <2>. QED BY <2>1, <2>2
<1>6. ASSUME NEW n \in 0..(N - 1), n \in S PROVE n + 1 \in S
  <2>1. n + 1 \in 1..N /\ n + 1 \in 0..N /\ (n + 1) - 1 = n /\ 1 \in 1..N /\ n + 1 \in 1..Len(list)
    BY <1>3
  <2>2. k[n + 1] = Append(k[n], list[n + 1]) /\ k[n] \in Seq(Nat)
    <3>1. k \in [0..N -> Seq(Nat)]
      BY <1>1 DEF Keeps
    <3>2. k[n + 1] = IF list[n + 1] \in {} THEN k[(n + 1) - 1] ELSE Append(k[(n + 1) - 1], list[n + 1])
      BY <1>1, <2>1 DEF Keeps
    <3>3. n \in 0..N
      BY <1>3
    <3>. HIDE DEF N
    <3>. QED BY <2>1, <3>1, <3>2, <3>3
  <2>3. SubSeq(list, 1, n + 1) = SubSeq(list, 1, (n + 1) - 1) \o <<list[n + 1]>>
    BY <2>1, SubSeqRecursiveSecond
  <2>4. Append(k[n], list[n + 1]) = k[n] \o <<list[n + 1]>>
    BY <1>3, <2>1, <2>2, AppendIsConcat
  <2>. QED BY <1>6, <2>1, <2>2, <2>3, <2>4
<1>. HIDE DEF S
<1>7. 0..N \subseteq S
  BY <1>3, <1>5, <1>6, Upto
<1>8. N \in S
  BY <1>3, <1>7
<1>9. SubSeq(list, 1, Len(list)) = list
  BY SubSeqFull
<1>. QED BY <1>1, <1>8, <1>9 DEF S

\* What is left has rules that are not deleted, each once.
LEMMA WithoutOnce ==
    ASSUME NEW list \in Seq(Nat), Once(list), NEW gone
    PROVE  /\ Without(list, gone) \in Seq(Nat) /\ Once(Without(list, gone))
           /\ ToSet(Without(list, gone)) \subseteq ToSet(list) \ gone
<1>. DEFINE w == Without(list, gone)
<1>1. PICK f : /\ f \in [1..Len(w) -> 1..Len(list)]
               /\ \A k, l \in 1..Len(w) : k < l => f[k] < f[l]
               /\ \A k \in 1..Len(w) : w[k] = list[f[k]] /\ list[f[k]] \notin gone
  BY WithoutKeepsOrder
<1>2. w \in Seq(Nat)
  BY WithoutKeepsOrder
<1>. HIDE DEF w
<1>3. DOMAIN w = 1..Len(w) /\ DOMAIN list = 1..Len(list) /\ Len(w) \in Nat /\ Len(list) \in Nat
  BY <1>2, LenProperties
<1>4. ASSUME NEW p \in 1..Len(w), NEW q \in 1..Len(w), w[p] = w[q] PROVE p = q
  <2>1. f[p] \in 1..Len(list) /\ f[q] \in 1..Len(list) /\ f[p] = f[q]
    BY <1>1, <1>3, <1>4 DEF Once
  <2>2. ~(p < q) /\ ~(q < p)
    BY <1>1, <1>3, <2>1
  <2>. QED BY <1>3, <2>2
<1>5. Once(w)
  BY <1>3, <1>4 DEF Once
<1>6. ToSet(w) \subseteq ToSet(list) \ gone
  BY <1>1, <1>3 DEF ToSet
<1>. QED BY <1>2, <1>5, <1>6 DEF w

\* What is where in a list around a rule, and around two.
LEMMA Around ==
    ASSUME NEW a \in Seq(Nat), NEW x \in Nat, NEW b \in Seq(Nat)
    PROVE  LET list == (a \o <<x>>) \o b
           IN  /\ list \in Seq(Nat) /\ Len(list) = Len(a) + 1 + Len(b)
               /\ \A k \in 1..(Len(a) + 1 + Len(b)) :
                      list[k] = IF k <= Len(a) THEN a[k]
                                ELSE IF k = Len(a) + 1 THEN x ELSE b[k - (Len(a) + 1)]
<1>. DEFINE la == Len(a)
            lb == Len(b)
            c == a \o <<x>>
<1>1. <<x>> \in Seq(Nat) /\ Len(<<x>>) = 1 /\ <<x>>[1] = x
  OBVIOUS
<1>2. la \in Nat /\ lb \in Nat
  BY LenProperties
<1>3. /\ c \in Seq(Nat) /\ Len(c) = Len(a) + Len(<<x>>)
      /\ \A k \in 1..(Len(a) + Len(<<x>>)) :
             c[k] = IF k <= Len(a) THEN a[k] ELSE <<x>>[k - Len(a)]
  BY <1>1, ConcatProperties
<1>c. c \in Seq(Nat)
  BY <1>3
<1>. HIDE DEF c
<1>4. /\ c \o b \in Seq(Nat) /\ Len(c \o b) = Len(c) + Len(b)
      /\ \A k \in 1..(Len(c) + Len(b)) : (c \o b)[k] = IF k <= Len(c) THEN c[k] ELSE b[k - Len(c)]
  BY <1>c, ConcatProperties
<1>5. Len(c) = la + 1 /\ \A k \in 1..(la + 1) : c[k] = IF k <= la THEN a[k] ELSE x
  <2>1. Len(c) = la + 1
    BY <1>1, <1>3
  <2>2. \A k \in 1..(la + 1) : c[k] = IF k <= la THEN a[k] ELSE <<x>>[k - la]
    BY <1>1, <1>3
  <2>. HIDE DEF la
  <2>. QED BY <1>1, <1>2, <2>1, <2>2
<1>6. /\ Len(c \o b) = (la + 1) + lb
      /\ \A k \in 1..((la + 1) + lb) : (c \o b)[k] = IF k <= la + 1 THEN c[k] ELSE b[k - (la + 1)]
  BY <1>4, <1>5
<1>. HIDE DEF la, lb
<1>7. \A k \in 1..((la + 1) + lb) :
          (c \o b)[k] = IF k <= la THEN a[k] ELSE IF k = la + 1 THEN x ELSE b[k - (la + 1)]
  BY <1>2, <1>5, <1>6
<1>. QED BY <1>4, <1>6, <1>7 DEF la, lb, c

\* A list around one of its rules.
LEMMA SplitAt ==
    ASSUME NEW list \in Seq(Nat), Once(list), NEW r \in ToSet(list)
    PROVE  \E a \in Seq(Nat), b \in Seq(Nat) :
               /\ list = (a \o <<r>>) \o b /\ r \in Nat
               /\ r \notin ToSet(a) /\ r \notin ToSet(b)
<1>1. Len(list) \in Nat /\ DOMAIN list = 1..Len(list) /\ \A k \in 1..Len(list) : list[k] \in Nat
  BY LenProperties, ElementOfSeq
<1>2. PICK p \in 1..Len(list) : r = list[p]
  BY <1>1 DEF ToSet
<1>. DEFINE len == Len(list)
            a == SubSeq(list, 1, p - 1)
            b == SubSeq(list, p + 1, len)
<1>3. /\ a \in Seq(Nat) /\ Len(a) = p - 1
      /\ \A k \in 1..(p - 1) : a[k] = list[k]
  <2>1. /\ a \in Seq(Nat) /\ Len(a) = IF 1 <= p - 1 THEN (p - 1) - 1 + 1 ELSE 0
        /\ \A k \in 1..((p - 1) - 1 + 1) : a[k] = list[1 + k - 1]
    BY <1>1, SubSeqProperties
  <2>. HIDE DEF a, len
  <2>2. \A k \in 1..(p - 1) : 1 + k - 1 = k
    BY <1>1
  <2>. QED BY <1>1, <2>1, <2>2 DEF len
<1>4. /\ b \in Seq(Nat) /\ Len(b) = len - p
      /\ \A k \in 1..(len - p) : b[k] = list[p + k]
  <2>1. /\ b \in Seq(Nat) /\ Len(b) = IF p + 1 <= len THEN len - (p + 1) + 1 ELSE 0
        /\ \A k \in 1..(len - (p + 1) + 1) : b[k] = list[(p + 1) + k - 1]
    BY <1>1, SubSeqProperties, SMTT(30)
  <2>2. len \in Nat /\ p \in 1..len
    BY <1>1
  <2>. HIDE DEF b, len
  <2>3. \A k \in 1..(len - p) : k \in 1..(len - (p + 1) + 1) /\ (p + 1) + k - 1 = p + k
    BY <2>2
  <2>4. (IF p + 1 <= len THEN len - (p + 1) + 1 ELSE 0) = len - p
    BY <2>2
  <2>. QED BY <2>1, <2>3, <2>4
<1>. HIDE DEF a, b
<1>5. r \in Nat
  BY <1>1, <1>2
<1>. DEFINE l == (a \o <<r>>) \o b
<1>6. /\ l \in Seq(Nat) /\ Len(l) = Len(a) + 1 + Len(b)
      /\ \A k \in 1..(Len(a) + 1 + Len(b)) :
             l[k] = IF k <= Len(a) THEN a[k] ELSE IF k = Len(a) + 1 THEN r ELSE b[k - (Len(a) + 1)]
  BY <1>3, <1>4, <1>5, Around
<1>. HIDE DEF l, len
<1>7. /\ len \in Nat /\ p \in 1..len /\ Len(a) = p - 1 /\ Len(b) = len - p
      /\ Len(a) + 1 + Len(b) = len
  BY <1>1, <1>3, <1>4 DEF len
<1>8. ASSUME NEW k \in 1..len PROVE l[k] = list[k]
  <2>1. CASE k <= p - 1
    <3>1. l[k] = a[k]
      BY <1>6, <1>7, <2>1
    <3>2. k \in 1..(p - 1)
      BY <1>7, <2>1
    <3>. QED BY <1>3, <3>1, <3>2
  <2>2. CASE k = p
    BY <1>2, <1>6, <1>7, <2>2
  <2>3. CASE k > p
    <3>1. ~(k <= Len(a)) /\ k # Len(a) + 1 /\ k - (Len(a) + 1) = k - p
      BY <1>7, <2>3
    <3>2. l[k] = b[k - p]
      BY <1>6, <1>7, <3>1
    <3>3. k - p \in 1..(len - p) /\ p + (k - p) = k
      BY <1>7, <2>3
    <3>. QED BY <1>4, <3>2, <3>3
  <2>. QED BY <1>7, <2>1, <2>2, <2>3
<1>9. l = list
  BY <1>6, <1>7, <1>8, SeqEqual DEF len
<1>10. r \notin ToSet(a)
  <2>1. \A k \in 1..(p - 1) : k \in 1..len /\ k # p
    BY <1>7
  <2>2. DOMAIN a = 1..(p - 1)
    BY <1>3, LenProperties
  <2>. QED BY <1>1, <1>2, <1>3, <2>1, <2>2 DEF ToSet, Once, len
<1>11. r \notin ToSet(b)
  <2>1. \A k \in 1..(len - p) : p + k \in 1..len /\ p + k # p
    BY <1>7
  <2>2. DOMAIN b = 1..(len - p)
    BY <1>4, LenProperties
  <2>3. ASSUME NEW k \in 1..(len - p) PROVE b[k] # r
    <3>1. p + k \in 1..len /\ p + k # p /\ b[k] = list[p + k]
      BY <1>4, <2>1
    <3>2. list[p + k] # list[p]
      BY <1>1, <3>1 DEF Once, len
    <3>. QED BY <1>2, <3>1, <3>2
  <2>. QED BY <2>2, <2>3 DEF ToSet
<1>. QED BY <1>3, <1>4, <1>5, <1>9, <1>10, <1>11 DEF l

\* A rule put between two lists, and one taken from between them.
LEMMA Between ==
    ASSUME NEW x \in Seq(Nat), NEW y \in Seq(Nat), NEW e \in Nat
    PROVE  /\ InsertAt(x \o y, Len(x) + 1, e) = (x \o <<e>>) \o y
           /\ RemoveAt((x \o <<e>>) \o y, Len(x) + 1) = x \o y
<1>. DEFINE z == x \o y
            w == (x \o <<e>>) \o y
            lx == Len(x)
            ly == Len(y)
<1>1. lx \in Nat /\ ly \in Nat
  BY LenProperties
<1>2. /\ z \in Seq(Nat) /\ Len(z) = lx + ly
      /\ \A k \in 1..(lx + ly) : z[k] = IF k <= lx THEN x[k] ELSE y[k - lx]
  BY ConcatProperties
<1>3. /\ w \in Seq(Nat) /\ Len(w) = lx + 1 + ly
      /\ \A k \in 1..(lx + 1 + ly) :
             w[k] = IF k <= lx THEN x[k] ELSE IF k = lx + 1 THEN e ELSE y[k - (lx + 1)]
  BY Around
<1>. HIDE DEF z, w, lx, ly
<1>4. /\ lx + 1 \in 1..(Len(z) + 1) /\ lx + 1 \in 1..Len(w)
      /\ Len(z) + 1 = Len(w) /\ Len(w) - 1 = Len(z)
  BY <1>1, <1>2, <1>3
<1>5. InsertAt(z, lx + 1, e) = w
  <2>. DEFINE l == InsertAt(z, lx + 1, e)
  <2>1. /\ l \in Seq(Nat) /\ Len(l) = Len(z) + 1
        /\ \A k \in 1..(Len(z) + 1) :
               l[k] = IF k < lx + 1 THEN z[k] ELSE IF k = lx + 1 THEN e ELSE z[k - 1]
    BY <1>2, <1>4, Inserted, ZenonT(60)
  <2>. HIDE DEF l
  <2>2. ASSUME NEW k \in 1..(lx + 1 + ly) PROVE l[k] = w[k]
    <3>1. CASE k <= lx
      <4>1. k \in 1..(lx + ly) /\ k \in 1..(Len(z) + 1) /\ k < lx + 1
        BY <1>1, <1>2, <3>1
      <4>. QED BY <1>2, <1>3, <2>1, <3>1, <4>1
    <3>2. CASE k = lx + 1
      BY <1>1, <1>2, <1>3, <2>1, <3>2
    <3>3. CASE k > lx + 1
      <4>1. /\ k - 1 \in 1..(lx + ly) /\ k \in 1..(Len(z) + 1) /\ ~(k < lx + 1) /\ k # lx + 1
            /\ ~(k - 1 <= lx) /\ (k - 1) - lx = k - (lx + 1) /\ ~(k <= lx)
        BY <1>1, <1>2, <3>3
      <4>2. l[k] = z[k - 1]
        BY <2>1, <4>1
      <4>3. z[k - 1] = y[(k - 1) - lx]
        BY <1>2, <4>1
      <4>4. w[k] = y[k - (lx + 1)]
        BY <1>3, <4>1
      <4>. QED BY <4>1, <4>2, <4>3, <4>4
    <3>. QED BY <1>1, <3>1, <3>2, <3>3
  <2>3. l = w
    BY <1>1, <1>2, <1>3, <2>1, <2>2, SeqEqual
  <2>. QED BY <2>3 DEF l
<1>6. RemoveAt(w, lx + 1) = z
  <2>. DEFINE l == RemoveAt(w, lx + 1)
  <2>1. /\ l \in Seq(Nat) /\ Len(l) = Len(w) - 1
        /\ \A k \in 1..(Len(w) - 1) : l[k] = IF k < lx + 1 THEN w[k] ELSE w[k + 1]
    BY <1>3, <1>4, Removed
  <2>. HIDE DEF l
  <2>2. ASSUME NEW k \in 1..(lx + ly) PROVE l[k] = z[k]
    <3>0. k \in 1..(Len(w) - 1) /\ k \in 1..(lx + 1 + ly) /\ k + 1 \in 1..(lx + 1 + ly)
      BY <1>1, <1>3
    <3>1. CASE k <= lx
      <4>1. k < lx + 1
        BY <1>1, <3>1
      <4>. QED BY <1>2, <1>3, <2>1, <3>0, <3>1, <4>1
    <3>2. CASE k > lx
      <4>1. /\ ~(k < lx + 1) /\ ~(k + 1 <= lx) /\ k + 1 # lx + 1 /\ ~(k <= lx)
            /\ (k + 1) - (lx + 1) = k - lx
        BY <1>1, <3>2
      <4>2. l[k] = w[k + 1]
        BY <2>1, <3>0, <4>1
      <4>3. w[k + 1] = y[(k + 1) - (lx + 1)]
        BY <1>3, <3>0, <4>1
      <4>4. z[k] = y[k - lx]
        BY <1>2, <4>1
      <4>. QED BY <4>1, <4>2, <4>3, <4>4
    <3>. QED BY <1>1, <3>1, <3>2
  <2>3. l = z
    BY <1>1, <1>2, <1>3, <1>4, <2>1, <2>2, SeqEqual
  <2>. QED BY <2>3 DEF l
<1>. QED BY <1>5, <1>6 DEF z, w, lx, ly

\* A list is the rule r between two others.
Splits(list, a, r, b) == list = (a \o <<r>>) \o b

\* What is done at that rule.
DoneAt(list, a, r, b, e) ==
    /\ After(list, r, e) = ((a \o <<r>>) \o <<e>>) \o b
    /\ Before(list, r, e) = ((a \o <<e>>) \o <<r>>) \o b
    /\ RemoveAt(list, At(list, r)) = a \o b
    /\ [list EXCEPT ![At(list, r)] = e] = (a \o <<e>>) \o b

\* It is done in either list, or between them.
LEMMA DoneAround ==
    ASSUME NEW a \in Seq(Nat), NEW r \in Nat, NEW b \in Seq(Nat), NEW e \in Nat,
           NEW list, Splits(list, a, r, b), Once(list)
    PROVE  DoneAt(list, a, r, b, e)
<1>1. /\ list \in Seq(Nat) /\ Len(list) = Len(a) + 1 + Len(b)
      /\ \A k \in 1..(Len(a) + 1 + Len(b)) :
             list[k] = IF k <= Len(a) THEN a[k]
                       ELSE IF k = Len(a) + 1 THEN r ELSE b[k - (Len(a) + 1)]
  BY Around DEF Splits
<1>2. Len(a) \in Nat /\ Len(b) \in Nat
  BY LenProperties
<1>. DEFINE la == Len(a)
            lb == Len(b)
            p == la + 1
<1>3. p \in 1..Len(list) /\ list[p] = r
  <2>1. la \in Nat /\ lb \in Nat /\ Len(list) = la + 1 + lb
    BY <1>1, <1>2
  <2>2. \A k \in 1..(la + 1 + lb) :
            list[k] = IF k <= la THEN a[k] ELSE IF k = la + 1 THEN r ELSE b[k - (la + 1)]
    BY <1>1
  <2>. HIDE DEF la, lb
  <2>. QED BY <2>1, <2>2
<1>4. At(list, r) = p
  <2>. HIDE DEF p
  <2>. QED BY <1>1, <1>3, AtPlace
<1>5. /\ a \o <<r>> \in Seq(Nat) /\ Len(a \o <<r>>) = p
      /\ <<r>> \in Seq(Nat) /\ <<e>> \in Seq(Nat)
      /\ <<r>> \o b \in Seq(Nat) /\ a \o <<e>> \in Seq(Nat)
  <2>1. <<r>> \in Seq(Nat) /\ Len(<<r>>) = 1 /\ <<e>> \in Seq(Nat)
    OBVIOUS
  <2>. QED BY <1>2, <2>1, ConcatProperties
<1>6. After(list, r, e) = ((a \o <<r>>) \o <<e>>) \o b
  <2>. DEFINE x == a \o <<r>>
  <2>1. x \in Seq(Nat) /\ Len(x) = p /\ list = x \o b
    BY <1>5 DEF Splits
  <2>. HIDE DEF x
  <2>2. InsertAt(x \o b, Len(x) + 1, e) = (x \o <<e>>) \o b
    BY <2>1, Between
  <2>3. After(list, r, e) = (x \o <<e>>) \o b
    BY <1>4, <2>1, <2>2 DEF After
  <2>. QED BY <2>3 DEF x
<1>7. Before(list, r, e) = ((a \o <<e>>) \o <<r>>) \o b
  <2>. DEFINE y == <<r>> \o b
              u == <<r>>
              v == a \o <<e>>
  <2>1. y \in Seq(Nat) /\ u \in Seq(Nat) /\ v \in Seq(Nat)
    BY <1>5
  <2>2. list = a \o y
    <3>. HIDE DEF u
    <3>1. (a \o u) \o b = a \o (u \o b)
      BY <2>1, ConcatAssociative
    <3>. QED BY <3>1 DEF u, Splits
  <2>3. (v \o u) \o b = v \o (u \o b)
    <3>1. u \in Seq(Nat) /\ v \in Seq(Nat)
      BY <2>1
    <3>. HIDE DEF u, v
    <3>. QED BY <3>1, ConcatAssociative, SMTT(30)
  <2>. HIDE DEF y
  <2>4. InsertAt(a \o y, Len(a) + 1, e) = (a \o <<e>>) \o y
    BY <2>1, Between
  <2>5. Before(list, r, e) = (a \o <<e>>) \o y
    BY <1>4, <2>2, <2>4 DEF Before
  <2>. QED BY <2>3, <2>5 DEF y
<1>8. RemoveAt(list, At(list, r)) = a \o b
  <2>. DEFINE l == (a \o <<r>>) \o b
  <2>1. RemoveAt(l, Len(a) + 1) = a \o b
    BY Between
  <2>2. list = l
    BY DEF Splits
  <2>. HIDE DEF l
  <2>. QED BY <1>4, <2>1, <2>2
<1>9. [list EXCEPT ![At(list, r)] = e] = (a \o <<e>>) \o b
  <2>. DEFINE w == (a \o <<e>>) \o b
              l == [list EXCEPT ![p] = e]
  <2>1. /\ w \in Seq(Nat) /\ Len(w) = la + 1 + lb
        /\ \A k \in 1..(la + 1 + lb) :
               w[k] = IF k <= la THEN a[k] ELSE IF k = la + 1 THEN e ELSE b[k - (la + 1)]
    BY Around
  <2>2. /\ l \in Seq(Nat) /\ Len(l) = Len(list)
        /\ \A k \in 1..Len(list) : l[k] = IF k = p THEN e ELSE list[k]
    <3>1. list \in Seq(Nat) /\ p \in 1..Len(list)
      BY <1>1, <1>3
    <3>. HIDE DEF p
    <3>. QED BY <3>1, ExceptSeq
  <2>3. /\ Len(list) = la + 1 + lb /\ la \in Nat /\ lb \in Nat
        /\ \A k \in 1..(la + 1 + lb) :
               list[k] = IF k <= la THEN a[k] ELSE IF k = la + 1 THEN r ELSE b[k - (la + 1)]
    BY <1>1, <1>2
  <2>. HIDE DEF w, l, la, lb
  <2>4. ASSUME NEW k \in 1..(la + 1 + lb) PROVE l[k] = w[k]
    <3>1. CASE k = la + 1
      BY <2>1, <2>2, <2>3, <3>1
    <3>2. CASE k # la + 1
      BY <2>1, <2>2, <2>3, <3>2
    <3>. QED BY <3>1, <3>2
  <2>5. l = w
    BY <2>1, <2>2, <2>3, <2>4, SeqEqual
  <2>. QED BY <1>4, <2>5 DEF l, w
<1>. QED BY <1>6, <1>7, <1>8, <1>9 DEF DoneAt

\* What is left of a list that two others make.
Joins(x, y, gone) == Without(x \o y, gone) = Without(x, gone) \o Without(y, gone)

\* It is what is left of each.
LEMMA Joined ==
    ASSUME NEW x \in Seq(Nat), NEW y \in Seq(Nat), NEW gone
    PROVE  Joins(x, y, gone)
BY WithoutConcat DEF Joins

\* What the commit leaves around a rule that is not deleted.
LEMMA WithoutSplits ==
    ASSUME NEW list \in Seq(Nat), Once(list), NEW gone,
           NEW r \in ToSet(Without(list, gone))
    PROVE  \E a \in Seq(Nat), b \in Seq(Nat) :
               /\ Splits(list, a, r, b) /\ r \in Nat /\ r \notin gone /\ r \in ToSet(list)
               /\ r \notin ToSet(a) /\ r \notin ToSet(b)
               /\ Without(a, gone) \in Seq(Nat) /\ Without(b, gone) \in Seq(Nat)
               /\ Splits(Without(list, gone), Without(a, gone), r, Without(b, gone))
<1>1. r \in ToSet(list) /\ r \notin gone
  BY WithoutOnce
<1>2. PICK a \in Seq(Nat), b \in Seq(Nat) :
          list = (a \o <<r>>) \o b /\ r \in Nat /\ r \notin ToSet(a) /\ r \notin ToSet(b)
  BY <1>1, SplitAt
<1>3. Splits(list, a, r, b) /\ r \in Nat
  BY <1>2 DEF Splits
<1>4. Without(a, gone) \in Seq(Nat) /\ Without(b, gone) \in Seq(Nat)
  BY WithoutKeepsOrder
<1>5. Without((a \o <<r>>) \o b, gone) = (Without(a, gone) \o <<r>>) \o Without(b, gone)
  <2>. DEFINE one == <<r>>
              c == a \o one
  <2>1. one \in Seq(Nat)
    BY <1>3
  <2>2. Without(one, gone) = one
    BY <1>1, <1>3, WithoutOne
  <2>. HIDE DEF one
  <2>3. c \in Seq(Nat)
    BY <2>1, ConcatProperties
  <2>4. Without(c, gone) = Without(a, gone) \o Without(one, gone)
    BY <2>1, WithoutConcat
  <2>. HIDE DEF c
  <2>5. Without(c \o b, gone) = Without(c, gone) \o Without(b, gone)
    BY <2>3, WithoutConcat
  <2>. QED BY <2>2, <2>4, <2>5 DEF one, c
<1>6. Splits(Without(list, gone), Without(a, gone), r, Without(b, gone))
  BY <1>3, <1>5 DEF Splits
<1>. QED BY <1>1, <1>2, <1>3, <1>4, <1>6

\* What is done at a rule of the kernel's list is done at the one that is left.
PutAlike(list, gone, r, new) ==
    /\ Without(After(list, r, new), gone) = After(Without(list, gone), r, new)
    /\ Without(Before(list, r, new), gone) = Before(Without(list, gone), r, new)
    /\ Without(list, gone \cup {r}) =
           RemoveAt(Without(list, gone), At(Without(list, gone), r))
    /\ Without(After(list, r, new), gone \cup {r}) =
           [Without(list, gone) EXCEPT ![At(Without(list, gone), r)] = new]

\* It is.
LEMMA WithoutPut ==
    ASSUME NEW list \in Seq(Nat), Once(list), NEW gone, NEW new \in Nat,
           new \notin ToSet(list), new \notin gone,
           NEW r \in ToSet(Without(list, gone))
    PROVE  PutAlike(list, gone, r, new)
<1>1. PICK a \in Seq(Nat), b \in Seq(Nat) :
          /\ Splits(list, a, r, b) /\ r \in Nat /\ r \notin gone /\ r \in ToSet(list)
          /\ r \notin ToSet(a) /\ r \notin ToSet(b)
          /\ Without(a, gone) \in Seq(Nat) /\ Without(b, gone) \in Seq(Nat)
          /\ Splits(Without(list, gone), Without(a, gone), r, Without(b, gone))
  BY WithoutSplits
<1>. DEFINE A == Without(a, gone)
            B == Without(b, gone)
            M == Without(list, gone)
            more == gone \cup {r}
<1>2. A \in Seq(Nat) /\ B \in Seq(Nat) /\ Splits(M, A, r, B) /\ r \in Nat
  BY <1>1
<1>3. Once(M)
  BY WithoutOnce
<1>4. Without(a, more) = A /\ Without(b, more) = B
  <2>1. ToSet(a) \cap {r} = {} /\ ToSet(b) \cap {r} = {}
    BY <1>1
  <2>. QED BY <2>1, WithoutSame
<1>5. new \notin more /\ r \in more /\ r \notin gone
  BY <1>1
<1>. DEFINE one == <<r>>
            two == <<new>>
<1>6. one \in Seq(Nat) /\ two \in Seq(Nat) /\ <<>> \in Seq(Nat)
  BY <1>2
<1>7. /\ Without(two, gone) = two /\ Without(one, gone) = one
      /\ Without(two, more) = two /\ Without(one, more) = <<>>
  <2>. HIDE DEF more
  <2>. QED BY <1>2, <1>5, WithoutOne
<1>8. DoneAt(list, a, r, b, new)
  BY <1>1, DoneAround
<1>. HIDE DEF A, B, M, more
<1>9. DoneAt(M, A, r, B, new)
  BY <1>2, <1>3, DoneAround
<1>8a. /\ After(list, r, new) = ((a \o one) \o two) \o b
       /\ Before(list, r, new) = ((a \o two) \o one) \o b
       /\ list = (a \o one) \o b
  BY <1>1, <1>8 DEF Splits, DoneAt
<1>9a. /\ After(M, r, new) = ((A \o one) \o two) \o B
       /\ Before(M, r, new) = ((A \o two) \o one) \o B
       /\ RemoveAt(M, At(M, r)) = A \o B
       /\ [M EXCEPT ![At(M, r)] = new] = (A \o two) \o B
  BY <1>9 DEF DoneAt
<1>. HIDE DEF one, two
<1>10. Without(a, gone) = A /\ Without(b, gone) = B
  BY DEF A, B
<1>11. ASSUME NEW g
       PROVE  /\ Without((a \o one) \o b, g) =
                     (Without(a, g) \o Without(one, g)) \o Without(b, g)
              /\ Without(((a \o one) \o two) \o b, g) =
                     ((Without(a, g) \o Without(one, g)) \o Without(two, g)) \o Without(b, g)
              /\ Without(((a \o two) \o one) \o b, g) =
                     ((Without(a, g) \o Without(two, g)) \o Without(one, g)) \o Without(b, g)
  <2>. DEFINE c == a \o one
              d == a \o two
  <2>1. c \in Seq(Nat) /\ d \in Seq(Nat)
    BY <1>6, ConcatProperties
  <2>2. Joins(a, one, g) /\ Joins(a, two, g)
    BY <1>6, Joined
  <2>. HIDE DEF c, d
  <2>. DEFINE cc == c \o two
              dd == d \o one
  <2>3. cc \in Seq(Nat) /\ dd \in Seq(Nat)
    BY <1>6, <2>1, ConcatProperties
  <2>4. Joins(c, two, g) /\ Joins(d, one, g) /\ Joins(c, b, g)
    BY <1>6, <2>1, Joined
  <2>. HIDE DEF cc, dd
  <2>5. Joins(cc, b, g) /\ Joins(dd, b, g)
    BY <2>3, Joined
  <2>. QED BY <2>2, <2>4, <2>5 DEF Joins, c, d, cc, dd
<1>14. A \o <<>> = A
  BY <1>2, ConcatEmptySeq
<1>15. Without(After(list, r, new), gone) = After(M, r, new)
  BY <1>7, <1>10, <1>11, <1>8a, <1>9a
<1>16. Without(Before(list, r, new), gone) = Before(M, r, new)
  BY <1>7, <1>10, <1>11, <1>8a, <1>9a
<1>17. Without(list, more) = RemoveAt(M, At(M, r))
  <2>1. Without((a \o one) \o b, more) = (A \o <<>>) \o B
    BY <1>4, <1>7, <1>11
  <2>. QED BY <1>14, <1>8a, <1>9a, <2>1
<1>18. Without(After(list, r, new), more) = [M EXCEPT ![At(M, r)] = new]
  <2>1. Without(((a \o one) \o two) \o b, more) = ((A \o <<>>) \o two) \o B
    BY <1>4, <1>7, <1>11
  <2>2. [M EXCEPT ![At(M, r)] = new] = (A \o two) \o B
    BY <1>9a
  <2>. QED BY <1>14, <1>8a, <2>1, <2>2
<1>. QED BY <1>15, <1>16, <1>17, <1>18 DEF M, more, PutAlike

\* So are those that are put at an end.
LEMMA WithoutEnds ==
    ASSUME NEW list \in Seq(Nat), NEW gone, NEW new \in Nat, new \notin gone
    PROVE  /\ Without(Append(list, new), gone) = Append(Without(list, gone), new)
           /\ Without(<<new>> \o list, gone) = <<new>> \o Without(list, gone)
<1>. DEFINE one == <<new>>
            w == Without(list, gone)
<1>1. one \in Seq(Nat) /\ w \in Seq(Nat)
  BY WithoutKeepsOrder
<1>2. Without(one, gone) = one
  BY WithoutOne
<1>3. Append(list, new) = list \o one
  BY AppendIsConcat
<1>4. Append(w, new) = w \o one
  <2>. HIDE DEF w
  <2>. QED BY <1>1, AppendIsConcat
<1>. HIDE DEF one
<1>5. /\ Without(list \o one, gone) = w \o Without(one, gone)
      /\ Without(one \o list, gone) = Without(one, gone) \o w
  BY <1>1, WithoutConcat
<1>. QED BY <1>2, <1>3, <1>4, <1>5 DEF one

(***************************************************************************)
(* What the commands mean.                                                 *)
(***************************************************************************)
LEMMA MeantSeq ==
    ASSUME NEW list \in Seq(Nat), NEW c \in Commands, NEW new \in Nat
    PROVE  Meant(list, c, new) \in Seq(Nat)
<1>. DEFINE ref == IF c.by = "index" THEN (IF c.at <= Len(list) THEN list[c.at] ELSE None)
                   ELSE IF c.at \in ToSet(list) THEN c.at ELSE None
            p == At(list, ref)
<1>1. Len(list) \in Nat /\ DOMAIN list = 1..Len(list)
  BY LenProperties
<1>2. <<>> \in Seq(Nat) /\ <<None>> \in Seq(Nat) /\ <<new>> \in Seq(Nat)
  BY DEF None
<1>3. Append(list, new) \in Seq(Nat) /\ <<new>> \o list \in Seq(Nat)
  BY <1>2, AppendProperties, ConcatProperties
<1>4. c.at \in Nat /\ (c.by = "index" => c.at >= 1)
  BY CommandShape
<1>5. ASSUME ref # None PROVE p \in 1..Len(list)
  <2>1. \E i \in 1..Len(list) : list[i] = ref
    <3>1. CASE c.by = "index"
      <4>1. c.at <= Len(list) /\ ref = list[c.at]
        BY <1>5, <3>1
      <4>2. c.at \in 1..Len(list)
        BY <1>1, <1>4, <3>1, <4>1
      <4>. QED BY <4>1, <4>2
    <3>2. CASE c.by # "index"
      <4>1. c.at \in ToSet(list) /\ ref = c.at
        BY <1>5, <3>2
      <4>. QED BY <1>1, <4>1 DEF ToSet
    <3>. QED BY <3>1, <3>2
  <2>. HIDE DEF ref
  <2>. QED BY <2>1, AtIn
<1>6. ASSUME ref # None
      PROVE  /\ RemoveAt(list, p) \in Seq(Nat) /\ [list EXCEPT ![p] = new] \in Seq(Nat)
             /\ After(list, ref, new) \in Seq(Nat) /\ Before(list, ref, new) \in Seq(Nat)
  <2>1. p \in 1..Len(list) /\ p \in 1..(Len(list) + 1) /\ p + 1 \in 1..(Len(list) + 1)
    BY <1>1, <1>5, <1>6
  <2>. HIDE DEF p
  <2>2. RemoveAt(list, p) \in Seq(Nat) /\ [list EXCEPT ![p] = new] \in Seq(Nat)
    BY <2>1, Removed, ExceptSeq
  <2>3. InsertAt(list, p, new) \in Seq(Nat) /\ InsertAt(list, p + 1, new) \in Seq(Nat)
    BY <2>1, Inserted
  <2>. HIDE DEF ref
  <2>. QED BY <2>2, <2>3 DEF After, Before, p
<1>7. Meant(list, c, new) =
          IF c.op = "flush" THEN <<>>
          ELSE IF c.by = "none" THEN (IF c.op = "add" THEN Append(list, new) ELSE <<new>> \o list)
          ELSE IF ref = None THEN <<None>>
          ELSE IF c.op = "delete" THEN RemoveAt(list, p)
          ELSE IF c.op = "replace" THEN [list EXCEPT ![p] = new]
          ELSE IF c.op = "add" THEN After(list, ref, new)
          ELSE Before(list, ref, new)
  BY DEF Meant
<1>. HIDE DEF ref, p
<1>. QED BY <1>2, <1>3, <1>6, <1>7

\* The function that says what the commands mean.
Means(after, list, batch) ==
    /\ after \in [0..Len(batch) -> Seq(Nat)] /\ after[0] = list
    /\ \A n \in 1..Len(batch) :
           after[n] = IF after[n - 1] = <<None>> THEN <<None>>
                      ELSE Meant(after[n - 1], batch[n].cmd, New(n))

\* It exists.
LEMMA MeaningMeans ==
    ASSUME NEW list \in Seq(Nat), NEW batch \in Seq(Entry)
    PROVE  Means(Meaning(list, batch), list, batch)
<1>. DEFINE V == Seq(Nat)
            N == Len(batch)
            One(l, n) == IF l = <<None>> THEN <<None>> ELSE Meant(l, batch[n].cmd, New(n))
            step == [p \in V \X (1..N) |-> One(p[1], p[2])]
            Follows(f) == f = [n \in 0..N |-> IF n = 0 THEN list ELSE One(f[n - 1], n)]
            after == CHOOSE f : Follows(f)
<1>1. N \in Nat /\ \A n \in 1..N : batch[n].cmd \in Commands /\ New(n) \in Nat
  <2>1. N \in Nat /\ \A n \in 1..N : batch[n] \in Entry
    BY LenProperties, ElementOfSeq
  <2>2. \A e \in Entry : e.cmd \in Commands
    BY DEF Entry
  <2>3. \A n \in 1..N : New(n) \in Nat
    BY <2>1, BoundAssumption DEF New
  <2>. HIDE DEF N
  <2>. QED BY <2>1, <2>2, <2>3
<1>2. \A l \in V : \A n \in 1..N : One(l, n) \in V
  <2>1. <<None>> \in V
    BY DEF None
  <2>. SUFFICES ASSUME NEW l \in V, NEW n \in 1..N PROVE One(l, n) \in V
    OBVIOUS
  <2>2. Meant(l, batch[n].cmd, New(n)) \in V
    BY <1>1, MeantSeq
  <2>. QED BY <2>1, <2>2
<1>. HIDE DEF One, V, N
<1>a. step \in [V \X (1..N) -> V]
  BY <1>2
<1>3. PICK g : Recurs(g, N, V, list, step)
  <2>1. list \in V
    BY DEF V
  <2>. HIDE DEF step
  <2>. QED BY <1>1, <1>a, <2>1, Recursion
<1>4. Follows(g)
  <2>1. ASSUME NEW m \in 1..N PROVE g[m] = One(g[m - 1], m)
    <3>1. g[m - 1] \in V /\ g[m] = step[<<g[m - 1], m>>]
      <4>1. m - 1 \in 0..N
        BY <1>1
      <4>. HIDE DEF step
      <4>. QED BY <1>3, <4>1 DEF Recurs
    <3>2. step[<<g[m - 1], m>>] = One(g[m - 1], m)
      BY <3>1
    <3>. QED BY <3>1, <3>2
  <2>2. g = [m \in 0..N |-> g[m]] /\ g[0] = list
    BY <1>3 DEF Recurs
  <2>3. ASSUME NEW m \in 0..N PROVE g[m] = IF m = 0 THEN list ELSE One(g[m - 1], m)
    <3>1. CASE m = 0
      BY <2>2, <3>1
    <3>2. CASE m # 0
      <4>1. m \in 1..N
        BY <1>1, <3>2
      <4>. QED BY <2>1, <3>2, <4>1
    <3>. QED BY <3>1, <3>2
  <2>. QED BY <2>2, <2>3
<1>5. Follows(after)
  <2>. HIDE DEF Follows
  <2>. QED BY <1>4
<1>6. Meaning(list, batch) = after
  BY DEF Meaning, One, N
<1>7. after[0] = list /\ \A n \in 1..N : after[n] = One(after[n - 1], n)
  <2>. HIDE DEF after
  <2>. QED BY <1>1, <1>5
<1>8. after = [n \in 0..N |-> after[n]]
  <2>. HIDE DEF after
  <2>. QED BY <1>5
<1>. HIDE DEF after
<1>. DEFINE S == {n \in 0..N : after[n] \in V}
<1>9. 0 \in S
  <2>1. after[0] \in V /\ 0 \in 0..N
    BY <1>1, <1>7 DEF V
  <2>. QED BY <2>1
<1>10. ASSUME NEW n \in 0..(N - 1), n \in S PROVE n + 1 \in S
  <2>1. n + 1 \in 1..N /\ (n + 1) - 1 = n /\ n + 1 \in 0..N
    BY <1>1
  <2>2. after[n + 1] = One(after[n], n + 1)
    BY <1>7, <2>1
  <2>3. after[n] \in V
    BY <1>10
  <2>. QED BY <1>2, <2>1, <2>2, <2>3
<1>11. after \in [0..N -> V]
  <2>1. 0..N \subseteq S
    <3>. HIDE DEF S
    <3>. QED BY <1>1, <1>9, <1>10, Upto
  <2>. QED BY <1>8, <2>1
<1>. QED BY <1>6, <1>7, <1>11 DEF Means, V, N, One

\* One more command does not change what those before mean.
LEMMA MeaningGrows ==
    ASSUME NEW list \in Seq(Nat), NEW batch \in Seq(Entry), NEW e \in Entry
    PROVE  \A n \in 0..Len(batch) : Meaning(list, Append(batch, e))[n] = Meaning(list, batch)[n]
<1>. DEFINE longer == Append(batch, e)
            N == Len(batch)
            f == Meaning(list, batch)
            g == Meaning(list, longer)
<1>1. /\ longer \in Seq(Entry) /\ Len(longer) = N + 1
      /\ \A n \in 1..N : longer[n] = batch[n]
  BY AppendProperties
<1>2. N \in Nat
  BY LenProperties
<1>. HIDE DEF longer
<1>3. Means(f, list, batch) /\ Means(g, list, longer)
  BY <1>1, MeaningMeans
<1>. HIDE DEF f, g, N
<1>. DEFINE S == {n \in 0..N : g[n] = f[n]}
<1>4. /\ f[0] = list /\ g[0] = list
      /\ \A n \in 1..N :
             f[n] = IF f[n - 1] = <<None>> THEN <<None>> ELSE Meant(f[n - 1], batch[n].cmd, New(n))
      /\ \A n \in 1..(N + 1) :
             g[n] = IF g[n - 1] = <<None>> THEN <<None>> ELSE Meant(g[n - 1], longer[n].cmd, New(n))
  BY <1>1, <1>3 DEF Means, N
<1>5. 0 \in S
  BY <1>2, <1>4
<1>6. ASSUME NEW n \in 0..(N - 1), n \in S PROVE n + 1 \in S
  <2>1. n + 1 \in 1..N /\ (n + 1) - 1 = n /\ n + 1 \in 0..N /\ n + 1 \in 1..(N + 1)
    BY <1>2
  <2>2. g[n] = f[n] /\ longer[n + 1] = batch[n + 1]
    BY <1>1, <1>6, <2>1
  <2>3. g[n + 1] = IF g[n] = <<None>> THEN <<None>> ELSE Meant(g[n], longer[n + 1].cmd, New(n + 1))
    BY <1>4, <2>1
  <2>4. f[n + 1] = IF f[n] = <<None>> THEN <<None>> ELSE Meant(f[n], batch[n + 1].cmd, New(n + 1))
    BY <1>4, <2>1
  <2>. QED BY <2>1, <2>2, <2>3, <2>4
<1>7. 0..N \subseteq S
  <2>. HIDE DEF S
  <2>. QED BY <1>2, <1>5, <1>6, Upto
<1>. QED BY <1>7 DEF f, g, N, longer

\* Commands that mean something do so after each of them.
LEMMA MeaningHeld ==
    ASSUME NEW list \in Seq(Nat), NEW batch \in Seq(Entry),
           Meaning(list, batch)[Len(batch)] # <<None>>
    PROVE  \A n \in 0..Len(batch) : Meaning(list, batch)[n] # <<None>>
<1>. DEFINE N == Len(batch)
            f == Meaning(list, batch)
<1>1. N \in Nat /\ Means(f, list, batch)
  BY LenProperties, MeaningMeans
<1>2. \A n \in 1..N : f[n - 1] = <<None>> => f[n] = <<None>>
  BY <1>1 DEF Means
<1>3. f[N] # <<None>>
  OBVIOUS
<1>. HIDE DEF f, N
<1>. DEFINE S == {n \in 0..N : f[N - n] # <<None>>}
<1>4. 0 \in S
  BY <1>1, <1>3
<1>5. ASSUME NEW n \in 0..(N - 1), n \in S PROVE n + 1 \in S
  <2>1. N - n \in 1..N /\ (N - n) - 1 = N - (n + 1) /\ n + 1 \in 0..N
    BY <1>1
  <2>. QED BY <1>2, <1>5, <2>1
<1>6. 0..N \subseteq S
  <2>. HIDE DEF S
  <2>. QED BY <1>1, <1>4, <1>5, Upto
<1>7. ASSUME NEW n \in 0..N PROVE f[n] # <<None>>
  <2>1. N - n \in 0..N /\ N - (N - n) = n
    BY <1>1
  <2>. QED BY <1>6, <2>1
<1>. QED BY <1>7 DEF f, N

(***************************************************************************)
(* The evaluation counts in the chain that the commands before mean.       *)
(***************************************************************************)

\* One more command, and its index counted in what those before mean.
LEMMA RefsGrown ==
    ASSUME cmds \in Seq(Entry), start \in Seq(Nat), RefsMeant, NEW e \in Entry,
           cmds' = Append(cmds, e), start' = start,
           e.cmd.by = "index" /\ e.ref # None /\ ~Deletes(Len(cmds))
           /\ MeantBy(Len(cmds)) # <<None>> =>
               /\ e.cmd.at \in 1..Len(MeantBy(Len(cmds)))
               /\ e.ref = MeantBy(Len(cmds))[e.cmd.at]
    PROVE  /\ RefsMeant'
           /\ Len(cmds) \in Nat /\ Len(cmds') = Len(cmds) + 1
           /\ (MeantBy(Len(cmds)))' =
                  IF MeantBy(Len(cmds)) = <<None>> THEN <<None>>
                  ELSE Meant(MeantBy(Len(cmds)), e.cmd, New(Len(cmds) + 1))
           /\ (Deletes(Len(cmds)))' <=> Deletes(Len(cmds)) \/ e.cmd.op \in {"delete", "flush"}
<1>. DEFINE N == Len(cmds)
            f == Meaning(start, cmds)
            g == Meaning(start, cmds')
<1>1. /\ N \in Nat /\ Len(cmds') = N + 1
      /\ DOMAIN cmds = 1..N /\ DOMAIN cmds' = 1..(N + 1)
      /\ \A i \in 1..N : cmds'[i] = cmds[i]
      /\ cmds'[N + 1] = e
      /\ \A i \in 1..(N + 1) : (i \in 1..N \/ i = N + 1) /\ 1..(i - 1) \subseteq 1..N
  BY Grown
<1>2. \A n \in 0..N : g[n] = f[n]
  BY MeaningGrows
<1>3. cmds' \in Seq(Entry)
  BY AppendProperties
<1>4. Means(g, start, cmds')
  BY <1>3, MeaningMeans
<1>5. g[N + 1] = IF g[N] = <<None>> THEN <<None>> ELSE Meant(g[N], e.cmd, New(N + 1))
  <2>1. N + 1 \in 1..Len(cmds') /\ (N + 1) - 1 = N
    BY <1>1
  <2>. HIDE DEF g, N
  <2>. QED BY <1>1, <1>4, <2>1 DEF Means
<1>6. \A n : MeantBy(n) = f[n] /\ (MeantBy(n))' = g[n]
  BY DEF MeantBy
<1>7. (MeantBy(Len(cmds)))' = g[N + 1]
  BY <1>1 DEF MeantBy
<1>8. f[N] = MeantBy(N) /\ g[N] = f[N]
  BY <1>1, <1>2, <1>6
<1>. HIDE DEF f, g
<1>9. (Deletes(Len(cmds)))' <=> Deletes(N) \/ e.cmd.op \in {"delete", "flush"}
  <2>1. (Deletes(Len(cmds)))' <=> \E j \in 1..(N + 1) : cmds'[j].cmd.op \in {"delete", "flush"}
    BY <1>1 DEF Deletes
  <2>2. N + 1 \in 1..(N + 1) /\ 1..N \subseteq 1..(N + 1)
    BY <1>1
  <2>. HIDE DEF N
  <2>. QED BY <1>1, <2>1, <2>2 DEF Deletes
<1>10. RefsMeant'
  <2>1. ASSUME NEW i \in 1..(N + 1), cmds'[i].cmd.by = "index", cmds'[i].ref # None,
               ~ \E j \in 1..(i - 1) : cmds'[j].cmd.op \in {"delete", "flush"},
               g[i - 1] # <<None>>
        PROVE  cmds'[i].cmd.at \in 1..Len(g[i - 1]) /\ cmds'[i].ref = g[i - 1][cmds'[i].cmd.at]
    <3>1. \A j \in 1..(i - 1) : cmds'[j] = cmds[j]
      BY <1>1
    <3>2. ~Deletes(i - 1)
      BY <2>1, <3>1 DEF Deletes
    <3>3. i - 1 \in 0..N
      BY <1>1
    <3>4. g[i - 1] = MeantBy(i - 1)
      BY <1>2, <1>6, <3>3
    <3>5. CASE i = N + 1
      <4>1. cmds'[i] = e /\ i - 1 = N
        BY <1>1, <3>5
      <4>. QED BY <2>1, <3>2, <3>4, <4>1
    <3>6. CASE i # N + 1
      <4>1. cmds'[i] = cmds[i] /\ i \in DOMAIN cmds
        BY <1>1, <3>6
      <4>2. Indexed(i)
        BY <2>1, <4>1 DEF Indexed
      <4>. QED BY <2>1, <3>2, <3>4, <4>1, <4>2 DEF RefsMeant
    <3>. QED BY <3>5, <3>6
  <2>. HIDE DEF N
  <2>. QED BY <1>1, <1>6, <2>1 DEF RefsMeant, Indexed, Deletes
<1>. QED BY <1>1, <1>5, <1>7, <1>8, <1>9, <1>10

\* One more command, and its index looked up if the list is updated.
LEMMA FoundGrown ==
    ASSUME cmds \in Seq(Entry), RefsFound, NEW e \in Entry, cmds' = Append(cmds, e),
           updating' = updating, updating /\ e.cmd.by = "index" => e.ref # None
    PROVE  RefsFound'
<1>1. /\ DOMAIN cmds = 1..Len(cmds) /\ DOMAIN cmds' = 1..(Len(cmds) + 1)
      /\ \A i \in 1..Len(cmds) : cmds'[i] = cmds[i]
      /\ cmds'[Len(cmds) + 1] = e
      /\ \A i \in 1..(Len(cmds) + 1) : i \in 1..Len(cmds) \/ i = Len(cmds) + 1
  BY Grown
<1>. QED BY <1>1 DEF RefsFound, Indexed

\* A handle finds the kernel's rule that has it.
LEMMA FoundByHandle ==
    ASSUME TypeInv, HandlesGiven, HandlesDiffer, NEW c \in Commands, c.by = "handle"
    PROVE  /\ Lookup(c) # None => handle[Lookup(c)] = c.at
           /\ c.at \in ToSet(cached) => Lookup(c) = c.at
<1>. DEFINE I == {k \in 1..Len(cached) : handle[cached[k]] = c.at}
            i == SelectInSeq(cached, LAMBDA r : handle[r] = c.at)
<1>1. i = IF I # {} THEN Min(I) ELSE 0
  BY DEF SelectInSeq
<1>2. Lookup(c) = IF i = 0 THEN None ELSE cached[i]
  BY DEF Lookup
<1>3. Len(cached) \in Nat /\ DOMAIN cached = 1..Len(cached)
  BY LenProperties DEF TypeInv
<1>4. I \in SUBSET Nat /\ I \subseteq 1..Len(cached)
  BY <1>3
<1>5. I # {} => Min(I) \in I
  BY <1>4, MinIn
<1>6. c.at \in Old /\ c.at # None
  BY CommandShape, BoundAssumption DEF Old, None
<1>7. handle[c.at] = c.at
  <2>1. handle[c.at] # None /\ c.at \in All
    BY <1>6, BoundAssumption DEF TypeInv, Old, All
  <2>2. \A j \in DOMAIN cmds : c.at # New(j)
    <3>1. DOMAIN cmds = 1..Len(cmds) /\ Len(cmds) \in Nat
      BY LenProperties DEF TypeInv
    <3>. QED BY <1>6, <3>1, BoundAssumption DEF Old, New
  <2>. QED BY <2>1, <2>2 DEF HandlesGiven
<1>8. ASSUME Lookup(c) # None PROVE handle[Lookup(c)] = c.at
  <2>1. i # 0 /\ I # {} /\ i \in I
    BY <1>1, <1>2, <1>5, <1>8
  <2>. QED BY <1>2, <2>1
<1>9. ASSUME c.at \in ToSet(cached) PROVE Lookup(c) = c.at
  <2>1. PICK k \in 1..Len(cached) : cached[k] = c.at
    BY <1>3, <1>9 DEF ToSet
  <2>2. k \in I
    BY <1>7, <2>1
  <2>3. i \in I /\ i # 0
    BY <1>1, <1>3, <1>4, <1>5, <2>2
  <2>4. i = k
    BY <1>3, <1>6, <2>2, <2>3 DEF HandlesDiffer
  <2>. QED BY <1>2, <2>1, <2>3, <2>4
<1>. QED BY <1>8, <1>9

\* A rule without a handle does not disturb those that have one.
LEMMA HandlesInserted ==
    ASSUME cached \in Seq(Nat), HandlesDiffer, NEW i \in 1..(Len(cached) + 1), NEW new \in Nat,
           handle[new] = None, handle' = handle, cached' = InsertAt(cached, i, new)
    PROVE  HandlesDiffer'
<1>. DEFINE N == Len(cached)
<1>1. N \in Nat /\ DOMAIN cached = 1..N
  BY LenProperties
<1>2. /\ cached' \in Seq(Nat) /\ Len(cached') = N + 1
      /\ \A k \in 1..(N + 1) :
             cached'[k] = IF k < i THEN cached[k] ELSE IF k = i THEN new ELSE cached[k - 1]
  <2>. DEFINE l == InsertAt(cached, i, new)
  <2>1. /\ l \in Seq(Nat) /\ Len(l) = Len(cached) + 1
        /\ \A k \in 1..(Len(cached) + 1) :
               l[k] = IF k < i THEN cached[k] ELSE IF k = i THEN new ELSE cached[k - 1]
    BY Inserted, ZenonT(30)
  <2>2. cached' = l
    OBVIOUS
  <2>. HIDE DEF l
  <2>. QED BY <2>1, <2>2
<1>3. DOMAIN cached' = 1..(N + 1)
  BY <1>2, LenProperties
<1>. HIDE DEF N
<1>4. i \in 1..(N + 1)
  BY DEF N
<1>5. ASSUME NEW p \in 1..(N + 1), NEW q \in 1..(N + 1),
             handle[cached'[p]] # None, handle[cached'[p]] = handle[cached'[q]]
      PROVE  p = q
  <2>. DEFINE P == IF p < i THEN p ELSE p - 1
              Q == IF q < i THEN q ELSE q - 1
  <2>1. p # i /\ q # i
    BY <1>2, <1>4, <1>5
  <2>2. P \in 1..N /\ cached'[p] = cached[P]
    BY <1>1, <1>2, <1>4, <2>1
  <2>3. Q \in 1..N /\ cached'[q] = cached[Q]
    BY <1>1, <1>2, <1>4, <2>1
  <2>4. P = Q
    BY <1>1, <1>5, <2>2, <2>3 DEF HandlesDiffer
  <2>. QED BY <1>1, <1>4, <2>1, <2>4
<1>. QED BY <1>3, <1>5 DEF HandlesDiffer

\* Rules known to nft are numbers, and not the rule of a command to come.
LEMMA CachedShape ==
    ASSUME TypeInv, Len(cmds) < MaxCommands
    PROVE  /\ cached \in Seq(Nat) /\ Len(cmds) \in Nat /\ Len(cached) \in Nat
           /\ DOMAIN cached = 1..Len(cached)
           /\ New(Len(cmds) + 1) \in Nat /\ New(Len(cmds) + 1) \in All
           /\ \A k \in 1..Len(cached) :
                  cached[k] # None /\ cached[k] # New(Len(cmds) + 1) /\ cached[k] \in All
<1>1. Len(cmds) \in Nat
  BY LenProperties DEF TypeInv
<1>2. Rules(Len(cmds)) \subseteq Nat /\ Rules(Len(cmds)) \subseteq All
  BY <1>1, BoundAssumption DEF Rules, TypeInv, All
<1>3. cached \in Seq(Nat)
  BY <1>2, SeqMonotonic DEF TypeInv
<1>4. \A r \in Rules(Len(cmds)) : r # None /\ r # New(Len(cmds) + 1)
  BY <1>1, BoundAssumption DEF Rules, New, None
<1>5. \A k \in 1..Len(cached) : cached[k] \in Rules(Len(cmds))
  BY ElementOfSeq DEF TypeInv
<1>6. New(Len(cmds) + 1) \in Nat /\ New(Len(cmds) + 1) \in All
  BY <1>1, RoomFor, BoundAssumption DEF New
<1>. QED BY <1>1, <1>2, <1>3, <1>4, <1>5, <1>6, LenProperties

\* What is said of the batch during its evaluation.
Evaluated == HandlesDiffer /\ ListMeant /\ RefsMeant /\ RefsFound

\* The place of a rule among those before is the one it is meant to have.
LEMMA RuleMeant ==
    ASSUME PlaceInv, Evaluated, NEW c \in Commands, EvaluateRule(c)
    PROVE  Evaluated'
<1>. DEFINE ref == Lookup(c)
            N == Len(cmds)
            new == New(N + 1)
            e == Resolved(c, ref)
<1>0. IdInv /\ TypeInv
  BY DEF PlaceInv, IdInv
<1>1. /\ phase = "evaluate" /\ N < MaxCommands /\ c.op \in {"add", "insert"}
      /\ updating /\ UNCHANGED <<chain, start, updating, handle, next, dead, sent, moved>>
  BY DEF EvaluateRule, Room
<1>2. CASE c.by # "none" /\ ref = None
  <2>1. phase' = "error" /\ UNCHANGED <<cached, cmds>>
    BY <1>2 DEF EvaluateRule
  <2>. QED BY <1>1, <2>1
    DEF Evaluated, HandlesDiffer, ListMeant, RefsMeant, RefsFound, Indexed, Deletes, MeantBy
<1>3. CASE ~ (c.by # "none" /\ ref = None)
  <2>1. /\ cmds' = Append(cmds, e) /\ cached' = CachedAfter(c, ref, new)
        /\ phase' = "evaluate"
    BY <1>1, <1>3 DEF EvaluateRule, Room
  <2>2. ref # None =>
            /\ ref \in All /\ ref \in Nat /\ At(cached, ref) \in 1..Len(cached)
            /\ handle[ref] = None => \E j \in 1..Len(cmds) : ref = New(j)
    BY <1>0, RefIn
  <2>3. /\ c.by \in {"none", "index", "handle"} /\ c.at \in Nat
        /\ c.by # "none" => ref # None
        /\ c.by = "index" => c.at >= 1
        /\ c.by = "none" => ref = None
    BY <1>3, CommandShape DEF Lookup
  <2>4. /\ cached \in Seq(Nat) /\ N \in Nat /\ Len(cached) \in Nat
        /\ DOMAIN cached = 1..Len(cached) /\ new \in Nat /\ new \in All
        /\ \A k \in 1..Len(cached) : cached[k] # None
    BY <1>0, <1>1, CachedShape
  <2>5. cmds \in Seq(Entry) /\ start \in Seq(Nat)
    BY <1>0 DEF TypeInv, PlaceInv, Chains
  <2>6. e \in Entry /\ e.cmd = c /\ e.ref = ref
    <3>1. ref \in Nat
      BY <2>2 DEF None
    <3>2. CASE c.by = "index" /\ handle[ref] = None
      <4>1. e = [cmd |-> c, ref |-> ref, position |-> None, id |-> Link(ref)[ref]]
        BY <3>2 DEF Resolved
      <4>2. Link(ref)[ref] \in Nat
        <5>1. ruleid' = Link(ref) /\ lastid' = IF Link(ref) = ruleid THEN lastid ELSE lastid + 1
          BY <1>3, <3>2 DEF EvaluateRule
        <5>2. ref \in All
          BY <2>2, <2>3, <3>2
        <5>. QED BY <1>0, <5>1, <5>2, Linked
      <4>. QED BY <3>1, <4>1, <4>2 DEF Entry, None
    <3>3. CASE ~ (c.by = "index" /\ handle[ref] = None)
      <4>1. e = [cmd |-> c, ref |-> ref,
                 position |-> IF c.by = "index" THEN handle[ref] ELSE c.at, id |-> None]
        BY <3>3 DEF Resolved
      <4>2. c.by = "index" => handle[ref] \in Nat
        BY <2>2, <2>3, BoundAssumption, <1>0 DEF TypeInv
      <4>. QED BY <2>3, <3>1, <4>1, <4>2 DEF Entry, None
    <3>. QED BY <3>2, <3>3
  <2>7. HandlesDiffer'
    <3>1. handle[new] = None
      <4>1. DOMAIN cmds = 1..N
        BY <2>5, LenProperties
      <4>2. new \notin Old /\ \A j \in 1..N : new # New(j)
        BY <2>4, BoundAssumption DEF New, Old
      <4>. QED BY <2>4, <4>1, <4>2 DEF PlaceInv, HandlesGiven
    <3>2. \E i \in 1..(Len(cached) + 1) : cached' = InsertAt(cached, i, new)
      <4>. HIDE DEF ref, new
      <4>1. CASE ref = None
        <5>1. cached' = Append(cached, new) \/ cached' = <<new>> \o cached
          BY <2>1, <4>1 DEF CachedAfter
        <5>2. Len(cached) + 1 \in 1..(Len(cached) + 1) /\ 1 \in 1..(Len(cached) + 1)
          BY <2>4
        <5>. QED BY <2>4, <5>1, <5>2, AtEnds
      <4>2. CASE ref # None
        <5>1. \/ cached' = InsertAt(cached, At(cached, ref), new)
              \/ cached' = InsertAt(cached, At(cached, ref) + 1, new)
          BY <2>1, <4>2 DEF CachedAfter, Before, After
        <5>2. /\ At(cached, ref) \in 1..(Len(cached) + 1)
              /\ At(cached, ref) + 1 \in 1..(Len(cached) + 1)
          BY <2>2, <2>4, <4>2
        <5>. QED BY <5>1, <5>2
      <4>. QED BY <4>1, <4>2
    <3>. HIDE DEF new
    <3>. QED BY <1>1, <2>4, <3>1, <3>2, HandlesInserted DEF Evaluated
  <2>8. ~Deletes(N) /\ MeantBy(N) # <<None>> => cached = MeantBy(N)
    BY <1>1 DEF Evaluated, ListMeant
  <2>9. ASSUME c.by = "index" PROVE c.at \in 1..Len(cached) /\ ref = cached[c.at]
    BY <2>3, <2>4, <2>9 DEF Lookup
  <2>. HIDE DEF ref, e
  <2>10. /\ RefsMeant'
         /\ Len(cmds') = N + 1
         /\ (MeantBy(Len(cmds)))' =
                IF MeantBy(N) = <<None>> THEN <<None>> ELSE Meant(MeantBy(N), c, new)
         /\ (Deletes(Len(cmds)))' <=> Deletes(N) \/ c.op \in {"delete", "flush"}
    BY <1>1, <2>1, <2>5, <2>6, <2>8, <2>9, RefsGrown DEF Evaluated
  <2>11. ASSUME ~Deletes(N), MeantBy(N) # <<None>>, Meant(MeantBy(N), c, new) # <<None>>
         PROVE  cached' = Meant(MeantBy(N), c, new)
    <3>1. cached = MeantBy(N)
      BY <2>8, <2>11
    <3>. HIDE DEF new
    <3>2. CASE c.by = "none"
      BY <1>1, <2>1, <2>3, <3>1, <3>2 DEF Meant, CachedAfter
    <3>3. CASE c.by # "none"
      <4>1. c.by = "handle" => c.at \in ToSet(cached)
        BY <1>1, <2>11, <3>1, <3>3 DEF Meant
      <4>2. c.by = "handle" => ref = c.at
        BY <1>0, <4>1, FoundByHandle DEF PlaceInv, Evaluated, ref
      <4>3. ref = IF c.by = "index" THEN (IF c.at <= Len(cached) THEN cached[c.at] ELSE None)
                  ELSE IF c.at \in ToSet(cached) THEN c.at ELSE None
        BY <2>3, <2>9, <3>3, <4>1, <4>2
      <4>. QED BY <1>1, <2>1, <2>3, <3>1, <3>3, <4>3 DEF Meant, CachedAfter
    <3>. QED BY <3>2, <3>3
  <2>12. ListMeant'
    BY <1>1, <2>10, <2>11 DEF ListMeant
  <2>13. RefsFound'
    BY <1>1, <2>1, <2>3, <2>5, <2>6, FoundGrown DEF Evaluated
  <2>. QED BY <2>7, <2>10, <2>12, <2>13 DEF Evaluated
<1>. QED BY <1>2, <1>3

\* The rule that replaces another is in its place and has its handle.
LEMMA ReplaceMeant ==
    ASSUME PlaceInv, Evaluated, NEW c \in Commands, EvaluateReplace(c)
    PROVE  Evaluated'
<1>. DEFINE ref == Lookup(c)
            N == Len(cmds)
            new == New(N + 1)
            e == Resolved(c, ref)
            p == At(cached, ref)
<1>0. IdInv /\ TypeInv /\ HandlesGiven /\ HandlesDiffer
  BY DEF PlaceInv, IdInv, Evaluated
<1>1. /\ phase = "evaluate" /\ N < MaxCommands /\ c.op = "replace"
      /\ updating /\ UNCHANGED <<chain, start, updating, ruleid, lastid, next, dead, sent, moved>>
  BY DEF EvaluateReplace, Room
<1>2. CASE ref = None
  <2>1. phase' = "error" /\ UNCHANGED <<cached, handle, cmds>>
    BY <1>2 DEF EvaluateReplace
  <2>. QED BY <1>1, <2>1
    DEF Evaluated, HandlesDiffer, ListMeant, RefsMeant, RefsFound, Indexed, Deletes, MeantBy
<1>3. CASE ref # None
  <2>1. /\ cmds' = Append(cmds, e) /\ cached' = [cached EXCEPT ![p] = new]
        /\ handle' = [handle EXCEPT ![new] = c.at]
        /\ phase' = "evaluate"
    BY <1>1, <1>3 DEF EvaluateReplace, Room
  <2>2. c.by = "handle" /\ c.at \in Nat
    BY <1>1, CommandShape
  <2>3. /\ cached \in Seq(Nat) /\ N \in Nat /\ Len(cached) \in Nat
        /\ DOMAIN cached = 1..Len(cached) /\ new \in Nat /\ new \in All
        /\ \A k \in 1..Len(cached) : cached[k] # None /\ cached[k] # new /\ cached[k] \in All
    BY <1>0, <1>1, CachedShape
  <2>4. ref \in Nat /\ p \in 1..Len(cached) /\ cached[p] = ref
    <3>1. ref \in Nat /\ p \in 1..Len(cached)
      BY <1>0, <1>3, RefIn
    <3>2. p # 0
      BY <2>3, <3>1
    <3>. QED BY <2>3, <3>1, <3>2, AtFound
  <2>5. handle[ref] = c.at /\ (c.at \in ToSet(cached) => ref = c.at)
    BY <1>0, <1>3, <2>2, FoundByHandle
  <2>6. e \in Entry /\ e.cmd = c
    <3>1. e = [cmd |-> c, ref |-> ref, position |-> c.at, id |-> None]
      BY <2>2 DEF Resolved
    <3>. QED BY <2>2, <2>4, <3>1 DEF Entry, None
  <2>7. cmds \in Seq(Entry) /\ start \in Seq(Nat)
    BY <1>0 DEF TypeInv, PlaceInv, Chains
  <2>. HIDE DEF ref, e, p, new
  <2>8. HandlesDiffer'
    <3>1. DOMAIN cached' = 1..Len(cached)
      BY <2>1, <2>3
    <3>2. ASSUME NEW q \in 1..Len(cached) PROVE handle'[cached'[q]] = handle[cached[q]]
      <4>0. handle \in [All -> 0..MaxRules]
        BY <1>0 DEF TypeInv
      <4>1. CASE q = p
        <5>1. cached'[q] = new
          BY <2>1, <2>3, <4>1
        <5>2. handle'[new] = c.at
          BY <2>1, <2>3, <4>0
        <5>. QED BY <2>4, <2>5, <4>1, <5>1, <5>2
      <4>2. CASE q # p
        <5>1. cached'[q] = cached[q] /\ cached[q] \in All /\ cached[q] # new
          BY <2>1, <2>3, <4>2
        <5>. QED BY <2>1, <4>0, <5>1
      <4>. QED BY <4>1, <4>2
    <3>3. \A q, r \in 1..Len(cached) :
              handle[cached[q]] # None /\ handle[cached[q]] = handle[cached[r]] => q = r
      BY <1>0, <2>3 DEF HandlesDiffer
    <3>. QED BY <3>1, <3>2, <3>3 DEF HandlesDiffer
  <2>9. ~Deletes(N) /\ MeantBy(N) # <<None>> => cached = MeantBy(N)
    BY <1>1 DEF Evaluated, ListMeant
  <2>10. /\ RefsMeant'
         /\ Len(cmds') = N + 1
         /\ (MeantBy(Len(cmds)))' =
                IF MeantBy(N) = <<None>> THEN <<None>> ELSE Meant(MeantBy(N), c, New(N + 1))
         /\ (Deletes(Len(cmds)))' <=> Deletes(N) \/ c.op \in {"delete", "flush"}
    BY <1>1, <2>1, <2>2, <2>6, <2>7, RefsGrown DEF Evaluated
  <2>11. ASSUME ~Deletes(N), MeantBy(N) # <<None>>, Meant(MeantBy(N), c, new) # <<None>>
         PROVE  cached' = Meant(MeantBy(N), c, new)
    <3>1. cached = MeantBy(N)
      BY <2>9, <2>11
    <3>2. c.at \in ToSet(cached)
      BY <1>1, <2>2, <2>11, <3>1 DEF Meant
    <3>. QED BY <1>1, <1>3, <2>1, <2>2, <2>5, <3>1, <3>2 DEF Meant, p
  <2>12. ListMeant'
    BY <1>1, <2>10, <2>11 DEF ListMeant, new
  <2>13. RefsFound'
    BY <1>1, <2>1, <2>2, <2>6, <2>7, FoundGrown DEF Evaluated
  <2>. QED BY <2>8, <2>10, <2>12, <2>13 DEF Evaluated
<1>. QED BY <1>2, <1>3

\* Rules that are deleted, or not looked up, leave the list of nft behind.
LEMMA PassMeant ==
    ASSUME PlaceInv, Evaluated, NEW c \in Commands, PassOver(c)
    PROVE  Evaluated'
<1>. DEFINE N == Len(cmds)
            e == Unresolved(c)
<1>1. /\ c.op \in {"delete", "flush"} \/ ~updating
      /\ cmds' = Append(cmds, e)
      /\ UNCHANGED <<start, cached, handle, updating>>
  BY DEF PassOver
<1>2. c.at \in Nat /\ (c.op \in {"delete", "flush"} => c.by # "index")
  BY CommandShape DEF Commands, Placed
<1>3. e \in Entry /\ e.cmd = c /\ e.ref = None
  BY <1>2 DEF Unresolved, Entry, None
<1>4. cmds \in Seq(Entry) /\ start \in Seq(Nat)
  BY DEF TypeInv, IdInv, PlaceInv, Chains
<1>. HIDE DEF e
<1>5. RefsMeant' /\ ((Deletes(Len(cmds)))' <=> Deletes(N) \/ e.cmd.op \in {"delete", "flush"})
  BY <1>1, <1>3, <1>4, RefsGrown DEF Evaluated
<1>6. RefsFound'
  BY <1>1, <1>2, <1>3, <1>4, FoundGrown DEF Evaluated
<1>7. HandlesDiffer'
  BY <1>1 DEF Evaluated, HandlesDiffer
<1>8. ListMeant'
  BY <1>1, <1>3, <1>5 DEF ListMeant
<1>. QED BY <1>5, <1>6, <1>7, <1>8 DEF Evaluated

\* Other steps leave what was evaluated.
LEMMA OtherMeant ==
    ASSUME Evaluated, UNCHANGED <<cached, updating, handle, cmds, start>>,
           phase' = phase \/ phase' # "evaluate"
    PROVE  Evaluated'
<1>1. HandlesDiffer' /\ RefsMeant' /\ RefsFound'
  BY DEF Evaluated, HandlesDiffer, RefsMeant, RefsFound, Indexed, Deletes, MeantBy
<1>2. ListMeant'
  BY DEF Evaluated, ListMeant, Deletes, MeantBy
<1>. QED BY <1>1, <1>2 DEF Evaluated

\* No one has changed the chain, and the commands count as the user does.
Counted == moved = 0 /\ ~Miscounted /\ ~IndexLost /\ MeantBy(Len(cmds)) # <<None>>

(***************************************************************************)
(* The kernel carries out what the commands mean.                          *)
(***************************************************************************)

\* What was carried out, and what is meant next.
LEMMA NextMeant ==
    ASSUME PlaceInv, KeptMeant, Underway, Counted
    PROVE  /\ MeantBy(sent) = Without(next, dead) /\ MeantBy(sent) # <<None>>
           /\ MeantBy(sent) \in Seq(Nat) /\ Once(MeantBy(sent))
           /\ ToSet(MeantBy(sent)) \subseteq ToSet(next) \ dead
           /\ MeantBy(sent + 1) = Meant(MeantBy(sent), cmds[sent + 1].cmd, New(sent + 1))
           /\ MeantBy(sent + 1) # <<None>>
           /\ cmds[sent + 1].cmd \in Commands
<1>. DEFINE f == Meaning(start, cmds)
            N == Len(cmds)
<1>1. cmds \in Seq(Entry) /\ start \in Seq(Nat)
  BY DEF PlaceInv, IdInv, TypeInv, Chains
<1>2. Means(f, start, cmds)
  BY <1>1, MeaningMeans
<1>3. \A n \in 0..N : f[n] # <<None>>
  <2>1. Meaning(start, cmds)[Len(cmds)] # <<None>>
    BY DEF Counted, MeantBy
  <2>. QED BY <1>1, <2>1, MeaningHeld
<1>4. /\ sent \in Nat /\ sent + 1 \in 1..N /\ N \in Nat
      /\ next \in Seq(Nat) /\ Once(next)
  BY NewIsNew
<1>5. sent \in 0..N /\ sent + 1 \in 0..N /\ (sent + 1) - 1 = sent
  BY <1>4
<1>6. MeantBy(sent) = f[sent] /\ MeantBy(sent + 1) = f[sent + 1]
  BY DEF MeantBy
<1>. HIDE DEF f
<1>7. f[sent + 1] = IF f[sent] = <<None>> THEN <<None>>
                    ELSE Meant(f[sent], cmds[sent + 1].cmd, New(sent + 1))
  <2>1. \A n \in 1..N : f[n] = IF f[n - 1] = <<None>> THEN <<None>>
                               ELSE Meant(f[n - 1], cmds[n].cmd, New(n))
    BY <1>2 DEF Means
  <2>. HIDE DEF N
  <2>. QED BY <1>4, <1>5, <2>1
<1>8. MeantBy(sent) = Without(next, dead)
  BY DEF KeptMeant, Counted, Underway
<1>9. /\ Without(next, dead) \in Seq(Nat) /\ Once(Without(next, dead))
      /\ ToSet(Without(next, dead)) \subseteq ToSet(next) \ dead
  BY <1>4, WithoutOnce
<1>10. cmds[sent + 1].cmd \in Commands
  <2>1. cmds[sent + 1] \in Entry
    BY <1>1, <1>4, ElementOfSeq
  <2>. QED BY <2>1 DEF Entry
<1>. QED BY <1>3, <1>5, <1>6, <1>7, <1>8, <1>9, <1>10

\* A message that is carried out as its command is meant.
LEMMA SentMeant ==
    ASSUME PlaceInv, KeptMeant, Underway, UNCHANGED <<start, cmds, moved>>,
           Counted => /\ phase' # "refused" /\ sent' = sent + 1
                      /\ Without(next', dead') = MeantBy(sent + 1)
    PROVE  KeptMeant'
<1>1. Counted' <=> Counted
  BY DEF Counted, Miscounted, IndexLost, Updates, Indexed, HitsReplacing, MeantBy
<1>2. \A n : (MeantBy(n))' = MeantBy(n)
  BY DEF MeantBy
<1>3. CASE Counted
  <2>1. phase' # "refused" /\ Without(next', dead') = MeantBy(sent')
    BY <1>3
  <2>2. (MeantBy(sent))' = MeantBy(sent')
    BY DEF MeantBy
  <2>. QED BY <2>1, <2>2 DEF KeptMeant
<1>4. CASE ~Counted
  BY <1>1, <1>4 DEF KeptMeant, Counted
<1>. QED BY <1>3, <1>4

\* All rules of the chain are deleted.
LEMMA SendFlushMeant ==
    ASSUME PlaceInv, KeptMeant, SendFlush
    PROVE  KeptMeant'
<1>1. /\ Underway /\ cmds[sent + 1].cmd.op = "flush" /\ UNCHANGED <<start, cmds, moved>>
      /\ next' = next /\ dead' = dead \cup ToSet(next) /\ sent' = sent + 1 /\ phase' = phase
  BY DEF SendFlush, Sending, Underway, Msg, Done
<1>2. ASSUME Counted PROVE Without(next', dead') = MeantBy(sent + 1)
  <2>1. MeantBy(sent + 1) = Meant(MeantBy(sent), cmds[sent + 1].cmd, New(sent + 1))
    BY <1>1, <1>2, NextMeant
  <2>2. MeantBy(sent + 1) = <<>>
    BY <1>1, <2>1 DEF Meant
  <2>3. next \in Seq(Nat) /\ ToSet(next) \subseteq dead \cup ToSet(next)
    BY <1>1, NewIsNew
  <2>4. Without(next, dead \cup ToSet(next)) = <<>>
    BY <2>3, WithoutAll
  <2>. QED BY <1>1, <2>2, <2>4
<1>3. phase' # "refused"
  BY <1>1 DEF Underway
<1>. QED BY <1>1, <1>2, <1>3, SentMeant

\* A rule that is meant to be there is found by its handle.
LEMMA SendDeleteMeant ==
    ASSUME PlaceInv, KeptMeant, SendDelete
    PROVE  KeptMeant'
<1>. DEFINE c == cmds[sent + 1].cmd
            h == cmds[sent + 1].position
            new == New(sent + 1)
            M == MeantBy(sent)
<1>1. /\ Underway /\ c.op \in {"replace", "delete"} /\ UNCHANGED <<start, cmds, moved>>
      /\ IF InKernel(h) /\ h \notin dead
         THEN Done(IF c.op = "delete" THEN next ELSE After(next, h, new), {h})
         ELSE Refuse
  BY DEF SendDelete, Sending, Underway, Msg
<1>2. ASSUME Counted
      PROVE  phase' # "refused" /\ sent' = sent + 1 /\ Without(next', dead') = MeantBy(sent + 1)
  <2>1. /\ M = Without(next, dead) /\ M \in Seq(Nat)
        /\ ToSet(M) \subseteq ToSet(next) \ dead
        /\ MeantBy(sent + 1) = Meant(M, c, new) /\ Meant(M, c, new) # <<None>>
        /\ c \in Commands
    BY <1>1, <1>2, NextMeant
  <2>2. /\ next \in Seq(Nat) /\ Once(next) /\ new \in Nat /\ new \notin ToSet(next)
        /\ dead \subseteq ToSet(next) /\ sent + 1 \in DOMAIN cmds
    BY <1>1, NewIsNew, LenProperties DEF PlaceInv, IdInv, TypeInv
  <2>3. c.by = "handle" /\ c.at \in Old
    BY <1>1, <2>1, CommandShape
  <2>4. h = c.at
    BY <2>2, <2>3 DEF PlaceInv, RefsTold, Indexed
  <2>. HIDE DEF M, new, h
  <2>5. c.at \in ToSet(M) /\ c.at # None
    <3>1. c.at # None
      BY <2>3, BoundAssumption DEF Old, None
    <3>. QED BY <1>1, <2>1, <2>3, <3>1 DEF Meant
  <2>6. Meant(M, c, new) = IF c.op = "delete" THEN RemoveAt(M, At(M, c.at))
                           ELSE [M EXCEPT ![At(M, c.at)] = new]
    BY <1>1, <2>3, <2>5 DEF Meant
  <2>7. InKernel(h) /\ h \notin dead
    BY <2>1, <2>3, <2>4, <2>5 DEF InKernel
  <2>8. /\ next' = (IF c.op = "delete" THEN next ELSE After(next, h, new))
        /\ dead' = dead \cup {h} /\ sent' = sent + 1 /\ phase' = phase
    BY <1>1, <2>7 DEF Done
  <2>9. /\ Without(next, dead \cup {h}) = RemoveAt(M, At(M, h))
        /\ Without(After(next, h, new), dead \cup {h}) = [M EXCEPT ![At(M, h)] = new]
    <3>1. h \in ToSet(Without(next, dead)) /\ new \notin dead
      BY <2>1, <2>2, <2>4, <2>5
    <3>2. /\ Without(next, dead \cup {h}) =
                  RemoveAt(Without(next, dead), At(Without(next, dead), h))
          /\ Without(After(next, h, new), dead \cup {h}) =
                  [Without(next, dead) EXCEPT ![At(Without(next, dead), h)] = new]
      <4>1. PutAlike(next, dead, h, new)
        BY <2>2, <3>1, WithoutPut
      <4>. QED BY <4>1 DEF PutAlike
    <3>. QED BY <2>1, <3>2
  <2>10. phase' # "refused"
    BY <1>1, <2>8 DEF Underway
  <2>. QED BY <1>1, <2>1, <2>4, <2>6, <2>8, <2>9, <2>10
<1>. QED BY <1>1, <1>2, SentMeant

\* Where the rule of a message goes.
Put(c, list, r, new) == IF c.op = "add" THEN After(list, r, new) ELSE Before(list, r, new)

\* A rule that is referred to is the one that is meant, and is found.
LEMMA SendRuleMeant ==
    ASSUME PlaceInv, RefsMeant, RefsFound, FlagTrue, KeptMeant, SendRule
    PROVE  KeptMeant'
<1>. DEFINE c == cmds[sent + 1].cmd
            h == cmds[sent + 1].position
            id == cmds[sent + 1].id
            ref == cmds[sent + 1].ref
            new == New(sent + 1)
            M == MeantBy(sent)
            Named == {r \in ToSet(next) : r \in {New(i) : i \in 1..sent} /\ ruleid[r] = id}
<1>1. /\ Underway /\ c.op \in {"add", "insert"} /\ UNCHANGED <<start, cmds, moved>>
      /\ IF h # None
         THEN \/ InKernel(h) /\ Done(Put(c, next, h, new), {})
              \/ (~InKernel(h) \/ h \in dead) /\ Refuse
         ELSE IF id # None
         THEN IF Named = {} THEN Refuse ELSE \E r \in Named : Done(Put(c, next, r, new), {})
         ELSE Done(IF c.op = "add" THEN Append(next, new) ELSE <<new>> \o next, {})
  BY DEF SendRule, Sending, Underway, Msg, Put
<1>2. ASSUME Counted
      PROVE  phase' # "refused" /\ sent' = sent + 1 /\ Without(next', dead') = MeantBy(sent + 1)
  <2>1. /\ M = Without(next, dead) /\ M \in Seq(Nat) /\ M # <<None>>
        /\ ToSet(M) \subseteq ToSet(next) \ dead
        /\ MeantBy(sent + 1) = Meant(M, c, new) /\ Meant(M, c, new) # <<None>>
        /\ c \in Commands
    BY <1>1, <1>2, NextMeant
  <2>2. /\ next \in Seq(Nat) /\ Once(next) /\ new \in Nat /\ new \notin ToSet(next)
        /\ dead \subseteq ToSet(next) /\ sent + 1 \in DOMAIN cmds /\ sent \in Nat
    BY <1>1, NewIsNew, LenProperties DEF PlaceInv, IdInv, TypeInv
  <2>3. new \notin dead
    BY <2>2
  <2>4. c.by \in {"none", "index", "handle"} /\ c.at \in Nat
        /\ (c.by = "handle" => c.at \in Old /\ c.at # None) /\ (c.by = "none" => c.at = None)
    <3>1. c.by = "none" => c.at = None
      BY <2>1 DEF Commands, Placed
    <3>. QED BY <2>1, <3>1, CommandShape, BoundAssumption DEF Old, None
  <2>5. c.by # "index" => h = c.at /\ id = None
    BY <2>2 DEF PlaceInv, RefsTold, Indexed
  <2>. HIDE DEF c, h, id, ref, new, M, Named
  <2>6. ASSUME NEW r \in ToSet(M),
               next' = Put(c, next, r, new), dead' = dead, sent' = sent + 1, phase' = phase,
               Meant(M, c, new) = Put(c, M, r, new)
        PROVE  phase' # "refused" /\ sent' = sent + 1 /\ Without(next', dead') = MeantBy(sent + 1)
    <3>1. r \in ToSet(Without(next, dead))
      BY <2>1
    <3>2. /\ Without(After(next, r, new), dead) = After(Without(next, dead), r, new)
          /\ Without(Before(next, r, new), dead) = Before(Without(next, dead), r, new)
      <4>1. PutAlike(next, dead, r, new)
        BY <2>2, <2>3, <3>1, WithoutPut
      <4>. QED BY <4>1 DEF PutAlike
    <3>3. phase' # "refused"
      BY <1>1, <2>6 DEF Underway
    <3>. QED BY <2>1, <2>6, <3>2, <3>3 DEF Put
  <2>7. CASE c.by = "none"
    <3>1. h = None /\ id = None
      BY <2>4, <2>5, <2>7
    <3>2. /\ next' = (IF c.op = "add" THEN Append(next, new) ELSE <<new>> \o next)
          /\ dead' = dead /\ sent' = sent + 1 /\ phase' = phase
      BY <1>1, <3>1 DEF Done
    <3>3. Meant(M, c, new) = IF c.op = "add" THEN Append(M, new) ELSE <<new>> \o M
      BY <1>1, <2>7 DEF Meant
    <3>4. /\ Without(Append(next, new), dead) = Append(M, new)
          /\ Without(<<new>> \o next, dead) = <<new>> \o M
      BY <2>1, <2>2, <2>3, WithoutEnds
    <3>5. phase' # "refused"
      BY <1>1, <3>2 DEF Underway
    <3>. QED BY <2>1, <3>2, <3>3, <3>4, <3>5
  <2>8. CASE c.by = "handle"
    <3>1. h = c.at /\ h # None /\ h \in Old
      BY <2>4, <2>5, <2>8
    <3>2. h \in ToSet(M)
      BY <1>1, <2>1, <2>4, <2>8, <3>1 DEF Meant
    <3>3. InKernel(h) /\ h \notin dead
      BY <2>1, <3>1, <3>2 DEF InKernel
    <3>4. Done(Put(c, next, h, new), {})
      BY <1>1, <3>1, <3>3
    <3>5. Meant(M, c, new) = Put(c, M, h, new)
      BY <1>1, <2>8, <3>1, <3>2 DEF Meant, Put
    <3>. QED BY <2>6, <3>2, <3>4, <3>5 DEF Done
  <2>9. CASE c.by = "index"
    <3>1. Told(sent + 1) /\ Indexed(sent + 1) /\ ref # None /\ ~Deletes((sent + 1) - 1)
      <4>1. Indexed(sent + 1)
        BY <2>9 DEF Indexed, c
      <4>2. ~HitsReplacing(sent + 1) /\ ~Deletes((sent + 1) - 1) /\ Updates(cmds)
        BY <1>2, <2>2, <4>1 DEF Counted, Miscounted, IndexLost, Deletes
      <4>3. cmds[sent + 1].ref # None
        BY <1>1, <2>2, <4>1, <4>2 DEF RefsFound, FlagTrue, Underway
      <4>. QED BY <4>1, <4>2, <4>3 DEF Told, ref
    <3>2. c.at \in 1..Len(M) /\ ref = M[c.at]
      <4>1. (sent + 1) - 1 = sent
        BY <2>2
      <4>. QED BY <2>1, <2>2, <3>1, <4>1 DEF RefsMeant, M, c, ref
    <3>3. ref \in ToSet(M)
      BY <2>1, <3>2, LenProperties DEF ToSet
    <3>4. /\ h # None => ref = h /\ h \in Old
          /\ h = None => id # None
          /\ id # None =>
                 /\ h = None /\ ruleid[ref] = id
                 /\ \E i \in 1..sent : ref = New(i)
                 /\ \A i \in 1..sent : ruleid[New(i)] = id => New(i) = ref
      <4>1. (sent + 1) - 1 = sent
        BY <2>2
      <4>2. /\ h # None => ref = h /\ h \in Old /\ id = None
            /\ h = None => id # None
            /\ id # None =>
                   /\ h = None
                   /\ \E i \in 1..((sent + 1) - 1) : ref = New(i)
                   /\ \A i \in 1..((sent + 1) - 1) : ruleid[New(i)] = id => New(i) = ref
                   /\ ruleid[ref] = id
        BY <2>2, <3>1, ToldTrue DEF h, id, ref
      <4>. QED BY <4>1, <4>2
    <3>5. ref # None
      <4>1. \A i \in 1..sent : New(i) # None
        BY <2>2, BoundAssumption DEF New, None
      <4>2. \A r \in Old : r # None
        BY BoundAssumption DEF Old, None
      <4>. QED BY <3>4, <4>1, <4>2
    <3>6. Meant(M, c, new) = Put(c, M, ref, new)
      <4>1. c.at <= Len(M)
        BY <2>1, <3>2, LenProperties
      <4>2. M[c.at] = ref
        BY <3>2
      <4>3. Meant(M, c, new) = IF c.op = "add" THEN After(M, M[c.at], new)
                               ELSE Before(M, M[c.at], new)
        BY <1>1, <2>9, <3>5, <4>1, <4>2 DEF Meant
      <4>. QED BY <4>2, <4>3 DEF Put
    <3>7. Done(Put(c, next, ref, new), {})
      <4>1. CASE h # None
        <5>1. InKernel(h) /\ h \notin dead
          BY <2>1, <3>3, <3>4, <4>1 DEF InKernel
        <5>. QED BY <1>1, <3>4, <4>1, <5>1
      <4>2. CASE h = None
        <5>1. \A r : r \in Named <=> r = ref
          <6>1. ref \in ToSet(next) /\ ref \in {New(i) : i \in 1..sent} /\ ruleid[ref] = id
            BY <2>1, <3>3, <3>4, <4>2
          <6>2. \A r \in {New(i) : i \in 1..sent} : ruleid[r] = id => r = ref
            BY <3>4, <4>2
          <6>. QED BY <6>1, <6>2 DEF Named
        <5>. QED BY <1>1, <3>4, <4>2, <5>1
      <4>. QED BY <4>1, <4>2
    <3>8. next' = Put(c, next, ref, new) /\ dead' = dead /\ sent' = sent + 1 /\ phase' = phase
      BY <3>7 DEF Done
    <3>. QED BY <2>6, <3>3, <3>6, <3>8
  <2>. QED BY <2>4, <2>7, <2>8, <2>9
<1>. QED BY <1>1, <1>2, SentMeant

\* The transaction begins with the chain the cache was loaded with.
LEMMA EndMeant ==
    ASSUME PlaceInv, EndOfBatch
    PROVE  KeptMeant'
<1>1. /\ phase = "evaluate" /\ phase' = "send" /\ next' = chain
      /\ UNCHANGED <<start, cmds, dead, sent, moved>>
  BY DEF EndOfBatch
<1>2. /\ sent = 0 /\ dead = {} /\ start \in Seq(Nat) /\ cmds \in Seq(Entry)
      /\ moved = 0 => chain = start
  BY <1>1 DEF PlaceInv, IdInv, TypeInv, Chains
<1>3. Without(start, {}) = start
  BY <1>2, WithoutNone
<1>4. MeantBy(0) = start
  <2>1. Means(Meaning(start, cmds), start, cmds)
    BY <1>2, MeaningMeans
  <2>. QED BY <2>1 DEF Means, MeantBy
<1>5. (MeantBy(sent))' = MeantBy(0)
  BY <1>1, <1>2 DEF MeantBy
<1>. QED BY <1>1, <1>2, <1>3, <1>4, <1>5 DEF KeptMeant

\* What is said of the kernel only holds from the end of the evaluation on.
LEMMA StillKept ==
    ASSUME phase' \in {"evaluate", "error"}
    PROVE  KeptMeant'
BY DEF KeptMeant

\* The commit does what was carried out.
LEMMA SameKept ==
    ASSUME KeptMeant, UNCHANGED <<start, cmds, next, dead, sent, moved>>,
           phase' = phase \/ (phase = "send" /\ phase' = "committed")
    PROVE  KeptMeant'
<1>1. (MeantBy(sent))' = MeantBy(sent) /\ (MeantBy(Len(cmds)))' = MeantBy(Len(cmds))
  BY DEF MeantBy
<1>2. (Miscounted' <=> Miscounted) /\ (IndexLost' <=> IndexLost)
  BY DEF Miscounted, IndexLost, Updates, Indexed, HitsReplacing
<1>. QED BY <1>1, <1>2 DEF KeptMeant

\* All of it holds at first.
LEMMA InitMeant == Init => MeantInv
<1>. SUFFICES ASSUME Init PROVE MeantInv
  OBVIOUS
<1>1. PlaceInv
  BY InitPlace
<1>2. phase = "evaluate" /\ cmds = <<>> /\ cached = start
  BY DEF Init
<1>3. start \in Seq(Nat) /\ cmds \in Seq(Entry)
  BY <1>1 DEF PlaceInv, IdInv, TypeInv, Chains
<1>4. KeptMeant
  BY <1>2 DEF KeptMeant
<1>5. RefsMeant /\ RefsFound /\ FlagTrue
  BY <1>2 DEF RefsMeant, RefsFound, FlagTrue
<1>6. ListMeant
  <2>1. Means(Meaning(start, cmds), start, cmds)
    BY <1>3, MeaningMeans
  <2>2. Len(cmds) = 0
    BY <1>2
  <2>3. MeantBy(Len(cmds)) = start
    BY <2>1, <2>2 DEF Means, MeantBy
  <2>. QED BY <1>2, <2>3 DEF ListMeant
<1>7. HandlesDiffer
  <2>1. PICK k \in 0..MaxRules : cached = [i \in 1..k |-> i]
    BY DEF Init
  <2>2. \A i \in 1..k : handle[i] = i
    BY BoundAssumption DEF Init, Old, All
  <2>. QED BY <2>1, <2>2 DEF HandlesDiffer
<1>. QED BY <1>1, <1>4, <1>5, <1>6, <1>7 DEF MeantInv

\* The batch that was evaluated is the one the flags were computed from.
LEMMA FlagStep == FlagTrue /\ [Next]_vars => FlagTrue'
<1>. SUFFICES ASSUME FlagTrue, [Next]_vars PROVE FlagTrue'
  OBVIOUS
<1>1. ASSUME phase' \in {"evaluate", "error"} PROVE FlagTrue'
  BY <1>1 DEF FlagTrue
<1>2. ASSUME UNCHANGED <<cmds, updating>>, phase \in {"send", "committed", "refused"} \/ phase' = phase
      PROVE  FlagTrue'
  BY <1>2 DEF FlagTrue, Updates
<1>3. ASSUME NEW c \in Commands, EvaluateRule(c) \/ EvaluateReplace(c) \/ PassOver(c)
      PROVE  FlagTrue'
  <2>1. phase' \in {"evaluate", "error"}
    BY <1>3 DEF EvaluateRule, EvaluateReplace, PassOver, Room
  <2>. QED BY <1>1, <2>1
<1>4. CASE EndOfBatch
  BY <1>4 DEF EndOfBatch, FlagTrue, Updates
<1>5. CASE Others
  BY <1>2, <1>5 DEF Others
<1>6. CASE SendRule \/ SendDelete \/ SendFlush
  BY <1>2, <1>6 DEF SendRule, SendDelete, SendFlush, Sending
<1>7. CASE Commit
  BY <1>2, <1>7 DEF Commit
<1>8. CASE UNCHANGED vars
  BY <1>2, <1>8 DEF vars
<1>. QED BY <1>3, <1>4, <1>5, <1>6, <1>7, <1>8 DEF Next

\* Each step keeps it.
LEMMA MeantStep == MeantInv /\ [Next]_vars => MeantInv'
<1>. SUFFICES ASSUME MeantInv, [Next]_vars PROVE MeantInv'
  OBVIOUS
<1>0. /\ PlaceInv /\ Evaluated /\ KeptMeant /\ RefsMeant /\ RefsFound /\ FlagTrue
      /\ PlaceInv' /\ FlagTrue'
  BY PlaceStep, FlagStep DEF MeantInv, Evaluated
<1>. SUFFICES Evaluated' /\ KeptMeant'
  BY <1>0 DEF MeantInv, Evaluated
<1>1. ASSUME NEW c \in Commands, EvaluateRule(c) PROVE Evaluated' /\ KeptMeant'
  <2>1. phase' \in {"evaluate", "error"}
    BY <1>1 DEF EvaluateRule, Room
  <2>. QED BY <1>0, <1>1, <2>1, RuleMeant, StillKept
<1>2. ASSUME NEW c \in Commands, EvaluateReplace(c) PROVE Evaluated' /\ KeptMeant'
  <2>1. phase' \in {"evaluate", "error"}
    BY <1>2 DEF EvaluateReplace, Room
  <2>. QED BY <1>0, <1>2, <2>1, ReplaceMeant, StillKept
<1>3. ASSUME NEW c \in Commands, PassOver(c) PROVE Evaluated' /\ KeptMeant'
  <2>1. phase' \in {"evaluate", "error"}
    BY <1>3 DEF PassOver, Room
  <2>. QED BY <1>0, <1>3, <2>1, PassMeant, StillKept
<1>4. CASE EndOfBatch
  <2>1. phase' = "send" /\ UNCHANGED <<cached, updating, handle, cmds, start>>
    BY <1>4 DEF EndOfBatch
  <2>. QED BY <1>0, <1>4, <2>1, OtherMeant, EndMeant
<1>5. CASE Others
  <2>1. phase' = phase /\ phase = "evaluate" /\ UNCHANGED <<cached, updating, handle, cmds, start>>
    BY <1>5 DEF Others
  <2>. QED BY <1>0, <2>1, OtherMeant, StillKept
<1>6. ASSUME UNCHANGED <<cached, updating, handle, cmds, start>>, phase' = phase \/ phase' # "evaluate"
      PROVE  Evaluated'
  BY <1>0, <1>6, OtherMeant
<1>8. CASE SendRule
  <2>1. UNCHANGED <<cached, updating, handle, cmds, start>> /\ phase = "send"
    BY <1>8 DEF SendRule, Sending
  <2>2. phase' # "evaluate"
    BY <1>8, <2>1 DEF SendRule, Done, Refuse
  <2>. QED BY <1>0, <1>6, <1>8, <2>1, <2>2, SendRuleMeant
<1>9. CASE SendDelete
  <2>1. UNCHANGED <<cached, updating, handle, cmds, start>> /\ phase = "send"
    BY <1>9 DEF SendDelete, Sending
  <2>2. phase' # "evaluate"
    BY <1>9, <2>1 DEF SendDelete, Done, Refuse
  <2>. QED BY <1>0, <1>6, <1>9, <2>1, <2>2, SendDeleteMeant
<1>10. CASE SendFlush
  <2>1. UNCHANGED <<cached, updating, handle, cmds, start>> /\ phase' = phase
    BY <1>10 DEF SendFlush, Done
  <2>. QED BY <1>0, <1>6, <1>10, <2>1, SendFlushMeant
<1>11. CASE Commit
  <2>1. /\ UNCHANGED <<cached, updating, handle, cmds, start>> /\ phase = "send" /\ phase' = "committed"
        /\ UNCHANGED <<start, cmds, next, dead, sent, moved>>
    BY <1>11 DEF Commit
  <2>. QED BY <1>0, <1>6, <2>1, SameKept
<1>12. CASE UNCHANGED vars
  <2>1. /\ UNCHANGED <<cached, updating, handle, cmds, start>> /\ phase' = phase
        /\ UNCHANGED <<start, cmds, next, dead, sent, moved>>
    BY <1>12 DEF vars
  <2>. QED BY <1>0, <1>6, <2>1, SameKept
<1>. QED BY <1>1, <1>2, <1>3, <1>4, <1>5, <1>8, <1>9, <1>10, <1>11, <1>12 DEF Next

\* What is committed is what was carried out.
LEMMA Placements == MeantInv => PlacedAsCounted
<1>. SUFFICES ASSUME MeantInv, moved = 0, ~Miscounted, ~IndexLost,
                     phase \in {"committed", "refused"},
                     MeantBy(Len(cmds)) # <<None>>
              PROVE  phase = "committed" /\ chain = MeantBy(Len(cmds))
  BY DEF PlacedAsCounted, Undisturbed, AsMeant
<1>1. phase = "committed" /\ Without(next, dead) = MeantBy(sent)
  BY DEF MeantInv, KeptMeant
<1>2. sent = Len(cmds) /\ chain = Without(next, dead)
  BY <1>1 DEF MeantInv, PlaceInv, Carried
<1>. QED BY <1>1, <1>2

\* A batch whose references all exist is not refused, and it leaves the chain
\* that its commands mean, one after the other: the handles and the ids that
\* rule_cache_update gives them are those of the rules that were counted.  Not
\* so if an index comes after a deletion, hits a rule that replaces another, or
\* is lost to a later replace (Miscounted, IndexLost).
THEOREM PlacedAlways == Spec => []PlacedAsCounted
BY InitMeant, MeantStep, Placements, PTL DEF Spec
=============================================================================
