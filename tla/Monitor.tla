------------------------------- MODULE Monitor -------------------------------
(***************************************************************************)
(* "nft monitor" (src/monitor.c): the kernel's events, printed.  An event  *)
(* does not say all that is printed of it.  A rule names its sets, whose   *)
(* elements came with earlier events or were there before; a range comes   *)
(* as two events, one for its start and one for its end.  So the monitor   *)
(* keeps the cache it was started with and has the events change it.       *)
(*                                                                         *)
(* Commits of others are queued as events in their order.  They are lost   *)
(* if the socket's buffer is full (ENOBUFS), and if they happen after the  *)
(* cache was loaded but before the monitor listens.  Sets of which events  *)
(* were lost, and those that came to what the code does not cope with, are *)
(* "spoilt": of them nothing is claimed.                                   *)
(***************************************************************************)
EXTENDS IntervalEnds, Sequences, FiniteSets, SequencesExt

CONSTANTS
    Named,       \* names of sets declared with a name
    Ranged,      \* those that are sets of intervals
    Anonymous,   \* names the kernel gives to the sets of rules, all of intervals
    Objects,     \* names of objects
    Given,       \* the elements a command may name: sequences
    MaxCommits,  \* bound: commits
    MaxLag,      \* bound: events unread when others commit again
    MaxSpoilt    \* bound: sets and objects spoilt before a further event is lost

CatchAll == [lo |-> -1, hi |-> -1]

ASSUME NamesAssumption ==
    /\ IsFiniteSet(Named \cup Anonymous \cup Objects) /\ Named \cup Anonymous # {}
    /\ Ranged \subseteq Named /\ Named \cap Anonymous = {}
ASSUME GivenAssumption == Given \subseteq Seq(Spans \cup {CatchAll}) \ {<<>>}
ASSUME BoundAssumption == MaxCommits \in Nat /\ MaxLag \in Nat /\ MaxSpoilt \in Nat

VARIABLES
    kern,     \* the kernel: its table, sets with their elements, rules, objects
    events,   \* events the kernel has sent and the monitor has not read
    joined,   \* the monitor has joined the multicast group
    copy,     \* the monitor's cache: the tables of that name, in list order
    out,      \* what was printed last
    spoilt,   \* sets and objects of which nothing is claimed any more
    commits

vars == <<kern, events, joined, copy, out, spoilt, commits>>

Names == Named \cup Anonymous
HasRanges(n) == n \in Ranged \cup Anonymous

---------------------------------------------------------------------------
(* The kernel, and what others change in it.  With an event stands, for    *)
(* the properties only, what it is about: the element an end belongs to,   *)
(* or the elements of the set a rule looks up.                             *)

Event(type, name, el, about) == [type |-> type, name |-> name, el |-> el, about |-> about]
Plain(type, name) == Event(type, name, {}, {})

\* The messages for a list of elements (set_to_intervals): an end at zero goes
\* before the first elements of a set; a range to the largest key and a
\* catch-all element have no end, nor has a range of an anonymous set where
\* the next one starts.
HasEnd(n, list, i) ==
    /\ HasRanges(n) /\ list[i] # CatchAll /\ list[i].hi < MaxKey
    /\ n \in Anonymous /\ i < Len(list) => list[i + 1].lo # list[i].hi + 1

Halves(type, n, list, i) ==
    <<Event(type, n, {Start(list[i].lo)}, {list[i]})>>
    \o (IF HasEnd(n, list, i) THEN <<Event(type, n, {End(list[i].hi + 1)}, {list[i]})>> ELSE <<>>)

Messages(type, n, list, first) ==
    (IF first THEN <<Event(type, n, {End(0)}, {})>> ELSE <<>>)
    \o FlattenSeq([i \in DOMAIN list |-> Halves(type, n, list, i)])

Spoils(e) == IF e.type \in {"newtable", "deltable"} THEN Names \cup Objects ELSE {e.name}

\* A commit before the monitor listens changes nothing but the kernel.
Commit(k, sent) ==
    /\ commits < MaxCommits /\ Len(events) <= MaxLag
    /\ commits' = commits + 1
    /\ kern' = k
    /\ IF joined
       THEN events' = events \o sent /\ UNCHANGED spoilt
       ELSE spoilt' = spoilt \cup UNION {Spoils(sent[i]) : i \in DOMAIN sent} /\ UNCHANGED events
    /\ UNCHANGED <<joined, copy, out>>

Has(n) == n \in DOMAIN kern.sets
With(n, els) == [m \in DOMAIN kern.sets \cup {n} |-> IF m = n THEN els ELSE kern.sets[m]]
Without(N) == [m \in DOMAIN kern.sets \ N |-> kern.sets[m]]

Bare == [table |-> FALSE, sets |-> [n \in {} |-> {}], rules |-> {}, objects |-> {}]

\* Also an event of a table that is there: its flags have changed.
NewTable == Commit([kern EXCEPT !.table = TRUE], <<Plain("newtable", "t")>>)

DelTable ==
    LET Each(type, S) == SetToSeq({Plain(type, n) : n \in S})
    IN  /\ kern.table
        /\ Commit(Bare, Each("delrule", kern.rules) \o Each("delset", DOMAIN kern.sets \cap Named)
                        \o Each("delobj", kern.objects) \o <<Plain("deltable", "t")>>)

NewSet(n) ==
    /\ kern.table /\ ~Has(n)
    /\ Commit([kern EXCEPT !.sets = With(n, {})], <<Plain("newset", n)>>)

DelSet(n) ==
    /\ Has(n) /\ n \notin kern.rules
    /\ Commit([kern EXCEPT !.sets = Without({n})], <<Plain("delset", n)>>)

Apart(S) == \A x, y \in S : x = y \/ x.hi < y.lo \/ y.hi < x.lo

NewElements(n, list) ==
    LET first == n \in Ranged /\ kern.sets[n] = {} /\ list[1] # CatchAll /\ list[1].lo # 0
    IN  /\ Has(n) /\ kern.sets[n] \cap ToSet(list) = {} /\ Apart(kern.sets[n] \cup ToSet(list))
        /\ HasRanges(n) \/ \A x \in ToSet(list) : x.lo = x.hi
        /\ Commit([kern EXCEPT !.sets = With(n, @[n] \cup ToSet(list))],
                  Messages("newelem", n, list, first))

DelElements(n, list) ==
    /\ Has(n) /\ ToSet(list) \subseteq kern.sets[n]
    /\ Commit([kern EXCEPT !.sets = With(n, @[n] \ ToSet(list))],
              Messages("delelem", n, list, FALSE))

\* A rule that looks up a set with a name, and one that brings its own.
NewRule(n) ==
    /\ Has(n) /\ n \notin kern.rules
    /\ Commit([kern EXCEPT !.rules = @ \cup {n}], <<Event("newrule", n, {}, kern.sets[n])>>)

NewRuleWithSet(n, list) ==
    /\ kern.table /\ ~Has(n) /\ CatchAll \notin ToSet(list) /\ Apart(ToSet(list))
    /\ Commit([kern EXCEPT !.sets = With(n, ToSet(list)), !.rules = @ \cup {n}],
              <<Plain("newset", n)>> \o Messages("newelem", n, list, list[1].lo # 0)
              \o <<Event("newrule", n, {}, ToSet(list))>>)

\* The set of a rule goes with it, and no event says so.
DelRule(n) ==
    /\ n \in kern.rules
    /\ Commit([kern EXCEPT !.rules = @ \ {n}, !.sets = Without({n} \cap Anonymous)],
              <<Plain("delrule", n)>>)

NewObj(o) ==
    /\ kern.table /\ o \notin kern.objects
    /\ Commit([kern EXCEPT !.objects = @ \cup {o}], <<Plain("newobj", o)>>)

DelObj(o) ==
    /\ o \in kern.objects
    /\ Commit([kern EXCEPT !.objects = @ \ {o}], <<Plain("delobj", o)>>)

Commits ==
    \/ NewTable \/ DelTable
    \/ \E n \in Named : NewSet(n) \/ DelSet(n) \/ NewRule(n)
    \/ \E n \in Named, list \in Given : NewElements(n, list) \/ DelElements(n, list)
    \/ \E n \in Anonymous, list \in Given : NewRuleWithSet(n, list)
    \/ \E n \in Names : DelRule(n)
    \/ \E o \in Objects : NewObj(o) \/ DelObj(o)

---------------------------------------------------------------------------
(* The cache.  Everything is appended, and of what has the same name the   *)
(* first is found.                                                         *)

CachedSet(n, els) == [name |-> n, els |-> els, half |-> {}]
Find(n) == IF copy = <<>> THEN 0 ELSE SelectInSeq(copy[1].sets, LAMBDA s : s.name = n)
InTable(t) == IF copy = <<>> THEN copy ELSE [copy EXCEPT ![1] = t]

\* The cache the monitor is started with.
Loaded(k) ==
    LET Ends1(x) == IF x = CatchAll THEN {Start(x.lo)} ELSE Ends({x})
    IN  IF ~k.table THEN <<>>
        ELSE <<[sets |-> SetToSeq({CachedSet(n, UNION {Ends1(x) : x \in k.sets[n]}) :
                                   n \in DOMAIN k.sets}),
                objects |-> k.objects]>>

\* netlink_monitor
Join ==
    /\ ~joined
    /\ joined' = TRUE
    /\ UNCHANGED <<kern, events, copy, out, spoilt, commits>>

\* The socket's buffer was full when an event came.
Lose ==
    /\ joined /\ events # <<>> /\ Cardinality(spoilt) < MaxSpoilt
    /\ events' = Tail(events)
    /\ spoilt' = spoilt \cup Spoils(Head(events))
    /\ UNCHANGED <<kern, joined, copy, out, commits>>

Ev == Head(events)
Read(types) ==
    /\ joined /\ events # <<>> /\ Ev.type \in types
    /\ events' = Tail(events)
    /\ UNCHANGED <<kern, joined, commits>>

Quiet == [known |-> TRUE, type |-> "none", name |-> "none", about |-> {}, said |-> {}]
Say(known, said) ==
    out' = [known |-> known, type |-> Ev.type, name |-> Ev.name, about |-> Ev.about, said |-> said]

\* netlink_events_cache_addtable
AddTable ==
    /\ Read({"newtable"})
    /\ copy' = Append(copy, [sets |-> <<>>, objects |-> {}])
    /\ out' = Quiet /\ UNCHANGED spoilt

\* netlink_events_cache_deltable
RemoveTable ==
    /\ Read({"deltable"})
    /\ copy' = IF copy = <<>> THEN copy ELSE Tail(copy)
    /\ out' = Quiet /\ UNCHANGED spoilt

\* Variant: sets with a name are left out, as they are when a batch is echoed.
AddSetsOfRules ==
    /\ Read({"newset"})
    /\ copy' = IF Ev.name \in Named THEN copy
               ELSE InTable([copy[1] EXCEPT !.sets = Append(@, CachedSet(Ev.name, {}))])
    /\ out' = Quiet /\ UNCHANGED spoilt
\* netlink_events_cache_addset
AddSet ==
    /\ Read({"newset"})
    /\ copy' = InTable([copy[1] EXCEPT !.sets = Append(@, CachedSet(Ev.name, {}))])
    /\ out' = Quiet /\ UNCHANGED spoilt

\* Nothing is done about the cache when a set is deleted.
PassSet ==
    /\ Read({"delset"})
    /\ out' = Quiet /\ UNCHANGED <<copy, spoilt>>

\* netlink_events_cache_addsetelem
Stored(s) == IF Ev.type = "newelem" THEN [s EXCEPT !.els = @ \cup Ev.el] ELSE s

\* Variant: an end at zero is half of a range.
NullElementKept(el) == FALSE
\* netlink_event_ignore_range_event
NullElement(el) == el = {End(0)}

\* Variant: every range has an end.
OpenNever(el) == FALSE
\* set_elem_is_open_interval: a flag nft has stored with the element.
Open(el) == \E x \in Ev.about : x.hi = MaxKey /\ el = {Start(x.lo)}

\* netlink_event_range_cache and what is printed then: the first half of a
\* range waits for another element, which is taken for the other half.
Halved(s) ==
    IF NullElement(Ev.el) THEN out' = Quiet /\ UNCHANGED spoilt
    ELSE IF s.name \notin Ranged
    THEN Say(TRUE, {[lo |-> e.key, hi |-> e.key] : e \in Ev.el}) /\ UNCHANGED spoilt
    ELSE /\ IF s.half # {} \/ Open(Ev.el) THEN Say(TRUE, Decompose(s.half \cup Ev.el))
            ELSE out' = Quiet
         /\ spoilt' = spoilt \cup (IF CatchAll \in Ev.about THEN {s.name} ELSE {})

Waiting(s) ==
    IF s.name \notin Ranged \/ NullElement(Ev.el) THEN s.half
    ELSE IF s.half # {} \/ Open(Ev.el) THEN {} ELSE Ev.el

\* netlink_events_setelem_cb
SetElem ==
    /\ Read({"newelem", "delelem"})
    /\ LET i == Find(Ev.name)
       IN IF i = 0 THEN Say(FALSE, {}) /\ UNCHANGED <<copy, spoilt>>
          ELSE LET s == copy[1].sets[i]
               IN /\ copy' = [copy EXCEPT ![1].sets[i] = [Stored(s) EXCEPT !.half = Waiting(s)]]
                  /\ IF Ev.name \in Anonymous THEN out' = Quiet /\ UNCHANGED spoilt
                     ELSE Halved(s)

\* netlink_events_rule_cb: the set of a rule is printed as the cache has it.
AddRule ==
    /\ Read({"newrule"})
    /\ LET i == Find(Ev.name)
       IN IF i = 0 THEN Say(FALSE, {}) ELSE Say(TRUE, Decompose(copy[1].sets[i].els))
    /\ UNCHANGED <<copy, spoilt>>

\* Variant: the sets of a rule stay when the rule goes.
SetsWithoutNone(sets, n) == sets
\* netlink_events_cache_delsets: all the sets the rule looks up, the named
\* ones, too.
SetsWithout(sets, n) ==
    LET i == SelectInSeq(sets, LAMBDA s : s.name = n) IN IF i = 0 THEN sets ELSE RemoveAt(sets, i)

RemoveRule ==
    /\ Read({"delrule"})
    /\ copy' = InTable([copy[1] EXCEPT !.sets = SetsWithout(@, Ev.name)])
    /\ spoilt' = spoilt \cup ({Ev.name} \cap Named)
    /\ out' = Quiet

\* Variant: an object that is gone stays in the cache.
ObjectsKept(objects) == IF Ev.type = "newobj" THEN objects \cup {Ev.name} ELSE objects
\* netlink_events_cache_addobj, netlink_events_cache_delobj
ObjectsAfter(objects) ==
    IF Ev.type = "newobj" THEN objects \cup {Ev.name} ELSE objects \ {Ev.name}

Obj ==
    /\ Read({"newobj", "delobj"})
    /\ copy' = InTable([copy[1] EXCEPT !.objects = ObjectsAfter(@)])
    /\ out' = Quiet /\ UNCHANGED spoilt

Init ==
    /\ \E N \in SUBSET Named, table \in BOOLEAN :
          /\ N # {} => table
          /\ kern = [Bare EXCEPT !.table = table, !.sets = [n \in N |-> {}]]
    /\ events = <<>> /\ joined = FALSE
    /\ copy = Loaded(kern)
    /\ out = Quiet /\ spoilt = {} /\ commits = 0

Monitor == AddTable \/ RemoveTable \/ AddSet \/ PassSet \/ SetElem \/ AddRule \/ RemoveRule \/ Obj

Next == Commits \/ Lose \/ Join \/ Monitor

Spec == Init /\ [][Next]_vars

---------------------------------------------------------------------------
\* A rule is printed with the elements its own set has in the kernel, however
\* often the name of that set has been given before.
RulesShowTheirSets ==
    out.type = "newrule" /\ out.name \in Anonymous \ spoilt => out.known /\ out.said = out.about

\* What is printed of the elements of a set of intervals are the ranges that
\* were added or deleted, no matter how the events of several sets, and of
\* ranges with and without an end, follow each other; the sets that events
\* name are in the cache; and no half of a range waits once all events are
\* read: every change of a set was printed (netlink_event_range_cache).
RangesExact ==
    /\ out.type \in {"newelem", "delelem"} /\ out.name \notin spoilt =>
            out.known /\ out.said = out.about
    /\ joined /\ events = <<>> /\ copy # <<>> =>
            \A i \in DOMAIN copy[1].sets :
                copy[1].sets[i].name \notin spoilt => copy[1].sets[i].half = {}

\* When all events are read, the cache has the anonymous sets and the objects
\* the kernel has, and no more: a monitor that runs for long does not fill up.
CopyFollows ==
    joined /\ events = <<>> /\ spoilt = {} =>
        /\ kern.table => copy # <<>>
        /\ kern.table =>
             /\ copy[1].objects = kern.objects
             /\ \A n \in Anonymous :
                  Cardinality({i \in DOMAIN copy[1].sets : copy[1].sets[i].name = n})
                  = (IF Has(n) THEN 1 ELSE 0)
=============================================================================
