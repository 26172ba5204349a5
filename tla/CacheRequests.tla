--------------------------- MODULE CacheRequests ---------------------------
(***************************************************************************)
(* What the cache may be asked to load: the flags of enum                  *)
(* cache_level_flags (include/cache.h) and the filter that goes with them, *)
(* over the objects a ruleset is made of.  nft_cache_evaluate (CacheFlags) *)
(* makes the requests, nft_cache_update (NftCache) serves them.            *)
(*                                                                         *)
(* A ruleset is a set of items (tables, chains, sets, elements, ...) that  *)
(* is closed under ownership.  The contents of an item play no part: an    *)
(* item that changes is one item gone and another one added.               *)
(***************************************************************************)
CONSTANTS
    Item,      \* every object the kernel may hold at some time
    KindOf,    \* [Item -> Kinds]
    OwnerOf,   \* [Item -> Item]: the set of an element, the chain of a rule,
               \* the table of anything else (a table owns itself)
    TableOf,   \* [Item -> Item]
    Interval,  \* the sets of ranges that are no concatenations
    Anonymous  \* the anonymous sets

Kinds == {"table", "chain", "set", "flowtable", "setelem", "object", "rule"}
Modifiers == {"terse", "maybe", "refresh", "update", "flushed"}

Rulesets == {R \in SUBSET Item : \A x \in R : OwnerOf[x] \in R}

ASSUME ItemAssumption ==
    /\ KindOf \in [Item -> Kinds]
    /\ OwnerOf \in [Item -> Item]
    /\ TableOf \in [Item -> Item]
    /\ \A x \in Item : /\ KindOf[TableOf[x]] = "table"
                       /\ KindOf[x] = "table" => OwnerOf[x] = x /\ TableOf[x] = x
                       /\ KindOf[x] = "rule" => KindOf[OwnerOf[x]] = "chain"
                       /\ KindOf[x] = "setelem" => KindOf[OwnerOf[x]] = "set"
                       /\ KindOf[x] \in {"chain", "set", "flowtable", "object"}
                             => OwnerOf[x] = TableOf[x]
                       /\ TableOf[OwnerOf[x]] = TableOf[x]

\* A request: its flags, and in "hide" what the filter keeps out of the load.
\* enum cache_level_flags sets the bits of the owners along with a kind; what
\* hides an item hides what it owns; and what leaves out more than the
\* elements of sets that are flushed anyway is a listing, which also sets
\* NFT_CACHE_REFRESH.
IsRequest(rq) ==
    /\ rq \in [flags : SUBSET (Kinds \cup Modifiers), hide : SUBSET Item]
    /\ rq.flags \cap Kinds # {} => "table" \in rq.flags
    /\ "rule" \in rq.flags => "chain" \in rq.flags
    /\ {"setelem", "maybe"} \cap rq.flags # {} => {"set", "table"} \subseteq rq.flags
    /\ \A x \in Item : OwnerOf[x] \in rq.hide => x \in rq.hide
    /\ "terse" \in rq.flags => "refresh" \in rq.flags
    /\ (\E x \in rq.hide : KindOf[x] # "setelem") => "refresh" \in rq.flags

(***************************************************************************)
(* What a request loads.                                                   *)
(***************************************************************************)
LoadsElements(rq, s) ==
    IF "setelem" \in rq.flags THEN "terse" \in rq.flags => s \in Anonymous
                              ELSE "maybe" \in rq.flags /\ s \in Interval

Loads(rq) ==
    {x \in Item \ rq.hide :
        /\ "flushed" \notin rq.flags
        /\ IF KindOf[x] = "setelem" THEN LoadsElements(rq, OwnerOf[x])
                                    ELSE KindOf[x] \in rq.flags}
=============================================================================
