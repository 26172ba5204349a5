------------------------------ MODULE NftCache ------------------------------
(***************************************************************************)
(* nft_cache_update (src/cache.c) against the kernel it reads.             *)
(*                                                                         *)
(* Before it evaluates a batch of commands, libnftables loads the part of  *)
(* the kernel's ruleset the batch needs: one netlink dump per kind of      *)
(* object, with other processes committing transactions between any two    *)
(* messages.  Three devices are meant to make the result one consistent    *)
(* ruleset: every dump message carries the low bits of the generation      *)
(* counter (check_genid), the kernel flags a dump it saw interrupted, and  *)
(* the generation is read again after the last dump.  Any mismatch throws  *)
(* the cache away and starts over.  A later update reuses the cache while  *)
(* the generation stands and the requested flags were loaded.              *)
(***************************************************************************)
EXTENDS CacheRequests, Naturals

CONSTANTS
    Requests,  \* what nft_cache_evaluate may ask for
    Faulty,    \* kinds whose dump the kernel may refuse with an error
    GenMod,    \* generations the wire can tell apart (2^16 in the code)
    MaxGen     \* bound: the last generation the kernel reaches

ASSUME RequestAssumption == \A rq \in Requests : IsRequest(rq)

\* A kernel that refuses to dump flowtables or objects has none.
ASSUME FaultyAssumption ==
    /\ Faulty \subseteq Kinds
    /\ \A x \in Item : KindOf[x] \in Faulty => KindOf[x] \in {"table", "chain", "set"}

ASSUME GenAssumption == GenMod \in Nat \ {0} /\ MaxGen \in Nat \ {0}

VARIABLES
    gen,     \* the kernel's generation counter
    kern,    \* the kernel's ruleset
    pc,      \* where nft_cache_update is; "idle" outside of it
    req,     \* the flags and the filter of the call
    genid,   \* the generation read at "replay:", kept in nft_genid too
    got,     \* items received from the dump under way
    dgen,    \* generation of the first message of that dump, 0 before it
    eintr,   \* nft_mnl_recv saw EINTR and drains the rest of the dump
    tabs,    \* tables the loop of cache_init_objects has yet to visit
    tab,     \* the table it is at
    sets,    \* sets of that table whose elements are yet to be dumped
    cache,   \* the items in nft->cache
    cgenid,  \* cache->genid
    cflags,  \* cache->flags
    omit,    \* what the filter kept out of the cache, which has no record of it
    ret      \* result of the last call

vars == <<gen, kern, pc, req, genid, got, dgen, eintr, tabs, tab, sets,
          cache, cgenid, cflags, omit, ret>>
kernel == <<gen, kern>>
dumping == <<got, dgen, eintr>>
walk == <<tabs, tab, sets>>
stored == <<cache, cgenid, cflags, omit>>

(***************************************************************************)
(* The generation as netlink carries it, in 16 bits of nfgenmsg.res_id.    *)
(***************************************************************************)
Wire(g) == g % GenMod

NoRequest == [flags |-> {}, hide |-> {}]

Init ==
    /\ gen = 1 /\ kern \in Rulesets
    /\ pc = "idle" /\ req = NoRequest /\ genid = 0
    /\ got = {} /\ dgen = 0 /\ eintr = FALSE
    /\ tabs = {} /\ tab \in {x \in Item : KindOf[x] = "table"} /\ sets = {}
    /\ cache = {} /\ cgenid = 0 /\ cflags = {} /\ omit = {}
    /\ ret = "none"

(***************************************************************************)
(* Another process commits a transaction: one new generation, any ruleset. *)
(***************************************************************************)
Commit ==
    /\ gen < MaxGen
    /\ gen' = gen + 1
    /\ kern' \in Rulesets
    /\ UNCHANGED <<pc, req, genid, dumping, walk, stored, ret>>

\* Variant: NFT_CACHE_REFRESH is not looked at.
NeverRefresh == FALSE

NeedsRefresh == "refresh" \in cflags
IsComplete(rq) == rq.flags \subseteq cflags
IsUpdated(g) == g # 0 /\ g = cgenid
Reusable(rq, g) == ~NeedsRefresh /\ IsComplete(rq) /\ IsUpdated(g)

(***************************************************************************)
(* nft_cache_update is called by nft_evaluate, for one batch after the     *)
(* other.  A batch that flushes a set leaves its elements out of the load  *)
(* and then deletes them: there is a new generation, or there were none,   *)
(* or the batch fails and its caller releases the cache.  (A dry run does  *)
(* nothing of the kind: see Libnftables.)                                  *)
(***************************************************************************)
Settled == IsUpdated(Wire(gen)) /\ "refresh" \notin cflags => kern \cap omit = {}

Call(rq) ==
    /\ pc = "idle" /\ Settled
    /\ pc' = "replay" /\ req' = rq /\ ret' = "none"
    /\ UNCHANGED <<kernel, genid, dumping, walk, stored>>

Return(r) == pc' = "idle" /\ ret' = r

(***************************************************************************)
(* nft_cache_release                                                       *)
(***************************************************************************)
Release == cache' = {} /\ cgenid' = 0 /\ cflags' = {} /\ omit' = {}

\* nft_run_cmd_from_buffer and __nft_run_cmd_from_filename: "if (rc)".
RunFailed ==
    /\ pc = "idle"
    /\ Release
    /\ UNCHANGED <<kernel, pc, req, genid, dumping, walk, ret>>

BeginDump(phase) == pc' = phase /\ got' = {} /\ dgen' = 0 /\ eintr' = FALSE

(***************************************************************************)
(* "replay:" reads the generation and takes one of three ways.             *)
(***************************************************************************)
Reuse ==
    /\ pc = "replay"
    /\ Reusable(req, Wire(gen))
    /\ genid' = Wire(gen)
    /\ Return("ok")
    /\ UNCHANGED <<kernel, req, dumping, walk, stored>>

\* Only a cache that has a generation is released before it is filled again.
Flushed ==
    /\ pc = "replay"
    /\ ~Reusable(req, Wire(gen))
    /\ "flushed" \in req.flags
    /\ genid' = Wire(gen)
    /\ cache' = IF cgenid # 0 THEN {} ELSE cache
    /\ cgenid' = Wire(gen)
    /\ cflags' = req.flags \cap {"update"} /\ omit' = {}
    /\ Return("ok")
    /\ UNCHANGED <<kernel, req, dumping, walk>>

\* Variant: the old cache is not released before it is filled again.
BeginLoadOnTop ==
    /\ pc = "replay"
    /\ ~Reusable(req, Wire(gen))
    /\ "flushed" \notin req.flags
    /\ genid' = Wire(gen)
    /\ cgenid' = 0 /\ cflags' = {} /\ UNCHANGED <<cache, omit>>
    /\ BeginDump(IF req.flags = {} THEN "stop" ELSE "table")
    /\ UNCHANGED <<kernel, req, walk, ret>>

BeginLoad ==
    /\ pc = "replay"
    /\ ~Reusable(req, Wire(gen))
    /\ "flushed" \notin req.flags
    /\ genid' = Wire(gen)
    /\ IF cgenid # 0 THEN Release ELSE UNCHANGED stored
    /\ BeginDump(IF req.flags = {} THEN "stop" ELSE "table")
    /\ UNCHANGED <<kernel, req, walk, ret>>

(***************************************************************************)
(* The dumps.  InScope is what the dump at this place asks the kernel for. *)
(***************************************************************************)
DumpPhases == {"table", "chain", "set", "flowtable", "setelem", "object", "rule"}

Wanted(phase) ==
    IF phase = "setelem" THEN sets # {} ELSE phase = "table" \/ phase \in req.flags

InScope(x, s) ==
    /\ KindOf[x] = pc
    /\ pc = "object" => TableOf[x] = tab
    /\ pc = "setelem" => OwnerOf[x] = s
    /\ pc # "setelem" => x \notin req.hide

Scope(s) == {x \in kern : InScope(x, s)}

\* The set whose elements are dumped: the first one left of this table.
Current == IF sets = {} THEN tab ELSE CHOOSE s \in sets : TRUE

\* One message.  check_genid compares what it carries with nft_genid; the
\* kernel marks a message sent under another generation than the first one.
DumpMessage ==
    /\ pc \in DumpPhases /\ Wanted(pc)
    /\ \E x \in Scope(Current) \ got : got' = got \cup {x}
    /\ dgen' = IF dgen = 0 THEN gen ELSE dgen
    /\ eintr' = (eintr \/ Wire(gen) # genid \/ (dgen # 0 /\ gen # dgen))
    /\ UNCHANGED <<kernel, pc, req, genid, walk, stored, ret>>

\* Variant: a dump without messages counts as interrupted.
InterruptedIfEmpty == eintr \/ gen # dgen

Interrupted == eintr \/ (dgen # 0 /\ gen # dgen)

\* Where control goes when a dump is over: the next kind, the loop over the
\* tables, the next set of the table, or the loop again.
Onward ==
    \/ pc = "table" /\ BeginDump("chain") /\ UNCHANGED walk
    \/ pc = "chain" /\ BeginDump("set") /\ UNCHANGED walk
    \/ pc = "set" /\ BeginDump("flowtable") /\ UNCHANGED walk
    \/ /\ pc = "flowtable" /\ BeginDump("loop")
       /\ tabs' = {x \in cache' : KindOf[x] = "table"}
       /\ UNCHANGED <<tab, sets>>
    \/ /\ pc = "setelem" /\ sets # {} /\ BeginDump("setelem")
       /\ sets' = sets \ {Current}
       /\ UNCHANGED <<tabs, tab>>
    \/ pc = "setelem" /\ sets = {} /\ BeginDump("object") /\ UNCHANGED walk
    \/ pc = "object" /\ BeginDump("rule") /\ UNCHANGED walk
    \/ pc = "rule" /\ BeginDump("loop") /\ UNCHANGED walk

\* Objects of a table that is not in the cache are dropped, and so are rules
\* of another table than the one at hand: their dump is not limited to one.
Accepted ==
    {x \in got : /\ KindOf[x] = "table" \/ TableOf[x] \in cache
                 /\ KindOf[x] = "rule" => TableOf[x] = tab}

Orphans == pc = "rule" /\ \E x \in Accepted : OwnerOf[x] \notin cache

\* The kernel has nothing more to send, or lost its place after a commit.
DumpOver == Scope(Current) \subseteq got \/ (dgen # 0 /\ gen # dgen)

DumpDone ==
    /\ pc \in DumpPhases /\ Wanted(pc) /\ DumpOver
    /\ ~Interrupted /\ ~Orphans
    /\ cache' = cache \cup Accepted
    /\ Onward
    /\ UNCHANGED <<kernel, req, genid, cgenid, cflags, omit, ret>>

\* Variant: what was loaded before EINTR stays.
DumpReplayKept ==
    /\ pc \in DumpPhases /\ Wanted(pc) /\ DumpOver
    /\ Interrupted \/ Orphans
    /\ pc' = "replay"
    /\ UNCHANGED <<kernel, req, genid, dumping, walk, stored, ret>>

\* EINTR: throw everything away and start over.
DumpReplay ==
    /\ pc \in DumpPhases /\ Wanted(pc) /\ DumpOver
    /\ Interrupted \/ Orphans
    /\ Release
    /\ pc' = "replay"
    /\ UNCHANGED <<kernel, req, genid, dumping, walk, ret>>

\* The kernel refuses the dump: the set is gone, or for another reason.
Refused == pc \in Faulty \/ (pc = "setelem" /\ Current \notin kern)

\* Tables, chains and sets are needed; elements and rules count as none, and
\* so do flowtables and objects, which old kernels do not know.
DumpErrorFatal ==
    /\ pc \in {"table", "chain", "set"} /\ Wanted(pc) /\ dgen = 0 /\ Refused
    /\ Release
    /\ Return("fail")
    /\ UNCHANGED <<kernel, req, genid, dumping, walk>>

DumpErrorIgnored ==
    /\ pc \in DumpPhases \ {"table", "chain", "set"} /\ Wanted(pc) /\ dgen = 0 /\ Refused
    /\ cache' = cache
    /\ Onward
    /\ UNCHANGED <<kernel, req, genid, cgenid, cflags, omit, ret>>

\* A kind whose bit is not in the flags is not dumped.
SkipDump ==
    /\ pc \in DumpPhases /\ ~Wanted(pc)
    /\ cache' = cache
    /\ Onward
    /\ UNCHANGED <<kernel, req, genid, cgenid, cflags, omit, ret>>

(***************************************************************************)
(* The loop of cache_init_objects over the cached tables.                  *)
(***************************************************************************)
NextTable ==
    /\ pc = "loop" /\ tabs # {}
    /\ \E t \in tabs :
          /\ tab' = t
          /\ tabs' = tabs \ {t}
          /\ sets' = {s \in cache : /\ KindOf[s] = "set"
                                    /\ TableOf[s] = t
                                    /\ LoadsElements(req, s)
                                    /\ \E x \in Item \ req.hide :
                                          KindOf[x] = "setelem" /\ OwnerOf[x] = s}
    /\ BeginDump("setelem")
    /\ UNCHANGED <<kernel, req, genid, stored, ret>>

LoopDone ==
    /\ pc = "loop" /\ tabs = {}
    /\ pc' = "stop"
    /\ UNCHANGED <<kernel, req, genid, dumping, walk, stored, ret>>

(***************************************************************************)
(* genid_stop                                                              *)
(***************************************************************************)
\* Variant: the generation is not compared after the last dump.
AcceptUnchecked ==
    /\ pc = "stop"
    /\ cgenid' = genid /\ cflags' = req.flags /\ omit' = req.hide
    /\ Return("ok")
    /\ UNCHANGED <<kernel, req, genid, dumping, walk, cache>>

Accept ==
    /\ pc = "stop" /\ Wire(gen) = genid
    /\ cgenid' = genid /\ cflags' = req.flags /\ omit' = req.hide
    /\ Return("ok")
    /\ UNCHANGED <<kernel, req, genid, dumping, walk, cache>>

Changed ==
    /\ pc = "stop" /\ Wire(gen) # genid
    /\ genid' = Wire(gen)
    /\ Release
    /\ pc' = "replay"
    /\ UNCHANGED <<kernel, req, dumping, walk, ret>>

Update ==
    \/ Reuse \/ Flushed \/ BeginLoad
    \/ DumpMessage \/ DumpDone \/ DumpReplay \/ DumpErrorFatal \/ DumpErrorIgnored
    \/ SkipDump \/ NextTable \/ LoopDone \/ Accept \/ Changed

Next == Commit \/ (\E rq \in Requests : Call(rq)) \/ RunFailed \/ Update

\* libnftables runs on; nothing obliges other processes to commit or a
\* caller to call.
Spec == Init /\ [][Next]_vars /\ WF_vars(Update)

-----------------------------------------------------------------------------
TypeOK ==
    /\ gen \in 1..MaxGen /\ kern \in Rulesets
    /\ pc \in {"idle", "replay", "loop", "stop"} \cup DumpPhases
    /\ req \in Requests \cup {NoRequest}
    /\ genid \in 0..(GenMod - 1)
    /\ got \subseteq Item /\ dgen \in 0..MaxGen /\ eintr \in BOOLEAN
    /\ tabs \subseteq Item /\ tab \in Item /\ sets \subseteq Item
    /\ cache \subseteq Item /\ cgenid \in 0..(GenMod - 1)
    /\ cflags \subseteq Kinds \cup Modifiers /\ omit \subseteq Item
    /\ ret \in {"none", "ok", "fail"}

\* A consistent view of the kernel that has all the request rq relies on.
Covers(rq) == cache \subseteq kern /\ kern \cap Loads(rq) \subseteq cache

\* Whenever nft_cache_update would return at once because the generation it
\* reads is the one the cache was loaded under, the cache is the kernel's
\* present ruleset as far as the request goes, although the cache flags do
\* not remember what the filter left out.
ReuseIsSound ==
    pc = "idle" /\ Settled =>
        \A rq \in Requests : Reusable(rq, Wire(gen)) => Covers(rq)

\* A call that returns 0 leaves in the cache one ruleset the kernel really
\* has at that moment, never a mixture of two of them and nothing of a load
\* that was given up, whatever was committed between the dumps.
ServedSnapshot == [][pc # "idle" /\ pc' = "idle" /\ ret' = "ok" => Covers(req)']_vars

\* The replays end once the kernel is left in peace: every call returns.
UpdateReturns == pc # "idle" ~> pc = "idle"

-----------------------------------------------------------------------------
(***************************************************************************)
(* The inductive invariant behind ReuseIsSound and ServedSnapshot, for a   *)
(* kernel that reaches fewer generations than the wire can tell apart.     *)
(***************************************************************************)
Loading == pc \in DumpPhases \cup {"loop", "stop"}
InLoop == pc \in {"loop", "setelem", "object", "rule", "stop"}

\* The place where x would have been stored is behind the load.
Finished(x) ==
    /\ KindOf[x] = "table" => pc # "table"
    /\ KindOf[x] = "chain" => pc \notin {"table", "chain"}
    /\ KindOf[x] = "set" => pc \notin {"table", "chain", "set"}
    /\ KindOf[x] = "flowtable" => pc \notin {"table", "chain", "set", "flowtable"}
    /\ KindOf[x] \in {"setelem", "object", "rule"} => InLoop /\ TableOf[x] \notin tabs
    /\ KindOf[x] = "setelem" => ~(pc = "setelem" /\ OwnerOf[x] \in sets)
    /\ KindOf[x] = "object" => ~(pc \in {"setelem", "object"} /\ TableOf[x] = tab)
    /\ KindOf[x] = "rule" => ~(pc \in {"setelem", "object", "rule"} /\ TableOf[x] = tab)

\* A load during which nothing was committed has stored what it is past.
LoadInv ==
    /\ cgenid = 0 /\ cflags = {} /\ "flushed" \notin req.flags
    /\ genid \in 1..gen
    /\ dgen # 0 => dgen \in genid..gen
    /\ pc = "stop" => tabs = {} \/ req.flags = {}
    /\ genid = gen =>
          /\ cache \subseteq kern /\ got \subseteq kern
          /\ \A x \in kern \cap Loads(req) : Finished(x) => x \in cache

\* A cache without a generation is empty; one with the kernel's generation
\* has all its flags promise.
CacheInv ==
    /\ cgenid \in 0..gen
    /\ cgenid = 0 => cache = {} /\ cflags = {}
    /\ cgenid = gen /\ kern \cap omit = {} => \A rq \in Requests :
                          ~NeedsRefresh /\ IsComplete(rq) => Covers(rq)
    /\ pc = "replay" => Settled

IInv ==
    /\ TypeOK
    /\ pc # "idle" => req \in Requests
    /\ IF Loading THEN LoadInv ELSE CacheInv

-----------------------------------------------------------------------------
\* What nft_cache_update promises its caller, as one atomic step.  What is
\* in the cache while dumps are under way is nobody's business.
Contract == INSTANCE CacheContract WITH
    view <- IF pc \in {"idle", "replay"} THEN cache ELSE {},
    call <- IF pc = "idle" THEN NoRequest ELSE req,
    busy <- pc # "idle"

\* The dumps, replays and checks of nft_cache_update implement the atomic
\* read of the ruleset that CacheContract states.
ImplementsContract == Contract!Spec
=============================================================================
