--------------------------- MODULE NftCacheProofs ---------------------------
(***************************************************************************)
(* Theorems about NftCache, for every set of items, every set of requests  *)
(* and as many commits as the generation numbers on the wire tell apart.   *)
(***************************************************************************)
EXTENDS NftCache, TLAPS

USE DEF Kinds, Modifiers, DumpPhases

\* What a dump is about is an item.
LEMMA CurrentInItem ==
    ASSUME sets \subseteq Item, tab \in Item
    PROVE  Current \in Item
BY DEF Current

\* The generation as the kernel sends it.
LEMMA WireType == \A g \in Nat : Wire(g) \in 0..(GenMod - 1)
BY GenAssumption DEF Wire

\* The types at first,
LEMMA TypeInit == Init => TypeOK
<1> SUFFICES ASSUME Init PROVE TypeOK
  OBVIOUS
<1>1. gen \in 1..MaxGen /\ genid \in 0..(GenMod - 1) /\ cgenid \in 0..(GenMod - 1) /\ dgen \in 0..MaxGen
  BY GenAssumption DEF Init
<1>2. tab \in Item
  BY DEF Init
<1> QED BY <1>1, <1>2 DEF Init, TypeOK

\* and after every step.
LEMMA TypeStep == TypeOK /\ [Next]_vars => TypeOK'
<1> SUFFICES ASSUME TypeOK, [Next]_vars PROVE TypeOK'
  OBVIOUS
<1> USE DEF TypeOK, kernel, dumping, walk, stored
<1>w. Wire(gen) \in 0..(GenMod - 1)
  BY WireType
<1>r. req \in [flags : SUBSET (Kinds \cup Modifiers), hide : SUBSET Item]
  BY RequestAssumption DEF NoRequest, IsRequest
<1>o. ASSUME Onward, cache' \subseteq Item
      PROVE  /\ pc' \in {"chain", "set", "flowtable", "loop", "setelem", "object", "rule"}
             /\ got' \subseteq Item /\ dgen' \in 0..MaxGen /\ eintr' \in BOOLEAN
             /\ tabs' \subseteq Item /\ tab' \in Item /\ sets' \subseteq Item
  <2>1. 0 \in 0..MaxGen
    BY GenAssumption
  <2>2. CASE pc = "flowtable"
    BY <1>o, <2>1, <2>2 DEF Onward, BeginDump
  <2>3. CASE pc = "setelem"
    BY <1>o, <2>1, <2>3 DEF Onward, BeginDump
  <2>4. CASE pc \notin {"flowtable", "setelem"}
    BY <1>o, <2>1, <2>4 DEF Onward, BeginDump
  <2> QED BY <2>2, <2>3, <2>4
<1>1. CASE Commit
  <2>1. gen' \in 1..MaxGen
    BY <1>1, GenAssumption DEF Commit
  <2> QED BY <1>1, <2>1 DEF Commit
<1>2. ASSUME NEW rq \in Requests, Call(rq) PROVE TypeOK'
  BY <1>2 DEF Call
<1>17. CASE RunFailed
  BY <1>17, GenAssumption DEF RunFailed, Release
<1>3. CASE Reuse
  BY <1>3, <1>w DEF Reuse, Return
<1>4. CASE Flushed
  BY <1>4, <1>w, <1>r DEF Flushed, Return
<1>5. CASE BeginLoad
  <2>1. /\ cache' \subseteq Item /\ cgenid' \in 0..(GenMod - 1)
        /\ cflags' \subseteq Kinds \cup Modifiers /\ omit' \subseteq Item
    <3>1. CASE cgenid # 0
      BY <1>5, <3>1, GenAssumption DEF BeginLoad, Release
    <3>2. CASE cgenid = 0
      BY <1>5, <3>2 DEF BeginLoad
    <3> QED BY <3>1, <3>2
  <2>2. pc' \in {"stop", "table"} /\ got' = {} /\ dgen' = 0 /\ eintr' = FALSE
    BY <1>5 DEF BeginLoad, BeginDump
  <2>3. dgen' \in 0..MaxGen
    BY <2>2, GenAssumption
  <2> QED BY <1>5, <1>w, <2>1, <2>2, <2>3 DEF BeginLoad
<1>6. CASE DumpMessage
  BY <1>6 DEF DumpMessage, Scope, Rulesets
<1>7. CASE DumpDone
  <2>1. cache' \subseteq Item
    BY <1>7 DEF DumpDone, Accepted
  <2>2. Onward
    BY <1>7 DEF DumpDone
  <2> QED BY <1>7, <1>o, <2>1, <2>2 DEF DumpDone
<1>8. CASE DumpReplay
  BY <1>8, GenAssumption DEF DumpReplay, Release
<1>9. CASE DumpErrorFatal
  BY <1>9, GenAssumption DEF DumpErrorFatal, Release, Return
<1>10. CASE DumpErrorIgnored
  <2>1. Onward /\ cache' \subseteq Item
    BY <1>10 DEF DumpErrorIgnored
  <2> QED BY <1>10, <1>o, <2>1 DEF DumpErrorIgnored
<1>11. CASE SkipDump
  <2>1. Onward /\ cache' \subseteq Item
    BY <1>11 DEF SkipDump
  <2> QED BY <1>11, <1>o, <2>1 DEF SkipDump
<1>12. CASE NextTable
  <2>1. tab' \in Item /\ tabs' \subseteq Item /\ sets' \subseteq Item
    BY <1>12 DEF NextTable
  <2>2. dgen' \in 0..MaxGen
    BY <1>12, GenAssumption DEF NextTable, BeginDump
  <2> QED BY <1>12, <2>1, <2>2 DEF NextTable, BeginDump
<1>13. CASE LoopDone
  BY <1>13 DEF LoopDone
<1>14. CASE Accept
  BY <1>14, <1>r DEF Accept, Return
<1>15. CASE Changed
  BY <1>15, <1>w, GenAssumption DEF Changed, Release
<1>16. CASE UNCHANGED vars
  BY <1>16 DEF vars
<1> QED
  BY <1>1, <1>2, <1>3, <1>4, <1>5, <1>6, <1>7, <1>8, <1>9, <1>10, <1>11, <1>12,
     <1>13, <1>14, <1>15, <1>16, <1>17 DEF Next, Update

(***************************************************************************)
(* Every variable of nft_cache_update keeps its type: in particular what   *)
(* the cache holds are items, and its flags are flags.                     *)
(***************************************************************************)
THEOREM TypeCorrect == Spec => []TypeOK
<1> QED
  BY TypeInit, TypeStep, PTL DEF Spec

-----------------------------------------------------------------------------
(***************************************************************************)
(* As long as the kernel does not reach as many generations as the wire    *)
(* can tell apart, what netlink carries is the generation itself.          *)
(***************************************************************************)
LEMMA WireExact ==
    ASSUME MaxGen < GenMod
    PROVE  \A g \in 0..MaxGen : Wire(g) = g
BY GenAssumption DEF Wire

\* What is known of a request.
LEMMA RequestShape ==
    ASSUME TypeOK
    PROVE  /\ req \in [flags : SUBSET (Kinds \cup Modifiers), hide : SUBSET Item]
           /\ req.flags \cap Kinds # {} => "table" \in req.flags
           /\ {"setelem", "maybe"} \cap req.flags # {} => {"set", "table"} \subseteq req.flags
           /\ \A x \in Item : OwnerOf[x] \in req.hide => x \in req.hide
<1>1. req \in Requests \/ req = NoRequest
  BY DEF TypeOK
<1>2. CASE req \in Requests
  BY <1>2, RequestAssumption DEF IsRequest
<1>3. CASE req = NoRequest
  BY <1>3 DEF NoRequest
<1> QED BY <1>1, <1>2, <1>3

(***************************************************************************)
(* Whatever a request loads, it loads the owner and the table of.          *)
(***************************************************************************)
LEMMA OwnerLoaded ==
    ASSUME TypeOK, NEW x \in kern \cap Loads(req)
    PROVE  /\ OwnerOf[x] \in kern /\ TableOf[x] \in kern \cap Loads(req)
           /\ KindOf[x] = "setelem" => OwnerOf[x] \in kern \cap Loads(req)
<1> DEFINE o == OwnerOf[x]
<1>1. x \in Item /\ x \notin req.hide /\ kern \in Rulesets
  BY DEF Loads, TypeOK
<1>2. o \in kern /\ OwnerOf[o] \in kern /\ kern \subseteq Item
  BY <1>1 DEF Rulesets
<1>3. o \in Item /\ OwnerOf[o] \in Item
  BY <1>2
<1>4. TableOf[x] = o \/ TableOf[x] = OwnerOf[o]
  BY <1>1, <1>3, ItemAssumption
<1>5. o \notin req.hide /\ OwnerOf[o] \notin req.hide
  BY <1>1, <1>3, RequestShape
<1>6. "table" \in req.flags /\ "flushed" \notin req.flags
  BY <1>1, RequestShape, ItemAssumption DEF Loads, LoadsElements
<1>7. KindOf[TableOf[x]] = "table"
  BY <1>1, ItemAssumption
<1>8. TableOf[x] \in kern \cap Loads(req)
  BY <1>2, <1>3, <1>4, <1>5, <1>6, <1>7 DEF Loads
<1>9. ASSUME KindOf[x] = "setelem" PROVE o \in kern \cap Loads(req)
  <2>1. "set" \in req.flags
    BY <1>9, <1>1, RequestShape DEF Loads, LoadsElements
  <2>2. KindOf[o] = "set"
    BY <1>9, <1>1, ItemAssumption
  <2> QED BY <2>1, <2>2, <1>2, <1>3, <1>5, <1>6 DEF Loads
<1> QED BY <1>2, <1>8, <1>9

\* A load that is past the tables has the tables of whatever it loads.
LEMMA TableCached ==
    ASSUME TypeOK, LoadInv, genid = gen, pc # "table",
           NEW x \in kern \cap Loads(req)
    PROVE  TableOf[x] \in cache
<1>1. TableOf[x] \in kern \cap Loads(req)
  BY OwnerLoaded
<1>2. KindOf[TableOf[x]] = "table"
  BY ItemAssumption DEF Loads
<1>3. Finished(TableOf[x])
  BY <1>2 DEF Finished
<1> QED BY <1>1, <1>3 DEF LoadInv

(***************************************************************************)
(* Going on to the next dump finishes the items of the one that is over    *)
(* and no others.                                                          *)
(***************************************************************************)
LEMMA OnwardFinishes ==
    ASSUME TypeOK, LoadInv, genid = gen, Onward, UNCHANGED <<kern, req>>,
           cache \subseteq cache', NEW x \in kern \cap Loads(req), Finished(x)', ~Finished(x)
    PROVE  /\ KindOf[x] = pc
           /\ pc \in {"object", "rule"} => TableOf[x] = tab
           /\ pc = "setelem" => sets # {} /\ OwnerOf[x] = Current
<1>0. x \in Item /\ KindOf[x] \in Kinds
  BY ItemAssumption DEF Loads
<1>1. CASE pc \in {"table", "chain", "set"}
  BY <1>0, <1>1 DEF Onward, BeginDump, Finished, InLoop
<1>2. CASE pc = "flowtable"
  <2>1. TableOf[x] \in cache'
    BY <1>2, TableCached
  <2>2. TableOf[x] \in tabs'
    BY <1>0, <1>2, <2>1, ItemAssumption DEF Onward
  <2> QED BY <1>0, <1>2, <2>2 DEF Onward, BeginDump, Finished, InLoop
<1>3. CASE pc = "setelem"
  BY <1>0, <1>3 DEF Onward, BeginDump, Finished, InLoop, walk
<1>4. CASE pc \in {"object", "rule"}
  BY <1>0, <1>4 DEF Onward, BeginDump, Finished, InLoop, walk
<1> QED BY <1>1, <1>2, <1>3, <1>4 DEF Onward

(***************************************************************************)
(* A dump that ends, is skipped or is refused keeps LoadInv, provided it   *)
(* stores only what the kernel has and all of that it is asked for.        *)
(***************************************************************************)
LEMMA OnwardKeeps ==
    ASSUME TypeOK, TypeOK', LoadInv, Onward,
           UNCHANGED <<kernel, req, genid, cgenid, cflags, omit>>,
           cache \subseteq cache',
           genid = gen => cache' \subseteq kern,
           genid = gen =>
             \A x \in kern \cap Loads(req) :
                 /\ KindOf[x] = pc
                 /\ pc \in {"object", "rule"} => TableOf[x] = tab
                 /\ pc = "setelem" => sets # {} /\ OwnerOf[x] = Current
                 => x \in cache'
    PROVE  LoadInv' /\ Loading'
<1>1. Loading' /\ got' = {} /\ dgen' = 0 /\ pc' # "stop"
  BY DEF Onward, BeginDump, Loading
<1>2. /\ cgenid' = 0 /\ cflags' = {} /\ (genid \in 1..gen)' /\ (genid = gen)' = (genid = gen)
      /\ "flushed" \notin req'.flags
  BY DEF LoadInv, kernel
<1>5. ASSUME genid = gen, NEW x \in kern \cap Loads(req), Finished(x)' PROVE x \in cache'
  <2>1. CASE Finished(x)
    BY <1>5, <2>1 DEF LoadInv
  <2>2. CASE ~Finished(x)
    BY <1>5, <2>2, OnwardFinishes DEF kernel
  <2> QED BY <2>1, <2>2
<1>6. Loads(req)' = Loads(req) /\ kern' = kern
  BY DEF Loads, LoadsElements, kernel
<1> QED
  BY <1>1, <1>2, <1>5, <1>6 DEF LoadInv

\* Past the last dump, an undisturbed load has all it was asked for.
LEMMA Complete ==
    ASSUME TypeOK, LoadInv, pc = "stop", genid = gen
    PROVE  cache \subseteq kern /\ kern \cap Loads(req) \subseteq cache
<1> SUFFICES ASSUME NEW x \in kern \cap Loads(req) PROVE x \in cache
  BY DEF LoadInv
<1>1. x \in Item /\ KindOf[x] \in Kinds /\ req.flags # {}
  BY ItemAssumption DEF Loads, LoadsElements
<1>2. Finished(x)
  BY <1>1 DEF Finished, InLoop, LoadInv
<1> QED BY <1>2 DEF LoadInv

\* A step of a load.
LEMMA LoadInvStep ==
    ASSUME MaxGen < GenMod, TypeOK, TypeOK', Loading, LoadInv, [Next]_vars
    PROVE  IF Loading' THEN LoadInv' ELSE CacheInv'
<1> USE DEF Loading, kernel, dumping, walk, stored
<1>t. /\ gen \in 1..MaxGen /\ gen \in Nat /\ genid \in Nat /\ dgen \in 0..MaxGen
      /\ genid \in 1..gen
  BY GenAssumption DEF TypeOK, LoadInv
<1>w. Wire(gen) = gen
  BY <1>t, WireExact
<1>l. UNCHANGED req => Loads(req)' = Loads(req)
  BY DEF Loads, LoadsElements
<1>1. CASE Commit
  <2>1. gen' = gen + 1 /\ genid' = genid
    BY <1>1 DEF Commit
  <2>2. (genid \in 1..gen)' /\ (genid # gen)' /\ (dgen # 0 => dgen \in genid..gen)'
    BY <1>1, <1>t, <2>1 DEF Commit, LoadInv
  <2>3. Loading' /\ cgenid' = 0 /\ cflags' = {} /\ (pc = "stop" => tabs = {} \/ req.flags = {})'
        /\ "flushed" \notin req'.flags
    BY <1>1 DEF Commit, LoadInv
  <2> QED BY <2>2, <2>3 DEF LoadInv
<1>2. ASSUME NEW rq \in Requests, Call(rq) \/ RunFailed PROVE FALSE
  BY <1>2 DEF Call, RunFailed
<1>17. ~RunFailed
  BY DEF RunFailed
<1>3. CASE Reuse \/ Flushed \/ BeginLoad
  BY <1>3 DEF Reuse, Flushed, BeginLoad
<1>6. CASE DumpMessage
  <2>1. Loading' /\ cgenid' = 0 /\ cflags' = {} /\ (genid \in 1..gen)' /\ pc' # "stop"
        /\ "flushed" \notin req'.flags
    BY <1>6, <1>t DEF DumpMessage, LoadInv
  <2>2. (dgen # 0 => dgen \in genid..gen)'
    BY <1>6, <1>t DEF DumpMessage, LoadInv
  <2>3. ASSUME genid' = gen' PROVE got' \subseteq kern'
    BY <1>6, <2>3 DEF DumpMessage, Scope, LoadInv
  <2>4. \A x \in Item : Finished(x)' <=> Finished(x)
    BY <1>6 DEF DumpMessage, Finished, InLoop
  <2>5. Loads(req) \subseteq Item
    BY DEF Loads
  <2>6. ASSUME genid' = gen'
        PROVE  \A x \in kern' \cap Loads(req)' : Finished(x)' => x \in cache'
    BY <1>6, <1>l, <2>4, <2>5, <2>6 DEF DumpMessage, LoadInv
  <2>7. ASSUME genid' = gen' PROVE cache' \subseteq kern'
    BY <1>6, <2>7 DEF DumpMessage, LoadInv
  <2> QED BY <2>1, <2>2, <2>3, <2>6, <2>7 DEF LoadInv
<1>7. CASE DumpDone
  <2>1. UNCHANGED <<kernel, req, genid, cgenid, cflags, omit>> /\ Onward /\ cache \subseteq cache'
    BY <1>7 DEF DumpDone
  <2>2. ASSUME genid = gen PROVE cache' \subseteq kern
    BY <1>7, <2>2 DEF DumpDone, Accepted, LoadInv
  <2>3. ASSUME genid = gen, NEW x \in kern \cap Loads(req), KindOf[x] = pc,
               pc \in {"object", "rule"} => TableOf[x] = tab,
               pc = "setelem" => sets # {} /\ OwnerOf[x] = Current
        PROVE  x \in cache'
    <3>1. x \in Scope(Current)
      BY <2>3 DEF Scope, InScope, Loads
    <3>2. Scope(Current) \subseteq got
      BY <1>7, <2>3, <1>t DEF DumpDone, DumpOver, LoadInv
    <3>3. KindOf[x] = "table" \/ TableOf[x] \in cache
      BY <2>3, TableCached
    <3> QED BY <1>7, <2>3, <3>1, <3>2, <3>3 DEF DumpDone, Accepted
  <2> QED BY <2>1, <2>2, <2>3, OnwardKeeps
<1>8. CASE DumpReplay
  BY <1>8, <1>t DEF DumpReplay, Release, CacheInv, Settled, IsUpdated
<1>9. CASE DumpErrorFatal
  BY <1>9, <1>t DEF DumpErrorFatal, Release, Return, CacheInv
<1>10. CASE DumpErrorIgnored
  <2>1. UNCHANGED <<kernel, req, genid, cgenid, cflags, omit>> /\ Onward /\ cache' = cache
    BY <1>10 DEF DumpErrorIgnored
  <2>2. ASSUME genid = gen, NEW x \in kern \cap Loads(req), KindOf[x] = pc,
               pc = "setelem" => sets # {} /\ OwnerOf[x] = Current
        PROVE  FALSE
    <3>1. pc \notin Faulty
      BY <1>10, <2>2, FaultyAssumption DEF DumpErrorIgnored, Loads
    <3>2. pc = "setelem" /\ Current \notin kern
      BY <1>10, <3>1 DEF DumpErrorIgnored, Refused
    <3>3. OwnerOf[x] \in kern
      BY OwnerLoaded
    <3> QED BY <2>2, <3>2, <3>3
  <2>3. genid = gen => cache' \subseteq kern
    BY <2>1 DEF LoadInv
  <2> QED BY <2>1, <2>2, <2>3, OnwardKeeps
<1>11. CASE SkipDump
  <2>1. UNCHANGED <<kernel, req, genid, cgenid, cflags, omit>> /\ Onward /\ cache' = cache
    BY <1>11 DEF SkipDump
  <2>2. ASSUME NEW x \in kern \cap Loads(req), KindOf[x] = pc,
               pc = "setelem" => sets # {} /\ OwnerOf[x] = Current
        PROVE  FALSE
    BY <1>11, <2>2 DEF SkipDump, Wanted, Loads
  <2>3. genid = gen => cache' \subseteq kern
    BY <2>1 DEF LoadInv
  <2> QED BY <2>1, <2>2, <2>3, OnwardKeeps
<1>12. CASE NextTable
  <2>1. /\ Loading' /\ cgenid' = 0 /\ cflags' = {} /\ dgen' = 0 /\ got' = {}
        /\ pc = "loop" /\ pc' = "setelem" /\ cache' = cache /\ kern' = kern /\ req' = req
        /\ gen' = gen /\ genid' = genid /\ "flushed" \notin req.flags
    BY <1>12 DEF NextTable, BeginDump, LoadInv
  <2>2. PICK t \in tabs :
          /\ tab' = t
          /\ tabs' = tabs \ {t}
          /\ sets' = {s \in cache : /\ KindOf[s] = "set"
                                    /\ TableOf[s] = t
                                    /\ LoadsElements(req, s)
                                    /\ \E x \in Item \ req.hide :
                                          KindOf[x] = "setelem" /\ OwnerOf[x] = s}
    BY <1>12 DEF NextTable
  <2>3. ASSUME genid = gen, NEW x \in kern \cap Loads(req), Finished(x)' PROVE x \in cache
    <3>0. x \in Item /\ x \notin req.hide /\ KindOf[x] \in Kinds
      BY ItemAssumption DEF Loads
    <3>1. CASE Finished(x)
      BY <2>3, <3>1 DEF LoadInv
    <3>2. CASE ~Finished(x)
      <4>1. KindOf[x] \in {"setelem", "object", "rule"} /\ TableOf[x] = t
        BY <2>1, <2>2, <2>3, <3>0, <3>2 DEF Finished, InLoop
      <4>2. KindOf[x] = "setelem" /\ OwnerOf[x] \notin sets'
        BY <2>1, <2>2, <2>3, <4>1 DEF Finished
      <4>3. OwnerOf[x] \in kern \cap Loads(req) /\ KindOf[OwnerOf[x]] = "set"
        BY <4>2, <3>0, OwnerLoaded, ItemAssumption
      <4>4. Finished(OwnerOf[x])
        BY <4>3, <2>1 DEF Finished
      <4>5. OwnerOf[x] \in cache
        BY <2>3, <4>3, <4>4 DEF LoadInv
      <4>6. TableOf[OwnerOf[x]] = t /\ LoadsElements(req, OwnerOf[x])
        BY <3>0, <4>1, <4>2, ItemAssumption DEF Loads
      <4> QED BY <2>2, <3>0, <4>2, <4>3, <4>5, <4>6
    <3> QED BY <3>1, <3>2
  <2>4. ASSUME genid = gen PROVE cache \subseteq kern
    BY <2>4 DEF LoadInv
  <2> QED BY <2>1, <2>3, <2>4, <1>l, <1>t DEF LoadInv
<1>13. CASE LoopDone
  <2>1. \A x \in Item : Finished(x)' => Finished(x)
    BY <1>13 DEF LoopDone, Finished, InLoop
  <2>2. Loads(req) \subseteq Item
    BY DEF Loads
  <2> QED BY <1>13, <1>l, <2>1, <2>2 DEF LoopDone, LoadInv, InLoop
<1>14. CASE Accept
  <2>1. genid = gen /\ cgenid' = gen /\ gen' = gen /\ kern' = kern /\ cache' = cache
        /\ cflags' = req.flags /\ omit' = req.hide /\ pc' = "idle" /\ ~Loading'
    BY <1>14, <1>w DEF Accept, Return
  <2>2. kern \cap Loads(req) \subseteq cache
    BY <1>14, <2>1, Complete DEF Accept
  <2>3. ASSUME NEW rq \in Requests, "refresh" \notin req.flags, rq.flags \subseteq req.flags,
               kern \cap req.hide = {}
        PROVE  kern \cap Loads(rq) \subseteq Loads(req)
    <3>1. "terse" \notin req.flags
      BY <2>3, RequestAssumption DEF TypeOK, NoRequest, IsRequest
    <3>2. "flushed" \notin req.flags
      BY DEF LoadInv
    <3> QED BY <2>3, <3>1, <3>2 DEF Loads, LoadsElements
  <2>4. cgenid' \in 0..gen' /\ cgenid' # 0
    BY <2>1, <1>t
  <2>5. cache' \subseteq kern'
    BY <2>1 DEF LoadInv
  <2>6. \A rq \in Requests : Loads(rq)' = Loads(rq)
    BY DEF Loads, LoadsElements
  <2>7. ASSUME NEW rq \in Requests, (kern \cap omit = {})', "refresh" \notin cflags', rq.flags \subseteq cflags'
        PROVE  Covers(rq)'
    BY <2>1, <2>2, <2>3, <2>5, <2>6, <2>7 DEF Covers
  <2> QED BY <2>1, <2>4, <2>7 DEF CacheInv, NeedsRefresh, IsComplete
<1>15. CASE Changed
  BY <1>15, <1>t DEF Changed, Release, CacheInv, Settled, IsUpdated
<1>16. CASE UNCHANGED vars
  <2>1. \A x \in Item : Finished(x)' <=> Finished(x)
    BY <1>16 DEF vars, Finished, InLoop
  <2>2. Loads(req) \subseteq Item
    BY DEF Loads
  <2> QED BY <1>16, <1>l, <2>1, <2>2 DEF vars, LoadInv, InLoop
<1> QED
  BY <1>1, <1>2, <1>3, <1>6, <1>7, <1>8, <1>9, <1>10, <1>11, <1>12, <1>13, <1>14, <1>15,
     <1>16, <1>17
  DEF Next, Update

\* A step between two loads.
LEMMA CacheInvStep ==
    ASSUME MaxGen < GenMod, TypeOK, TypeOK', ~Loading, CacheInv, [Next]_vars
    PROVE  IF Loading' THEN LoadInv' ELSE CacheInv'
<1> USE DEF Loading, kernel, dumping, walk, stored
<1>t. gen \in 1..MaxGen /\ gen \in Nat /\ cgenid \in Nat
  BY GenAssumption DEF TypeOK
<1>w. Wire(gen) = gen /\ gen # 0
  BY <1>t, WireExact
<1>l. \A rq \in Requests : Loads(rq)' = Loads(rq)
  BY DEF Loads, LoadsElements
<1>1. CASE Commit
  <2>1. gen' = gen + 1 /\ cgenid' = cgenid /\ cache' = cache /\ cflags' = cflags /\ ~Loading'
    BY <1>1 DEF Commit
  <2>2. cgenid' \in 0..gen' /\ cgenid' # gen'
    BY <1>t, <2>1 DEF CacheInv
  <2>3. gen' \in 1..MaxGen
    BY DEF TypeOK
  <2>4. Wire(gen)' = gen'
    BY <1>t, <2>3, WireExact DEF Wire
  <2>5. Settled'
    BY <2>2, <2>4 DEF Settled, IsUpdated
  <2> QED BY <2>1, <2>2, <2>5 DEF CacheInv
<1>2. ASSUME NEW rq \in Requests, Call(rq) PROVE ~Loading' /\ CacheInv'
  <2>1. Settled'
    BY <1>2 DEF Call, Settled, IsUpdated, Wire
  <2> QED BY <1>2, <1>l, <2>1 DEF Call, CacheInv, Covers, NeedsRefresh, IsComplete
<1>8. CASE RunFailed
  BY <1>8, <1>t DEF RunFailed, Release, CacheInv
<1>3. CASE Reuse
  BY <1>3, <1>l DEF Reuse, Return, CacheInv, Covers, NeedsRefresh, IsComplete
<1>4. CASE Flushed
  <2>1. cache' = {} /\ cgenid' = gen /\ gen' = gen /\ cflags' \subseteq {"update"} /\ ~Loading'
        /\ pc' = "idle"
    BY <1>4, <1>w DEF Flushed, Return, CacheInv
  <2>2. ASSUME NEW rq \in Requests, rq.flags \subseteq {"update"} PROVE Loads(rq) = {}
    BY <2>2, ItemAssumption DEF Loads, LoadsElements
  <2>3. gen \in 0..gen
    BY <1>t
  <2> QED BY <1>l, <1>w, <2>1, <2>2, <2>3 DEF CacheInv, Covers, NeedsRefresh, IsComplete
<1>5. CASE BeginLoad
  <2>1. /\ cache' = {} /\ cgenid' = 0 /\ cflags' = {} /\ got' = {} /\ dgen' = 0
        /\ genid' = gen /\ gen' = gen /\ kern' = kern /\ req' = req /\ "flushed" \notin req.flags
    BY <1>5, <1>w DEF BeginLoad, BeginDump, Release, CacheInv
  <2>2. pc' = "table" \/ (pc' = "stop" /\ req.flags = {})
    BY <1>5 DEF BeginLoad, BeginDump
  <2>3. pc' = "stop" => Loads(req)' = {}
    BY <2>1, <2>2, ItemAssumption DEF Loads, LoadsElements
  <2>4. pc' = "table" => \A x \in Item : ~Finished(x)'
    BY ItemAssumption DEF Finished, InLoop
  <2>5. genid' \in 1..gen'
    BY <1>t, <2>1
  <2> QED BY <2>1, <2>2, <2>3, <2>4, <2>5 DEF LoadInv, Loads
<1>6. CASE UNCHANGED vars
  <2>1. Settled' <=> Settled
    BY <1>6 DEF vars, Settled, IsUpdated, Wire
  <2> QED BY <1>6, <1>l, <2>1 DEF vars, CacheInv, Covers, NeedsRefresh, IsComplete
<1>7. CASE \/ DumpMessage \/ DumpDone \/ DumpReplay \/ DumpErrorFatal \/ DumpErrorIgnored
           \/ SkipDump \/ NextTable \/ LoopDone \/ Accept \/ Changed
  BY <1>7 DEF DumpMessage, DumpDone, DumpReplay, DumpErrorFatal, DumpErrorIgnored,
     SkipDump, NextTable, LoopDone, Accept, Changed
<1> QED
  BY <1>1, <1>2, <1>3, <1>4, <1>5, <1>6, <1>7, <1>8 DEF Next, Update

\* An empty cache has what it promises.
LEMMA IInvInit == Init => IInv
<1> SUFFICES ASSUME Init PROVE IInv
  OBVIOUS
<1>1. TypeOK
  BY TypeInit
<1>2. ~Loading /\ cache = {} /\ cgenid = 0 /\ cflags = {} /\ gen = 1 /\ pc = "idle"
  BY DEF Init, Loading
<1>3. CacheInv
  BY <1>2 DEF CacheInv
<1> QED BY <1>1, <1>2, <1>3 DEF IInv

\* Every step keeps the invariant.
LEMMA IInvStep ==
    ASSUME MaxGen < GenMod
    PROVE  IInv /\ [Next]_vars => IInv'
<1> SUFFICES ASSUME IInv, [Next]_vars PROVE IInv'
  OBVIOUS
<1>1. TypeOK'
  BY TypeStep DEF IInv
<1>2. pc' # "idle" => req' \in Requests
  BY DEF IInv, Next, Update, Commit, Call, RunFailed, Reuse, Flushed, BeginLoad, DumpMessage, DumpDone,
     DumpReplay, DumpErrorFatal, DumpErrorIgnored, SkipDump, NextTable, LoopDone, Accept,
     Changed, Return, vars
<1>3. IF Loading' THEN LoadInv' ELSE CacheInv'
  BY <1>1, LoadInvStep, CacheInvStep DEF IInv
<1> QED BY <1>1, <1>2, <1>3 DEF IInv

(***************************************************************************)
(* The inductive invariant holds throughout: a load that no commit has     *)
(* disturbed has stored exactly what it is past, and a cache that carries  *)
(* the kernel's generation has all that its flags promise.                 *)
(***************************************************************************)
THEOREM Inductive ==
    ASSUME MaxGen < GenMod
    PROVE  Spec => []IInv
BY IInvInit, IInvStep, PTL DEF Spec

(***************************************************************************)
(* A cache that nft_cache_update would hand out again without asking the   *)
(* kernel for anything but its generation is what the kernel has now.      *)
(***************************************************************************)
THEOREM ReuseSound ==
    ASSUME MaxGen < GenMod
    PROVE  Spec => []ReuseIsSound
<1>1. IInv => ReuseIsSound
  <2> SUFFICES ASSUME IInv, pc = "idle", Settled, NEW rq \in Requests,
                      Reusable(rq, Wire(gen))
               PROVE  Covers(rq)
    BY DEF ReuseIsSound
  <2>1. Wire(gen) = gen
    BY WireExact, GenAssumption DEF IInv, TypeOK
  <2>2. CacheInv
    BY DEF IInv, Loading
  <2> QED BY <2>1, <2>2 DEF CacheInv, Reusable, IsUpdated, NeedsRefresh, Settled
<1> QED
  BY <1>1, Inductive, PTL

(***************************************************************************)
(* Every call that returns 0 leaves one ruleset the kernel has at that     *)
(* moment in the cache, complete as far as the request goes.               *)
(***************************************************************************)
THEOREM SnapshotServed ==
    ASSUME MaxGen < GenMod
    PROVE  Spec => ServedSnapshot
<1>1. IInv /\ IInv' /\ [Next]_vars
        => [pc # "idle" /\ pc' = "idle" /\ ret' = "ok" => Covers(req)']_vars
  <2> SUFFICES ASSUME IInv, IInv', [Next]_vars, pc # "idle", pc' = "idle", ret' = "ok"
               PROVE  Covers(req)'
    OBVIOUS
  <2> USE DEF kernel, dumping, walk, stored
  <2>1. Wire(gen) = gen /\ gen # 0 /\ TypeOK
    BY WireExact, GenAssumption DEF IInv, TypeOK
  <2>2. Reuse \/ Flushed \/ Accept
    BY DEF Next, Update, Commit, Call, RunFailed, BeginLoad, DumpMessage, DumpDone, DumpReplay,
       DumpErrorFatal, DumpErrorIgnored, SkipDump, NextTable, LoopDone, Changed,
       Onward, BeginDump, Return, vars, DumpPhases
  <2>3. CASE Reuse
    <3>1. CacheInv /\ req \in Requests
      BY <2>3 DEF Reuse, IInv, Loading
    <3>2. Covers(req)
      BY <2>1, <2>3, <3>1 DEF Reuse, CacheInv, Reusable, IsUpdated, NeedsRefresh, Settled
    <3> QED BY <2>3, <3>2 DEF Reuse, Covers, Loads, LoadsElements
  <2>4. CASE Flushed
    <3>1. cache' = {}
      BY <2>4 DEF Flushed, IInv, Loading, CacheInv
    <3>2. Loads(req)' = {}
      BY <2>4 DEF Flushed, Loads
    <3> QED BY <3>1, <3>2 DEF Covers
  <2>5. CASE Accept
    <3>1. LoadInv /\ pc = "stop" /\ genid = gen
      BY <2>1, <2>5 DEF Accept, IInv, Loading
    <3>2. Covers(req)
      BY <2>1, <3>1, Complete DEF Covers
    <3> QED BY <2>5, <3>2 DEF Accept, Covers, Loads, LoadsElements
  <2> QED BY <2>2, <2>3, <2>4, <2>5
<1> QED
  BY <1>1, Inductive, PTL DEF Spec, ServedSnapshot

(***************************************************************************)
(* nft_cache_update implements the atomic read of CacheContract: a step    *)
(* that returns 0 is Serve, one that fails is Fail, the release of an old  *)
(* cache is Drop, and every other step of a load is invisible.             *)
(***************************************************************************)
THEOREM Implements ==
    ASSUME MaxGen < GenMod
    PROVE  Spec => ImplementsContract
<1>1. Init => Contract!Init
  BY DEF Init, Contract!Init
<1>2. IInv /\ [Next]_vars => [Contract!Next]_Contract!cvars
  <2> SUFFICES ASSUME IInv, [Next]_vars PROVE [Contract!Next]_Contract!cvars
    OBVIOUS
  <2> USE DEF kernel, dumping, walk, stored
  <2>1. Wire(gen) = gen /\ gen # 0 /\ TypeOK
    BY WireExact, GenAssumption DEF IInv, TypeOK
  <2>2. CASE Commit
    BY <2>2 DEF Commit, Contract!Next, Contract!Commit
  <2>3. ASSUME NEW rq \in Requests, Call(rq) PROVE Contract!Next
    <3>1. Contract!Call(rq)
      BY <2>3 DEF Call, Contract!Call
    <3> QED BY <3>1 DEF Contract!Next
  <2>12. CASE RunFailed
    BY <2>12 DEF RunFailed, Release, Contract!Next, Contract!Drop
  <2>4. CASE Reuse
    <3>1. CacheInv /\ req \in Requests
      BY <2>4 DEF Reuse, IInv, Loading
    <3>2. Covers(req)
      BY <2>1, <2>4, <3>1 DEF Reuse, CacheInv, Reusable, IsUpdated, NeedsRefresh, Settled
    <3> QED BY <2>4, <3>2 DEF Reuse, Return, Covers, Contract!Next, Contract!Serve
  <2>5. CASE Flushed
    <3>1. cache' = {}
      BY <2>5 DEF Flushed, IInv, Loading, CacheInv
    <3>2. Loads(req) = {}
      BY <2>5 DEF Flushed, Loads
    <3> QED BY <2>5, <3>1, <3>2 DEF Flushed, Return, Contract!Next, Contract!Serve
  <2>6. CASE BeginLoad
    BY <2>6 DEF BeginLoad, BeginDump, Contract!Next, Contract!Drop
  <2>7. CASE \/ DumpMessage \/ DumpDone \/ DumpErrorIgnored \/ SkipDump \/ NextTable \/ LoopDone
    BY <2>7 DEF DumpMessage, DumpDone, DumpErrorIgnored, SkipDump, NextTable, LoopDone,
       Onward, BeginDump, Contract!cvars
  <2>8. CASE DumpReplay \/ Changed
    BY <2>8 DEF DumpReplay, Changed, Release, Contract!cvars
  <2>9. CASE DumpErrorFatal
    BY <2>9 DEF DumpErrorFatal, Release, Return, Contract!Next, Contract!Fail
  <2>10. CASE Accept
    <3>1. LoadInv /\ pc = "stop" /\ genid = gen
      BY <2>1, <2>10 DEF Accept, IInv, Loading
    <3>2. Covers(req)
      BY <2>1, <3>1, Complete DEF Covers
    <3> QED BY <2>10, <3>2 DEF Accept, Return, Covers, Contract!Next, Contract!Serve
  <2>11. CASE UNCHANGED vars
    BY <2>11 DEF vars, Contract!cvars
  <2> QED
    BY <2>2, <2>3, <2>4, <2>5, <2>6, <2>7, <2>8, <2>9, <2>10, <2>11, <2>12 DEF Next, Update
<1> QED
  BY <1>1, <1>2, Inductive, PTL DEF Spec, ImplementsContract, Contract!Spec
=============================================================================
