--------------------------- MODULE CacheContract ---------------------------
(***************************************************************************)
(* What a caller of nft_cache_update is promised (src/cache.c): the call   *)
(* is one atomic read of the ruleset of the kernel.  It may fail, and then *)
(* leaves nothing behind; until it is served, the caller's old view is     *)
(* either kept or dropped, never changed.  A caller may drop it too.       *)
(***************************************************************************)
CONSTANTS Rulesets, Requests, NoRequest, Loads(_)

VARIABLES kern, view, call, busy

cvars == <<kern, view, call, busy>>

Init == kern \in Rulesets /\ view = {} /\ call = NoRequest /\ busy = FALSE

Commit == kern' \in Rulesets /\ UNCHANGED <<view, call, busy>>

Call(rq) ==
    /\ ~busy
    /\ busy' = TRUE /\ call' = rq
    /\ UNCHANGED <<kern, view>>

Drop == view' = {} /\ UNCHANGED <<kern, call, busy>>

Serve ==
    /\ busy
    /\ view' \subseteq kern
    /\ kern \cap Loads(call) \subseteq view'
    /\ busy' = FALSE /\ call' = NoRequest
    /\ UNCHANGED kern

Fail ==
    /\ busy
    /\ view' = {}
    /\ busy' = FALSE /\ call' = NoRequest
    /\ UNCHANGED kern

Next == Commit \/ (\E rq \in Requests : Call(rq)) \/ Drop \/ Serve \/ Fail

Spec == Init /\ [][Next]_cvars
=============================================================================
