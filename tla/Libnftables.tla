----------------------------- MODULE Libnftables -----------------------------
(***************************************************************************)
(* One nft context (src/libnftables.c) from one run of commands to the     *)
(* next: parsing is over, and the commands are looked through for what to  *)
(* load (nft_cache_evaluate: CacheFlags), the cache is brought up to date  *)
(* (nft_cache_update: NftCache, here in one step, as CacheContract         *)
(* promises), every command is evaluated against the cache and leaves its  *)
(* traces in it, every command is carried out or put into the batch        *)
(* (do_command), the kernel takes or refuses the batch as a whole, and     *)
(* the cache is kept for the next run or released.                         *)
(*                                                                         *)
(* Other processes commit, and packets are counted, between any two steps. *)
(* A dry run leaves out the end of the batch; a run with "optimize" of a   *)
(* file is two runs on the same context, the first of them a dry one.      *)
(***************************************************************************)
EXTENDS CacheRequests, Integers, Sequences

CONSTANTS
    Nothing,    \* a name the command does not give
    Inputs,     \* the command sequences a run may be given
    MaxBatch,   \* bound: the length of these
    MaxErrors,  \* parser_max_errors
    Dry,        \* what nft_ctx_set_dry_run may be called with
    Optimize,   \* what nft_ctx_set_optimize may be called with
    MaxGen      \* bound: no run and no other commit starts at this generation

ASSUME NothingAssumption == Nothing \notin Item

ASSUME SettingAssumption == Dry \subseteq BOOLEAN /\ Optimize \subseteq BOOLEAN

ASSUME BoundAssumption == MaxErrors \in Nat \ {0} /\ MaxGen \in Nat \ {0}

VARIABLES
    gen, kern,                 \* the kernel's generation and ruleset
    hot,                       \* its objects that have counted something
    dry, optimize,             \* ctx->check, ctx->optimize_flags
    wants,                     \* what the caller has set these two to
    cache, cgenid, cflags,     \* ctx->cache
    pc,                        \* what the library is doing
    pass,                      \* "only" run, or "trial" or "real" run of two
    saved,                     \* the locals of nft_run_optimized_file
    input, parsed,             \* the commands; was all of the input understood
    at,                        \* commands dealt with in the present loop
    flags, list, flushed, failed,  \* what nft_cache_evaluate has gathered
    base,                      \* kern when the cache was brought up to date
    nerrs, rc                  \* errors of the evaluation, result of the run

kernel == <<gen, kern, hot>>
context == <<dry, optimize, wants>>
stored == <<cache, cgenid, cflags>>
asked == <<flags, list, flushed, failed>>
job == <<pass, saved, input, parsed>>

vars == <<kernel, context, stored, pc, job, at, asked, base, nerrs, rc>>

Ask == INSTANCE CacheFlags WITH
    batch <- SubSeq(input, 1, at),
    Command <- UNION {{i[n] : n \in DOMAIN i} : i \in Inputs},
    output <- {}

ASSUME InputAssumption == \A i \in Inputs : i \in Seq(Ask!Commands) /\ Len(i) \in 0..MaxBatch

Setting == [dry |-> dry, optimize |-> optimize]

\* What the command is about: the items, for the elements of a set.
Subjects(cmd) ==
    IF cmd.obj = "elements" THEN {x \in Item : KindOf[x] = "setelem" /\ OwnerOf[x] = cmd.name}
    ELSE IF cmd.obj = "table" THEN {cmd.table} ELSE {cmd.name}

\* The subjects with all they own.
Tree(cmd) == {x \in Item : {x, OwnerOf[x], TableOf[x]} \cap Subjects(cmd) # {}}

Init ==
    /\ gen = 1 /\ kern \in Rulesets /\ hot = {}
    /\ dry = FALSE /\ optimize = FALSE /\ wants = Setting
    /\ cache = {} /\ cgenid = 0 /\ cflags = {}
    /\ pc = "idle" /\ pass = "only" /\ saved = Setting /\ input = <<>> /\ parsed = TRUE
    /\ at = 0 /\ flags = {} /\ list = Ask!NoList /\ flushed = {} /\ failed = FALSE
    /\ base = {} /\ nerrs = 0 /\ rc = 0

-----------------------------------------------------------------------------
(***************************************************************************)
(* The kernel.  A message is refused when what it names is not there, or   *)
(* is there already; a batch with one such message changes nothing.        *)
(***************************************************************************)
IsMessage(cmd) == cmd.op \notin {"list", "reset"}

Refuses(R, cmd) ==
    \/ cmd.op \in {"add", "create"} /\ \E x \in Subjects(cmd) : OwnerOf[x] \notin R \cup {x}
    \/ cmd.op = "create" /\ Subjects(cmd) \cap R # {}
    \/ cmd.op = "delete" /\ ~(Subjects(cmd) \subseteq R)
    \/ cmd.op = "flush" /\ cmd.obj = "set" /\ cmd.name \notin R

Applied(R, cmd) ==
    IF cmd.op \in {"add", "create"} THEN R \cup Subjects(cmd)
    ELSE IF cmd.op = "delete" THEN R \ Tree(cmd)
    ELSE IF cmd.op = "flush" /\ cmd.obj = "set" THEN R \ (Tree(cmd) \ Subjects(cmd))
    ELSE IF cmd.op = "flush" /\ cmd.obj = "ruleset" THEN {}
    ELSE R

\* The ruleset the n-th command of the input finds when R is there before.
Before(R, n) ==
    LET after[m \in 0..Len(input)] ==
            IF m = 0 THEN R ELSE Applied(after[m - 1], input[m])
    IN  after[n - 1]

Result(R) == Before(R, Len(input) + 1)

RefusedAt(R, n) == IsMessage(input[n]) /\ Refuses(Before(R, n), input[n])

\* Nothing a batch asks for is news to the kernel.
Idle(R) == \A n \in DOMAIN input : Before(R, n + 1) = R

OthersCommit ==
    /\ gen < MaxGen
    /\ gen' = gen + 1
    /\ kern' \in Rulesets
    /\ hot' = hot \cap kern'
    /\ UNCHANGED <<context, stored, pc, job, at, asked, base, nerrs, rc>>

Traffic ==
    /\ \E x \in kern : KindOf[x] = "object" /\ hot' = hot \cup {x}
    /\ UNCHANGED <<gen, kern, context, stored, pc, job, at, asked, base, nerrs, rc>>

-----------------------------------------------------------------------------
(***************************************************************************)
(* The caller.                                                             *)
(***************************************************************************)
SetDryRun ==
    /\ pc = "idle"
    /\ dry' \in Dry /\ wants' = [wants EXCEPT !.dry = dry']
    /\ UNCHANGED <<kernel, optimize, stored, pc, job, at, asked, base, nerrs, rc>>

SetOptimize ==
    /\ pc = "idle"
    /\ optimize' \in Optimize /\ wants' = [wants EXCEPT !.optimize = optimize']
    /\ UNCHANGED <<kernel, dry, stored, pc, job, at, asked, base, nerrs, rc>>

\* The flags and the filter are local to nft_evaluate.
Forget == flags' = {} /\ list' = Ask!NoList /\ flushed' = {} /\ failed' = FALSE

\* What has been parsed is evaluated, whether or not all of it could be.
Begin == pc' = "flags" /\ at' = 0 /\ nerrs' = 0 /\ rc' = 0 /\ Forget /\ UNCHANGED base

Run ==
    /\ pc = "idle" /\ gen < MaxGen
    /\ input' \in Inputs /\ parsed' \in BOOLEAN
    /\ Begin
    /\ UNCHANGED <<kernel, stored, wants>>

\* From a buffer, or from a file that is not to be optimized.
RunOnce ==
    /\ Run
    /\ pass' = "only"
    /\ UNCHANGED <<saved, dry, optimize>>

\* From a file that is to be optimized: the trial, a dry run, comes first.
\* Variant: the trial is no dry run.
RunOptimizedWet ==
    /\ optimize /\ Run
    /\ pass' = "trial" /\ saved' = Setting
    /\ optimize' = FALSE /\ UNCHANGED dry

RunOptimized ==
    /\ optimize /\ Run
    /\ pass' = "trial" /\ saved' = Setting
    /\ dry' = TRUE /\ optimize' = FALSE

-----------------------------------------------------------------------------
(***************************************************************************)
(* nft_evaluate: what to load, the load, and every command in turn.        *)
(***************************************************************************)
Fail == pc' = "finish" /\ rc' = -1

AskFor ==
    /\ pc = "flags" /\ at < Len(input)
    /\ UNCHANGED <<kernel, context, stored, job, base, nerrs>>
    /\ LET cmd == input[at + 1] IN
       \/ /\ at' = at + 1
          /\ \/ Ask!Add(cmd) \/ Ask!Replace(cmd) \/ Ask!Delete(cmd)
             \/ Ask!List(cmd) \/ Ask!Flush(cmd) \/ Ask!Other(cmd)
          /\ UNCHANGED <<pc, rc>>
       \/ at' = at /\ Ask!NameTooLong(cmd) /\ Fail

Asked == pc = "flags" /\ at = Len(input)

\* Variant: the generation is not compared.
ReusableStale == "refresh" \notin cflags /\ flags \subseteq cflags /\ cgenid # 0

Reusable == "refresh" \notin cflags /\ flags \subseteq cflags /\ gen = cgenid

Load ==
    /\ Asked
    /\ pc' = "eval" /\ at' = 0 /\ base' = kern
    /\ \/ Reusable /\ UNCHANGED stored
       \/ /\ ~Reusable /\ cgenid' = gen
          /\ \/ "flushed" \in flags /\ cache' = {} /\ cflags' = flags \cap {"update"}
             \/ "flushed" \notin flags /\ cache' = kern \cap Loads(Ask!Request) /\ cflags' = flags
    /\ Forget
    /\ UNCHANGED <<kernel, context, job, nerrs, rc>>

\* The kernel refuses a dump.
LoadFails ==
    /\ Asked /\ ~Reusable /\ "flushed" \notin flags /\ flags # {}
    /\ cache' = {} /\ cgenid' = 0 /\ cflags' = {}
    /\ at' = 0 /\ Forget /\ Fail
    /\ UNCHANGED <<kernel, context, job, base, nerrs>>

Cmd == input[at + 1]
Evaluating(ops) == pc = "eval" /\ at < Len(input) /\ Cmd.op \in ops
Evaluated == at' = at + 1 /\ UNCHANGED <<kernel, context, cgenid, cflags, job, asked, base>>

\* An interval set is compared with what it holds: elements to delete have
\* to be there.
Deleted(cmd) ==
    {x \in Subjects(cmd) : cmd.op = "delete" /\ cmd.obj = "elements" /\ cmd.name \in Interval}

\* What cmd_evaluate takes for an error when it is not cached.
Needed(cmd) == Ask!Needs(cmd, cflags) \cup Deleted(cmd)

Found == Needed(Cmd) \subseteq cache

\* Variant: what is declared is not put into the cache.
EvaluateAddForgets ==
    /\ Evaluating({"add", "create"}) /\ Found
    /\ Evaluated /\ UNCHANGED <<cache, pc, nerrs, rc>>

\* What is declared is put into the cache if it is not there; the elements
\* of a set that is no interval set are not.
EvaluateAdd ==
    /\ Evaluating({"add", "create"}) /\ Found
    /\ cache' = cache \cup {x \in Subjects(Cmd) : Cmd.obj = "elements" => Cmd.name \in Interval}
    /\ Evaluated /\ UNCHANGED <<pc, nerrs, rc>>

\* A delete never fails here, but for elements; it takes along what belongs
\* to the table, chain or set.
EvaluateDelete ==
    /\ Evaluating({"delete"}) /\ Found
    /\ cache' = cache \ {x \in Tree(Cmd) : Cmd.obj = "elements" => Cmd.name \in Interval}
    /\ Evaluated /\ UNCHANGED <<pc, nerrs, rc>>

EvaluateFlush ==
    /\ Evaluating({"flush"}) /\ Found
    /\ cache' = cache \ {x \in Tree(Cmd) : Cmd.obj = "set" /\ x \notin Subjects(Cmd)}
    /\ Evaluated /\ UNCHANGED <<pc, nerrs, rc>>

EvaluateOther ==
    /\ Evaluating({"list", "reset"}) /\ Found
    /\ Evaluated /\ UNCHANGED <<cache, pc, nerrs, rc>>

EvaluateError ==
    /\ Evaluating({"add", "create", "delete", "flush", "list", "reset"}) /\ ~Found
    /\ nerrs' = nerrs + 1
    /\ IF nerrs' = MaxErrors THEN Fail ELSE UNCHANGED <<pc, rc>>
    /\ Evaluated /\ UNCHANGED cache

EvaluateDone ==
    /\ pc = "eval" /\ at = Len(input)
    /\ IF nerrs > 0 \/ ~parsed THEN Fail ELSE pc' = "netlink" /\ UNCHANGED rc
    /\ at' = 0
    /\ UNCHANGED <<kernel, context, stored, job, asked, base, nerrs>>

-----------------------------------------------------------------------------
(***************************************************************************)
(* nft_netlink: messages pile up in the batch, but a listing is printed    *)
(* and a reset sent at once.                                               *)
(***************************************************************************)
Doing(ops) == pc = "netlink" /\ at < Len(input) /\ Cmd.op \in ops
Done == at' = at + 1 /\ UNCHANGED <<pc, rc>>

Queue ==
    /\ Doing({"add", "create", "delete", "flush"})
    /\ Done
    /\ UNCHANGED <<kernel, context, stored, job, asked, base, nerrs>>

\* The table found when the command was evaluated may be gone since, and is
\* then a null pointer; a set or flowtable that is gone is an error.
List ==
    /\ Doing({"list"}) /\ Cmd.table \in cache \cup {Nothing}
    /\ IF Cmd.obj \in {"set", "flowtable"} /\ Cmd.name \notin cache THEN Fail /\ UNCHANGED at ELSE Done
    /\ UNCHANGED <<kernel, context, stored, job, asked, base, nerrs>>

ListCrash ==
    /\ Doing({"list"}) /\ Cmd.table \notin cache \cup {Nothing}
    /\ pc' = "crashed"
    /\ UNCHANGED <<kernel, context, stored, job, at, asked, base, nerrs, rc>>

\* The objects the kernel resets, and reports under its generation.
Resets ==
    {x \in kern : /\ KindOf[x] = "object"
                  /\ Cmd.table \in {Nothing, TableOf[x]}
                  /\ Cmd.name \in {Nothing, x}}

\* check_genid: the generation is not the one the cache was loaded under.
Interrupted == Resets # {} /\ gen # cgenid

\* The objects reported are added to their tables in the cache, and listed.
Reset ==
    /\ Doing({"reset"}) /\ Cmd.name \in kern \cup {Nothing} /\ ~Interrupted
    /\ \A x \in Resets : TableOf[x] \in cache
    /\ hot' = hot \ Resets
    /\ cache' = cache \cup Resets
    /\ Done
    /\ UNCHANGED <<gen, kern, context, cgenid, cflags, job, asked, base, nerrs>>

\* Here, too, the table may be gone.
ResetCrash ==
    /\ Doing({"reset"}) /\ ~Interrupted
    /\ \E x \in Resets : TableOf[x] \notin cache
    /\ hot' = hot \ Resets
    /\ pc' = "crashed"
    /\ UNCHANGED <<gen, kern, context, stored, job, at, asked, base, nerrs, rc>>

\* What was reset under another generation is not listed.
ResetInterrupted ==
    /\ Doing({"reset"}) /\ Interrupted
    /\ hot' = hot \ Resets
    /\ Fail
    /\ UNCHANGED <<gen, kern, context, stored, job, at, asked, base, nerrs>>

\* A reset the kernel refuses ends the run; nothing of the batch is sent.
ResetFails ==
    /\ Doing({"reset"})
    /\ Fail
    /\ UNCHANGED <<kernel, context, stored, job, at, asked, base, nerrs>>

Sending == pc = "netlink" /\ at = Len(input)
Refused == \E n \in DOMAIN input : RefusedAt(kern, n)

Sent == UNCHANGED <<context, stored, job, at, asked, base, nerrs>>

\* A batch without an end is checked and forgotten, an empty one is not sent.
Check ==
    /\ Sending /\ ~Refused
    /\ dry \/ \A n \in DOMAIN input : ~IsMessage(input[n])
    /\ pc' = "finish" /\ UNCHANGED rc
    /\ Sent /\ UNCHANGED kernel

\* The kernel starts a new generation for a batch with any change in it, even
\* one that is undone. Acknowledgments that do not fit into the socket's buffer make a failure
\* of it, although the kernel has committed.
Commit ==
    /\ Sending /\ ~Refused /\ ~dry /\ \E n \in DOMAIN input : IsMessage(input[n])
    /\ kern' = Result(kern) /\ hot' = hot \cap kern'
    /\ gen' \in {g \in {gen, gen + 1} : ~Idle(kern) => g > gen}
    /\ \/ pc' = "finish" /\ UNCHANGED rc
       \/ Fail
    /\ Sent

\* For what the batch asks for, or for want of rights or memory.
KernelRefuses ==
    /\ Sending /\ \E n \in DOMAIN input : IsMessage(input[n])
    /\ Fail
    /\ Sent /\ UNCHANGED kernel

-----------------------------------------------------------------------------
(***************************************************************************)
(* The end of a run.  The trial is followed by the real run, with what the *)
(* trial has left in the cache.                                            *)
(***************************************************************************)
\* Variant: a failed run keeps the cache.
KeepOrReleaseNot == UNCHANGED stored

KeepOrRelease ==
    IF rc = 0 THEN UNCHANGED stored ELSE cache' = {} /\ cgenid' = 0 /\ cflags' = {}

Finish ==
    /\ pc = "finish" /\ ~(pass = "trial" /\ rc = 0)
    /\ KeepOrRelease
    /\ pc' = "idle"
    /\ UNCHANGED <<kernel, context, job, at, asked, base, nerrs, rc>>

FinishTrial ==
    /\ pc = "finish" /\ pass = "trial" /\ rc = 0
    /\ UNCHANGED stored
    /\ dry' = saved.dry /\ optimize' = saved.optimize
    /\ pass' = "real" /\ Begin
    /\ UNCHANGED <<kernel, wants, saved, input, parsed>>

Step ==
    \/ AskFor \/ Load \/ LoadFails
    \/ EvaluateAdd \/ EvaluateDelete \/ EvaluateFlush \/ EvaluateOther
    \/ EvaluateError \/ EvaluateDone
    \/ Queue \/ List \/ ListCrash
    \/ Reset \/ ResetCrash \/ ResetInterrupted \/ ResetFails
    \/ Check \/ Commit \/ KernelRefuses
    \/ Finish \/ FinishTrial

Next ==
    \/ OthersCommit \/ Traffic
    \/ SetDryRun \/ SetOptimize \/ RunOnce \/ RunOptimized
    \/ Step

Spec == Init /\ [][Next]_vars

-----------------------------------------------------------------------------
\* Between two runs, a cache that would be used again because the generation
\* has not moved holds what the kernel holds, whatever the commands of the
\* runs before have added to it and removed from it.
CacheTruth ==
    pc = "idle" /\ "refresh" \notin cflags /\ gen = cgenid =>
        /\ cache \subseteq kern
        /\ kern \cap Loads([flags |-> cflags, hide |-> {}]) \subseteq cache

\* Every run starts its evaluation from a ruleset the kernel has at that
\* moment, with all of it that the commands were found to need.
EvaluationStartsTrue ==
    [][pc = "flags" /\ pc' = "eval" =>
          cache' \subseteq kern /\ kern \cap Loads(Ask!Request) \subseteq cache']_vars

\* What one cache for the whole batch may lack because of one command: a
\* listing of one table narrows it, a flush leaves out what it removes.
Lacks(cmd) ==
    {x \in Item : \/ cmd.op = "list" /\ Ask!Narrows(cmd)
                  \/ cmd.op = "flush" /\ cmd.obj = "ruleset"
                  \/ cmd.op = "flush" /\ cmd.obj = "set" /\ KindOf[x] = "setelem" /\ OwnerOf[x] = cmd.name}

MayNeed(cmd) == Ask!Needs(cmd, {"update"}) \cup Deleted(cmd)

\* No command stands in the way of another: what a command needs is not left
\* out for the sake of another one, but for a flush that comes before it.
Orderly(i) ==
    \A m, n \in DOMAIN i :
        m # n /\ (i[m].op = "flush" => n < m) => MayNeed(i[n]) \cap Lacks(i[m]) = {}

InputsOrderly == \A i \in Inputs : Orderly(i)

\* A batch is refused before the kernel is asked only if the kernel would
\* refuse it, too, were it asked at the moment the cache was loaded: the
\* command found wrong, or one before it, names what would not be there.
RefusalJustified ==
    [][nerrs' > nerrs => \E n \in 1..(at + 1) : ~(Needed(input[n]) \subseteq Before(base, n))]_vars

\* In a dry run, and in the trial of an optimized one, nothing is committed.
CommitsOnlyWhenAsked ==
    [][pc' # pc /\ (wants.dry \/ pass = "trial") => UNCHANGED <<gen, kern>>]_vars

\* A run that is not dry and returns 0 has committed what it was given.
SuccessCommits ==
    [][Sending /\ pc' = "finish" /\ rc' = 0 /\ pass # "trial" /\ ~wants.dry
          => kern' = Result(kern)]_vars
=============================================================================
