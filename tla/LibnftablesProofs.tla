-------------------------- MODULE LibnftablesProofs --------------------------
(***************************************************************************)
(* Theorems about Libnftables: whatever the commands and however many runs *)
(* there are on a context, dry runs leave the kernel alone, a cache that   *)
(* is used again is true, and what is reported missing is missing.         *)
(***************************************************************************)
EXTENDS Libnftables, FiniteInduction, SequenceTheorems

-----------------------------------------------------------------------------
(***************************************************************************)
(* Dry runs.  While a run goes on, the caller cannot change what he wants, *)
(* and the context is in dry-run mode if he wants that or if it is the     *)
(* trial; a trial has kept his choice for the real run.                    *)
(***************************************************************************)
DryInv ==
    /\ wants \in [dry : BOOLEAN, optimize : BOOLEAN]
    /\ wants.dry => dry
    /\ pc # "idle" /\ pass = "trial" => dry /\ (wants.dry => saved.dry)

\* A context starts with neither setting.
LEMMA DryInvInit == Init => DryInv
<1> SUFFICES ASSUME Init PROVE DryInv
  OBVIOUS
<1>1. dry = FALSE /\ optimize = FALSE /\ wants = Setting /\ pc = "idle"
  BY DEF Init
<1> QED BY <1>1 DEF DryInv, Setting

\* Every step keeps the settings what the caller wants.
LEMMA DryInvStep == DryInv /\ [Next]_vars => DryInv'
<1> SUFFICES ASSUME DryInv, [Next]_vars PROVE DryInv'
  OBVIOUS
<1> USE DEF DryInv
<1>1. CASE SetDryRun
  BY <1>1, SettingAssumption DEF SetDryRun, job
<1>2. CASE SetOptimize
  BY <1>2, SettingAssumption DEF SetOptimize, job
<1>3. CASE RunOnce
  BY <1>3 DEF RunOnce, Run, Begin
<1>4. CASE RunOptimized
  BY <1>4 DEF RunOptimized, Run, Begin, Setting
<1>5. CASE FinishTrial
  BY <1>5 DEF FinishTrial, Begin
<1>6. CASE OthersCommit \/ Traffic \/ UNCHANGED vars
  BY <1>6 DEF OthersCommit, Traffic, vars, context, job
<1>7. CASE Finish
  BY <1>7 DEF Finish, context, job
<1>8. CASE AskFor \/ Load \/ LoadFails
  BY <1>8 DEF AskFor, Asked, Load, LoadFails, Fail, context, job
<1>9. CASE EvaluateAdd \/ EvaluateDelete \/ EvaluateFlush \/ EvaluateOther \/ EvaluateError
           \/ EvaluateDone
  BY <1>9 DEF EvaluateAdd, EvaluateDelete, EvaluateFlush, EvaluateOther, EvaluateError,
              EvaluateDone, Evaluating, Evaluated, Fail, context, job
<1>10. CASE Queue \/ List \/ ListCrash \/ Reset \/ ResetCrash \/ ResetInterrupted \/ ResetFails
  BY <1>10 DEF Queue, List, ListCrash, Reset, ResetCrash, ResetInterrupted, ResetFails,
               Doing, Done, Fail, context, job
<1>11. CASE Check \/ Commit \/ KernelRefuses
  BY <1>11 DEF Check, Commit, KernelRefuses, Sending, Sent, Fail, context, job
<1> QED BY <1>1, <1>2, <1>3, <1>4, <1>5, <1>6, <1>7, <1>8, <1>9, <1>10, <1>11 DEF Next, Step

(***************************************************************************)
(* In whatever order the caller changes the settings, and whichever run    *)
(* fails, no dry run and no trial of an optimized file commits.            *)
(***************************************************************************)
THEOREM DryRunsCommitNothing == Spec => CommitsOnlyWhenAsked
<1>1. ASSUME DryInv, [Next]_vars, pc' # pc, wants.dry \/ pass = "trial"
      PROVE  UNCHANGED <<gen, kern>>
  <2>1. ~Commit
    BY <1>1 DEF DryInv, Commit, Sending
  <2>2. CASE OthersCommit \/ Traffic \/ SetDryRun \/ SetOptimize \/ RunOnce \/ RunOptimized
             \/ UNCHANGED vars
    BY <1>1, <2>2 DEF OthersCommit, Traffic, SetDryRun, SetOptimize, RunOnce, RunOptimized, Run,
                      kernel, vars
  <2>3. CASE AskFor \/ Load \/ LoadFails \/ Finish \/ FinishTrial
    BY <2>3 DEF AskFor, Load, LoadFails, Finish, FinishTrial, kernel
  <2>4. CASE EvaluateAdd \/ EvaluateDelete \/ EvaluateFlush \/ EvaluateOther \/ EvaluateError
             \/ EvaluateDone
    BY <2>4 DEF EvaluateAdd, EvaluateDelete, EvaluateFlush, EvaluateOther, EvaluateError,
                EvaluateDone, Evaluated, kernel
  <2>5. CASE Queue \/ List \/ ListCrash \/ Reset \/ ResetCrash \/ ResetInterrupted \/ ResetFails
    BY <2>5 DEF Queue, List, ListCrash, Reset, ResetCrash, ResetInterrupted, ResetFails, kernel
  <2>6. CASE Check \/ KernelRefuses
    BY <2>6 DEF Check, KernelRefuses, kernel
  <2> QED BY <1>1, <2>1, <2>2, <2>3, <2>4, <2>5, <2>6 DEF Next, Step
<1>2. DryInv /\ [Next]_vars =>
          [pc' # pc /\ (wants.dry \/ pass = "trial") => UNCHANGED <<gen, kern>>]_vars
  BY <1>1
<1> QED BY <1>2, DryInvInit, DryInvStep, PTL DEF Spec, CommitsOnlyWhenAsked
-----------------------------------------------------------------------------
(***************************************************************************)
(* What a transaction makes of a ruleset, command by command.              *)
(***************************************************************************)
LEMMA BeforeSteps ==
    ASSUME NEW R, input \in Seq(Ask!Commands)
    PROVE  /\ Before(R, 1) = R
           /\ \A n \in 1..Len(input) : Before(R, n + 1) = Applied(Before(R, n), input[n])
<1> DEFINE V == SUBSET (R \cup Item \cup {Nothing})
           N == Len(input)
           step == [p \in V \X (1..N) |-> Applied(p[1], input[p[2]])]
           Follows(f) == f = [m \in 0..N |-> IF m = 0 THEN R ELSE Applied(f[m - 1], input[m])]
           after == CHOOSE f : Follows(f)
<1>1. N \in Nat /\ DOMAIN input = 1..N
  BY LenProperties
<1>2. step \in [V \X (1..N) -> V]
  <2> SUFFICES ASSUME NEW S \in V, NEW n \in 1..N PROVE Applied(S, input[n]) \in V
    OBVIOUS
  <2>1. Subjects(input[n]) \subseteq Item \cup {Nothing}
    <3>1. input[n] \in Ask!Commands
      BY ElementOfSeq
    <3>2. input[n].table \in Item \cup {Nothing} /\ input[n].name \in Item \cup {Nothing}
      BY <3>1 DEF Ask!Commands
    <3> QED BY <3>2 DEF Subjects
  <2> QED BY <2>1 DEF Applied
<1>3. PICK g : Recurs(g, N, V, R, step)
  <2>1. R \in V
    OBVIOUS
  <2>2. N \in Nat
    BY <1>1
  <2> HIDE DEF V, N, step
  <2> QED BY <1>2, <2>1, <2>2, Recursion
<1>4. Follows(g)
  <2> USE DEF Recurs
  <2>1. ASSUME NEW m \in 1..N PROVE g[m] = Applied(g[m - 1], input[m])
    <3>1. g[m - 1] \in V /\ g[m] = step[<<g[m - 1], m>>]
      <4> HIDE DEF V, step
      <4>1. m - 1 \in 0..N
        BY <1>1
      <4> QED BY <1>3, <4>1
    <3>2. step[<<g[m - 1], m>>] = Applied(g[m - 1], input[m])
      BY <3>1
    <3> QED BY <3>1, <3>2
  <2>2. g = [m \in 0..N |-> g[m]]
    BY <1>3
  <2>3. \A m \in 0..N : g[m] = IF m = 0 THEN R ELSE Applied(g[m - 1], input[m])
    BY <1>1, <1>3, <2>1
  <2> QED BY <2>2, <2>3
<1>5. Follows(after)
  <2> HIDE DEF Follows
  <2> QED BY <1>4
<1>6. \A n : Before(R, n) = after[n - 1]
  BY DEF Before
<1>7. /\ after[0] = R
      /\ \A m \in 1..N : after[m] = Applied(after[m - 1], input[m])
  <2> HIDE DEF after
  <2> QED BY <1>1, <1>5
<1>8. Before(R, 1) = R
  <2> HIDE DEF after
  <2> QED BY <1>6, <1>7
<1>9. ASSUME NEW n \in 1..N PROVE Before(R, n + 1) = Applied(Before(R, n), input[n])
  <2>1. (n + 1) - 1 = n
    BY <1>1
  <2> HIDE DEF after
  <2> QED BY <1>6, <1>7, <2>1
<1> QED BY <1>8, <1>9
-----------------------------------------------------------------------------
(***************************************************************************)
(* The cache.  "Holds" is what makes it fit to be used again; a new        *)
(* generation or a listing makes it unfit, so that only the runs matter    *)
(* after which the kernel still has the ruleset it had: those in which no  *)
(* command asks for any news (Idle).  They leave the cache as true as it   *)
(* was loaded.  A dry run does not (it keeps a cache with its changes),    *)
(* hence the assumption that there are none.                               *)
(***************************************************************************)
NoDryRuns == TRUE \notin Dry /\ TRUE \notin Optimize

Holds(R) == cache \subseteq R /\ R \cap Loads([flags |-> cflags, hide |-> {}]) \subseteq cache

Fit == "refresh" \notin cflags /\ gen = cgenid

\* Every set some command flushes is known by the command.
Flushes(s) ==
    \E n \in DOMAIN input : input[n].op = "flush" /\ input[n].obj = "set" /\ input[n].name = s

Plain ==
    /\ dry = FALSE /\ optimize = FALSE /\ pass = "only"
    /\ input \in Seq(Ask!Commands)
    /\ at \in Nat /\ at =< Len(input)
    /\ nerrs \in Nat

Generations == gen \in Nat \ {0} /\ cgenid \in Nat /\ cgenid =< gen

Requests ==
    /\ {"terse", "flushed"} \cap cflags = {}
    /\ "terse" \notin flags
    /\ list.table # Nothing => "refresh" \in flags
    /\ \A s \in flushed : Flushes(s)

\* Before, during and after the evaluation.
Truth ==
    /\ pc \in {"idle", "flags"} /\ Fit => Holds(kern)
    /\ pc \in {"eval", "netlink"} /\ gen = cgenid => kern = base
    /\ pc = "netlink" \/ (pc = "eval" /\ nerrs = 0) =>
           ("refresh" \notin cflags /\ Idle(base) => Holds(base))
    /\ pc = "finish" /\ rc = 0 /\ Fit => Holds(kern)

CacheInv == Plain /\ Generations /\ Requests /\ Truth

\* A batch of listings leaves every ruleset as it is, command by command.
LEMMA IdleSteps ==
    ASSUME NEW R, input \in Seq(Ask!Commands), Idle(R)
    PROVE  /\ \A n \in 1..Len(input) : Applied(R, input[n]) = R
           /\ Result(R) = R
<1>1. Len(input) \in Nat /\ DOMAIN input = 1..Len(input)
  BY LenProperties
<1>2. \A n \in 1..(Len(input) + 1) : Before(R, n) = R
  <2> SUFFICES ASSUME NEW n \in 1..(Len(input) + 1) PROVE Before(R, n) = R
    OBVIOUS
  <2>1. CASE n = 1
    BY <2>1, BeforeSteps
  <2>2. CASE n # 1
    <3>1. n - 1 \in DOMAIN input /\ (n - 1) + 1 = n
      BY <1>1, <2>2
    <3> QED BY <3>1 DEF Idle
  <2> QED BY <2>1, <2>2
<1>3. Result(R) = R
  BY <1>1, <1>2 DEF Result
<1>4. ASSUME NEW n \in 1..Len(input) PROVE Applied(R, input[n]) = R
  <2>1. n \in 1..(Len(input) + 1) /\ n + 1 \in 1..(Len(input) + 1)
    BY <1>1
  <2>2. Before(R, n) = R /\ Before(R, n + 1) = R
    BY <1>2, <2>1
  <2> QED BY <2>2, BeforeSteps
<1> QED BY <1>3, <1>4

\* Commands that send nothing change nothing.
LEMMA ListingsAreIdle ==
    ASSUME NEW R, input \in Seq(Ask!Commands), \A n \in DOMAIN input : ~IsMessage(input[n])
    PROVE  Idle(R)
<1> DEFINE N == Len(input)
           S == {m \in 0..N : Before(R, m + 1) = R}
<1>1. N \in Nat /\ DOMAIN input = 1..N
  BY LenProperties
<1>2. 0 \in S
  BY <1>1, BeforeSteps
<1>3. ASSUME NEW m \in 0..(N - 1), m \in S PROVE m + 1 \in S
  <2>1. m + 1 \in 1..N
    BY <1>1
  <2>2. Before(R, (m + 1) + 1) = Applied(Before(R, m + 1), input[m + 1])
    BY <2>1, BeforeSteps
  <2>3. Applied(R, input[m + 1]) = R
    BY <1>1, <2>1 DEF Applied, IsMessage
  <2> QED BY <1>1, <1>3, <2>1, <2>2, <2>3
<1>4. 0..N \subseteq S
  <2> HIDE DEF S, N
  <2> QED BY <1>1, <1>2, <1>3, Upto
<1>5. ASSUME NEW n \in 1..N PROVE Before(R, n + 1) = R
  <2>1. n \in 0..N
    BY <1>1
  <2> QED BY <1>4, <2>1
<1> QED BY <1>1, <1>5 DEF Idle

(***************************************************************************)
(* What a smaller request loads, a larger one loads, too.                  *)
(***************************************************************************)
LEMMA LoadsMore ==
    ASSUME NEW F, NEW G, F \subseteq G, "flushed" \notin G, "terse" \notin G, NEW H
    PROVE  Loads([flags |-> F, hide |-> H]) \subseteq Loads([flags |-> G, hide |-> {}])
BY DEF Loads, LoadsElements

\* What the elements of a set are among.
LEMMA InTree ==
    ASSUME NEW cmd, cmd.op = "flush", cmd.obj = "set", NEW x \in Item, KindOf[x] = "setelem",
           OwnerOf[x] = cmd.name
    PROVE  x \in Tree(cmd) \ Subjects(cmd)
<1>1. KindOf[OwnerOf[x]] = "set"
  BY ItemAssumption
<1> QED BY <1>1 DEF Tree, Subjects

(***************************************************************************)
(* One round of nft_cache_evaluate.                                        *)
(***************************************************************************)
LEMMA AskForKeeps == CacheInv /\ AskFor => CacheInv'
<1> SUFFICES ASSUME CacheInv, AskFor PROVE CacheInv'
  OBVIOUS
<1> USE DEF CacheInv, Plain, Generations, Requests, Truth
<1>d. Len(input) \in Nat /\ DOMAIN input = 1..Len(input)
  BY LenProperties
<1> DEFINE cmd == input[at + 1]
<1>1. /\ pc = "flags" /\ at < Len(input)
      /\ UNCHANGED <<gen, kern, dry, optimize, cache, cgenid, cflags, pass, input, base, nerrs>>
  BY DEF AskFor, kernel, context, stored, job
<1>2. UNCHANGED <<gen, kern, cache, cgenid, cflags>> => Holds(kern)' = Holds(kern) /\ Fit' = Fit
  BY DEF Holds, Fit
<1>3. UNCHANGED input => \A s : Flushes(s)' = Flushes(s)
  BY DEF Flushes
<1>4. CASE at' = at /\ Ask!NameTooLong(cmd) /\ Fail
  <2>1. UNCHANGED <<flags, list, flushed>>
    BY <1>4 DEF Ask!NameTooLong
  <2> QED BY <1>1, <1>3, <1>4, <2>1 DEF Fail
<1>5. ASSUME at' = at + 1, UNCHANGED <<pc, rc>>,
             Ask!Add(cmd) \/ Ask!Replace(cmd) \/ Ask!Delete(cmd)
               \/ Ask!List(cmd) \/ Ask!Flush(cmd) \/ Ask!Other(cmd)
      PROVE  CacheInv'
  <2>1. at' \in Nat /\ at' =< Len(input)
    BY <1>1, <1>5, <1>d
  <2>2. list' = Ask!Listed(cmd)
    BY <1>5 DEF Ask!Add, Ask!Replace, Ask!Delete, Ask!List, Ask!Flush, Ask!Other, Ask!Evaluate
  <2>3. "terse" \notin flags'
    <3> USE DEF Ask!Evaluate, Ask!CHAIN, Ask!SET, Ask!FLOWTABLE, Ask!OBJECT, Ask!SETELEM,
                Ask!RULE, Ask!FULL, Ask!Kinds
    <3>1. CASE Ask!Add(cmd)
      <4>1. "terse" \notin Ask!AddFlags(cmd)
        BY DEF Ask!AddFlags, Ask!BodyFlags, Ask!PlacedRule
      <4> QED BY <3>1, <4>1 DEF Ask!Add
    <3>2. CASE Ask!List(cmd)
      <4>1. \A filter : "terse" \notin Ask!ListFlags(cmd, filter)
        BY DEF Ask!ListFlags, Ask!Terse
      <4> QED BY <3>2, <4>1 DEF Ask!List
    <3>3. CASE Ask!Replace(cmd) \/ Ask!Delete(cmd)
      BY <3>3 DEF Ask!Replace, Ask!Delete, Ask!DeleteFlags
    <3>4. CASE Ask!Flush(cmd) \/ Ask!Other(cmd)
      BY <3>4 DEF Ask!Flush, Ask!Other, Ask!FlushFlags, Ask!OtherFlags
    <3> QED BY <1>5, <3>1, <3>2, <3>3, <3>4
  <2>4. list'.table # Nothing => "refresh" \in flags'
    <3>1. CASE cmd.op = "list"
      BY <1>5, <3>1 DEF Ask!Add, Ask!Replace, Ask!Delete, Ask!List, Ask!Flush, Ask!Other,
                        Ask!Evaluate, Ask!ListFlags
    <3>2. CASE cmd.op # "list"
      BY <2>2, <3>2 DEF Ask!Listed, Ask!Filtered, Ask!Cleared, Ask!NoList
    <3> QED BY <3>1, <3>2
  <2>5. \A s \in flushed' : Flushes(s)
    <3>1. CASE Ask!Flush(cmd)
      <4>1. cmd.op = "flush" /\ flushed' = flushed \cup {s \in {cmd.name} : cmd.obj = "set"}
        BY <3>1 DEF Ask!Flush, Ask!Evaluate
      <4>2. at + 1 \in DOMAIN input
        BY <1>1, <1>d
      <4> QED BY <4>1, <4>2 DEF Flushes
    <3>2. CASE ~Ask!Flush(cmd)
      BY <1>5, <3>2 DEF Ask!Add, Ask!Replace, Ask!Delete, Ask!List, Ask!Other
    <3> QED BY <3>1, <3>2
  <2>6. Requests'
    BY <1>1, <1>3, <2>3, <2>4, <2>5
  <2>7. Truth'
    BY <1>1, <1>2, <1>5
  <2> QED BY <1>1, <2>1, <2>6, <2>7
<1> QED BY <1>4, <1>5 DEF AskFor
(***************************************************************************)
(* The load.                                                               *)
(***************************************************************************)
LEMMA LoadKeeps == CacheInv /\ Load => CacheInv'
<1> SUFFICES ASSUME CacheInv, Load PROVE CacheInv'
  OBVIOUS
<1> USE DEF CacheInv, Plain, Generations, Requests, Truth
<1>1. /\ pc = "flags" /\ pc' = "eval" /\ at' = 0 /\ base' = kern
      /\ flags' = {} /\ flushed' = {} /\ list' = Ask!NoList /\ Ask!NoList.table = Nothing
      /\ UNCHANGED <<gen, kern, dry, optimize, pass, input, nerrs, rc>>
  BY DEF Load, Asked, Forget, kernel, context, job, Ask!NoList
<1>2. Len(input) \in Nat
  BY LenProperties
<1>3. /\ {"terse", "flushed"} \cap cflags' = {} /\ cgenid' = gen
      /\ "refresh" \notin cflags' /\ Idle(kern) => Holds(kern)'
  <2>1. CASE Reusable /\ UNCHANGED stored
    <3>1. Fit /\ cgenid = gen
      BY <2>1 DEF Reusable, Fit
    <3> QED BY <1>1, <2>1, <3>1 DEF Holds, stored
  <2>2. CASE cgenid' = gen /\ "flushed" \in flags /\ cache' = {} /\ cflags' = flags \cap {"update"}
    <3>1. Loads([flags |-> cflags', hide |-> {}]) = {}
      BY <2>2, ItemAssumption DEF Loads, LoadsElements, Kinds
    <3> QED BY <2>2, <3>1 DEF Holds
  <2>3. CASE cgenid' = gen /\ "flushed" \notin flags /\ cache' = kern \cap Loads(Ask!Request)
             /\ cflags' = flags
    <3>1. ASSUME "refresh" \notin flags, Idle(kern),
                 NEW x \in kern, x \in Loads([flags |-> flags, hide |-> {}])
          PROVE  x \in Loads(Ask!Request)
      <4>1. list.table = Nothing
        BY <3>1
      <4>2. x \in Item /\ (KindOf[x] = "setelem" => OwnerOf[x] \notin flushed)
        <5>1. x \in Item
          BY <3>1 DEF Loads
        <5>2. ASSUME KindOf[x] = "setelem", OwnerOf[x] \in flushed PROVE FALSE
          <6>1. PICK n \in DOMAIN input : input[n].op = "flush" /\ input[n].obj = "set"
                                          /\ input[n].name = OwnerOf[x]
            BY <5>2 DEF Flushes
          <6>2. Applied(kern, input[n]) = kern
            BY <3>1, <6>1, IdleSteps, LenProperties
          <6>3. Applied(kern, input[n]) = kern \ (Tree(input[n]) \ Subjects(input[n]))
            BY <6>1 DEF Applied
          <6>4. x \in Tree(input[n]) \ Subjects(input[n])
            BY <5>1, <5>2, <6>1, InTree
          <6> QED BY <6>2, <6>3, <6>4
        <5> QED BY <5>1, <5>2
      <4>3. x \notin Ask!Request.hide /\ Ask!Request.flags = flags
        BY <4>1, <4>2 DEF Ask!Request, Ask!HiddenByList
      <4> QED BY <3>1, <4>3 DEF Loads, LoadsElements
    <3>2. ASSUME "refresh" \notin flags, Idle(kern)
          PROVE  kern \cap Loads([flags |-> flags, hide |-> {}]) \subseteq kern \cap Loads(Ask!Request)
      BY <3>1, <3>2
    <3>3. Loads([flags |-> cflags', hide |-> {}]) = Loads([flags |-> flags, hide |-> {}])
      BY <2>3
    <3>4. "refresh" \notin flags /\ Idle(kern) =>
              kern \cap Loads([flags |-> cflags', hide |-> {}]) \subseteq cache'
      BY <2>3, <3>2, <3>3
    <3> QED BY <1>1, <2>3, <3>4 DEF Holds
  <2> QED BY <2>1, <2>2, <2>3 DEF Load
<1>4. Idle(base)' = Idle(kern) /\ Holds(base)' = Holds(kern)'
  BY <1>1 DEF Idle, Before, Holds
<1> QED BY <1>1, <1>2, <1>3, <1>4

\* A load that fails leaves an empty cache.
LEMMA LoadFailsKeeps == CacheInv /\ LoadFails => CacheInv'
<1> SUFFICES ASSUME CacheInv, LoadFails PROVE CacheInv'
  OBVIOUS
<1> USE DEF CacheInv, Plain, Generations, Requests, Truth
<1>1. Len(input) \in Nat /\ Ask!NoList.table = Nothing
  BY LenProperties DEF Ask!NoList
<1> QED BY <1>1 DEF LoadFails, Forget, Fail, kernel, context, job

(***************************************************************************)
(* The evaluation: as long as there is no error and the batch asks for no  *)
(* news, what a command does to the cache has been done already.           *)
(***************************************************************************)
LEMMA EvaluatedKeeps ==
    ASSUME CacheInv, pc = "eval", at < Len(input), Evaluated, nerrs' \in Nat,
           \/ UNCHANGED <<pc, rc>> /\ nerrs' # 0 /\ UNCHANGED cache
           \/ Fail
           \/ UNCHANGED <<pc, rc, nerrs>>
              /\ (Idle(base) /\ cache \subseteq base => cache \subseteq cache' /\ cache' \subseteq base)
    PROVE  CacheInv'
<1> USE DEF CacheInv, Plain, Generations, Requests, Truth
<1>1. Len(input) \in Nat
  BY LenProperties
<1>2. /\ UNCHANGED <<gen, kern, dry, optimize, cgenid, cflags, pass, input, flags, list, flushed, base>>
      /\ at' \in Nat /\ at' =< Len(input)
  BY <1>1 DEF Evaluated, kernel, context, job, asked
<1>3. \A s : Flushes(s)' = Flushes(s)
  BY <1>2 DEF Flushes
<1>4. Idle(base)' = Idle(base)
  BY <1>2 DEF Idle, Before
<1>5. /\ Holds(base) => cache \subseteq base
      /\ Holds(base) /\ cache \subseteq cache' /\ cache' \subseteq base => Holds(base)'
  BY <1>2 DEF Holds
<1>6. Plain' /\ Generations' /\ Requests'
  BY <1>2, <1>3
<1>7. Truth'
  BY <1>2, <1>4, <1>5 DEF Fail
<1> QED BY <1>6, <1>7

\* An evaluated command is applied to the cache as the kernel will apply it.
LEMMA EvaluateKeeps ==
    CacheInv /\ (EvaluateAdd \/ EvaluateDelete \/ EvaluateFlush \/ EvaluateOther \/ EvaluateError
                 \/ EvaluateDone) => CacheInv'
<1> SUFFICES ASSUME CacheInv, EvaluateAdd \/ EvaluateDelete \/ EvaluateFlush \/ EvaluateOther
                              \/ EvaluateError \/ EvaluateDone
             PROVE  CacheInv'
  OBVIOUS
<1>n. nerrs \in Nat /\ at \in Nat /\ Len(input) \in Nat /\ input \in Seq(Ask!Commands)
  BY LenProperties DEF CacheInv, Plain
<1>i. ASSUME at < Len(input), Idle(base) PROVE Applied(base, Cmd) = base
  <2>1. at + 1 \in 1..Len(input)
    BY <1>i, <1>n
  <2> QED BY <1>i, <1>n, <2>1, IdleSteps DEF Cmd
<1>1. CASE EvaluateAdd
  <2>1. /\ pc = "eval" /\ at < Len(input) /\ Evaluated /\ UNCHANGED <<pc, rc, nerrs>>
        /\ Cmd.op \in {"add", "create"}
        /\ cache' = cache \cup {x \in Subjects(Cmd) : Cmd.obj = "elements" => Cmd.name \in Interval}
    BY <1>1 DEF EvaluateAdd, Evaluating
  <2>2. Idle(base) => Subjects(Cmd) \subseteq base
    BY <1>i, <2>1 DEF Applied
  <2> QED BY <1>n, <2>1, <2>2, EvaluatedKeeps
<1>2. CASE EvaluateDelete
  <2>1. /\ pc = "eval" /\ at < Len(input) /\ Evaluated /\ UNCHANGED <<pc, rc, nerrs>>
        /\ Cmd.op = "delete" /\ cache \ Tree(Cmd) \subseteq cache' /\ cache' \subseteq cache
    BY <1>2 DEF EvaluateDelete, Evaluating
  <2>2. Idle(base) => base = base \ Tree(Cmd)
    BY <1>i, <2>1 DEF Applied
  <2> QED BY <1>n, <2>1, <2>2, EvaluatedKeeps
<1>3. CASE EvaluateFlush
  <2>1. /\ pc = "eval" /\ at < Len(input) /\ Evaluated /\ UNCHANGED <<pc, rc, nerrs>>
        /\ Cmd.op = "flush"
        /\ cache' = cache \ {x \in Tree(Cmd) : Cmd.obj = "set" /\ x \notin Subjects(Cmd)}
    BY <1>3 DEF EvaluateFlush, Evaluating
  <2>2. Idle(base) /\ Cmd.obj = "set" => base = base \ (Tree(Cmd) \ Subjects(Cmd))
    BY <1>i, <2>1 DEF Applied
  <2>3. CASE Cmd.obj = "set"
    BY <1>n, <2>1, <2>2, <2>3, EvaluatedKeeps
  <2>4. CASE Cmd.obj # "set"
    <3>1. cache' = cache
      BY <2>1, <2>4
    <3> QED BY <1>n, <2>1, <3>1, EvaluatedKeeps
  <2> QED BY <2>3, <2>4
<1>4. CASE EvaluateOther
  BY <1>4, <1>n, EvaluatedKeeps DEF EvaluateOther, Evaluating
<1>5. CASE EvaluateError
  <2>1. /\ pc = "eval" /\ at < Len(input) /\ Evaluated /\ UNCHANGED cache
        /\ nerrs' \in Nat /\ nerrs' # 0
        /\ Fail \/ UNCHANGED <<pc, rc>>
    BY <1>5, <1>n DEF EvaluateError, Evaluating
  <2> QED BY <2>1, EvaluatedKeeps
<1>6. CASE EvaluateDone
  <2>1. /\ pc = "eval" /\ at' = 0
        /\ UNCHANGED <<gen, kern, dry, optimize, cgenid, cflags, cache, pass, input, flags, list,
                       flushed, base, nerrs>>
        /\ Fail \/ (nerrs = 0 /\ pc' = "netlink")
    BY <1>6, <1>n DEF EvaluateDone, kernel, context, stored, job, asked
  <2>2. \A s : Flushes(s)' = Flushes(s)
    BY <2>1 DEF Flushes
  <2>3. Idle(base)' = Idle(base) /\ Holds(base)' = Holds(base)
    BY <2>1 DEF Idle, Before, Holds
  <2>4. (Plain /\ Generations /\ Requests)'
    BY <1>n, <2>1, <2>2 DEF CacheInv, Plain, Generations, Requests
  <2>5. Truth'
    BY <2>1, <2>3 DEF CacheInv, Truth, Fail
  <2> QED BY <2>4, <2>5 DEF CacheInv
<1> QED BY <1>1, <1>2, <1>3, <1>4, <1>5, <1>6
(***************************************************************************)
(* The commands and the batch.                                             *)
(***************************************************************************)
LEMMA NetlinkKeeps ==
    CacheInv /\ (Queue \/ List \/ ListCrash \/ Reset \/ ResetCrash \/ ResetInterrupted \/ ResetFails)
        => CacheInv'
<1> SUFFICES ASSUME CacheInv, Queue \/ List \/ ListCrash \/ Reset \/ ResetCrash
                              \/ ResetInterrupted \/ ResetFails
             PROVE  CacheInv'
  OBVIOUS
<1> USE DEF CacheInv, Plain, Generations, Requests, Truth
<1>1. /\ pc = "netlink" /\ Len(input) \in Nat
      /\ UNCHANGED <<gen, kern, dry, optimize, cgenid, cflags, pass, input, flags, list, flushed,
                     base, nerrs>>
  BY LenProperties DEF Queue, List, ListCrash, Reset, ResetCrash, ResetInterrupted, ResetFails,
                       Doing, context, stored, job, asked, kernel
<1>2. (\A s : Flushes(s)' = Flushes(s)) /\ Idle(base)' = Idle(base)
  BY <1>1 DEF Flushes, Idle, Before
<1>3. at' \in Nat /\ at' =< Len(input)
  BY <1>1 DEF Queue, List, ListCrash, Reset, ResetCrash, ResetInterrupted, ResetFails, Doing, Done
<1>4. Plain' /\ Generations' /\ Requests'
  BY <1>1, <1>2, <1>3
<1>5. CASE Reset
  <2>1. pc' = "netlink" /\ cache' = cache \cup Resets /\ (Resets # {} => gen = cgenid)
    BY <1>1, <1>5 DEF Reset, Done, Interrupted
  <2>2. Resets \subseteq base
    BY <1>1, <2>1 DEF Resets
  <2>3. Holds(base) => Holds(base)'
    BY <1>1, <2>1, <2>2 DEF Holds
  <2>4. Truth'
    BY <1>1, <1>2, <2>1, <2>3
  <2> QED BY <1>4, <2>4
<1>6. CASE Queue \/ List \/ ListCrash \/ ResetCrash \/ ResetInterrupted \/ ResetFails
  <2>1. /\ cache' = cache
        /\ pc' = "netlink" \/ pc' = "crashed" \/ Fail
    BY <1>1, <1>6 DEF Queue, List, ListCrash, ResetCrash, ResetInterrupted, ResetFails,
                      Doing, Done, stored
  <2>2. Holds(base)' = Holds(base)
    BY <1>1, <2>1 DEF Holds
  <2>3. Truth'
    BY <1>1, <1>2, <2>1, <2>2 DEF Fail
  <2> QED BY <1>4, <2>3
<1> QED BY <1>5, <1>6

\* What the kernel takes of a batch is what the cache has taken.
LEMMA BatchKeeps == CacheInv /\ (Check \/ Commit \/ KernelRefuses) => CacheInv'
<1> SUFFICES ASSUME CacheInv, Check \/ Commit \/ KernelRefuses PROVE CacheInv'
  OBVIOUS
<1> USE DEF CacheInv, Plain, Generations, Requests, Truth
<1>1. /\ pc = "netlink" /\ pc' = "finish" /\ (rc' # -1 => UNCHANGED rc)
      /\ UNCHANGED <<dry, optimize, cache, cgenid, cflags, pass, input, at, flags, list, flushed,
                     base, nerrs>>
  BY DEF Check, Commit, KernelRefuses, Sending, Sent, Fail, context, stored, job, asked
<1>2. \A s : Flushes(s)' = Flushes(s)
  BY <1>1 DEF Flushes
<1>3. gen' \in Nat \ {0} /\ gen =< gen'
  BY DEF Check, Commit, KernelRefuses, kernel
<1>4. ASSUME Fit', rc' = 0 PROVE Holds(kern)'
  <2>1. gen' = gen /\ kern = base /\ "refresh" \notin cflags
    BY <1>1, <1>3, <1>4 DEF Fit
  <2>2. Idle(base) /\ kern' = base
    <3>1. CASE Check
      <4>1. Idle(base)
        BY <3>1, ListingsAreIdle DEF Check
      <4> QED BY <2>1, <3>1, <4>1 DEF Check, kernel
    <3>2. CASE Commit
      <4>1. kern' = Result(kern) /\ Idle(kern)
        BY <2>1, <3>2 DEF Commit
      <4> QED BY <2>1, <4>1, IdleSteps
    <3>3. CASE KernelRefuses
      BY <1>4, <3>3 DEF KernelRefuses, Fail
    <3> QED BY <3>1, <3>2, <3>3
  <2>3. Holds(base)
    BY <1>1, <2>1, <2>2
  <2> QED BY <1>1, <2>2, <2>3 DEF Holds
<1>5. Plain' /\ Generations' /\ Requests'
  BY <1>1, <1>2, <1>3
<1>6. Truth'
  BY <1>1, <1>4
<1> QED BY <1>5, <1>6

\* A new context has an empty cache.
LEMMA CacheInvInit == Init => CacheInv
<1> SUFFICES ASSUME Init PROVE CacheInv
  OBVIOUS
<1>1. /\ gen = 1 /\ dry = FALSE /\ optimize = FALSE /\ cflags = {} /\ cgenid = 0 /\ pc = "idle"
      /\ pass = "only" /\ input = <<>> /\ at = 0 /\ flags = {} /\ list = Ask!NoList
      /\ flushed = {} /\ nerrs = 0
  BY DEF Init
<1>2. Ask!NoList.table = Nothing /\ Len(<<>>) = 0 /\ <<>> \in Seq(Ask!Commands)
  BY DEF Ask!NoList
<1> QED BY <1>1, <1>2 DEF CacheInv, Plain, Generations, Requests, Truth, Fit

\* Every step keeps the cache true.
LEMMA CacheInvStep == NoDryRuns /\ CacheInv /\ [Next]_vars => CacheInv'
<1> SUFFICES ASSUME NoDryRuns, CacheInv, [Next]_vars PROVE CacheInv'
  OBVIOUS
<1> USE DEF CacheInv, Plain, Generations, Requests, Truth
<1>n. Ask!NoList.table = Nothing /\ Len(input) \in Nat
  BY LenProperties DEF Ask!NoList
<1>k. ASSUME UNCHANGED <<dry, optimize, stored, pc, job, at, asked, base, nerrs, rc>>,
             UNCHANGED <<gen, kern>> \/ gen' = gen + 1
      PROVE  CacheInv'
  <2>1. (\A s : Flushes(s)' = Flushes(s)) /\ Idle(base)' = Idle(base) /\ Holds(base)' = Holds(base)
    BY <1>k DEF Flushes, Idle, Before, Holds, job, stored
  <2>2. Plain' /\ Generations' /\ Requests'
    BY <1>k, <2>1 DEF job, asked, stored
  <2>3. UNCHANGED <<pc, cache, cgenid, cflags, nerrs, base, rc>>
    BY <1>k DEF stored
  <2>4. gen' = cgenid' => UNCHANGED <<gen, kern>>
    BY <1>k, <2>3
  <2>5. Fit' => Fit /\ UNCHANGED <<gen, kern>> /\ Holds(kern)' = Holds(kern)
    BY <2>3, <2>4 DEF Fit, Holds
  <2>6. Truth'
    BY <2>1, <2>3, <2>4, <2>5
  <2> QED BY <2>2, <2>6
<1>1. CASE OthersCommit \/ Traffic \/ UNCHANGED vars
  BY <1>1, <1>k DEF OthersCommit, Traffic, vars, context, kernel
<1>2. CASE SetDryRun \/ SetOptimize
  <2>1. dry' = FALSE /\ optimize' = FALSE
    BY <1>2, SettingAssumption DEF SetDryRun, SetOptimize, NoDryRuns
  <2> QED BY <1>2, <1>k, <2>1 DEF SetDryRun, SetOptimize, kernel
<1>3. CASE RunOnce
  <2>1. /\ input' \in Seq(Ask!Commands) /\ Len(input') \in Nat
        /\ pc = "idle" /\ pc' = "flags" /\ at' = 0 /\ nerrs' = 0 /\ pass' = "only"
        /\ flags' = {} /\ list' = Ask!NoList /\ flushed' = {}
        /\ UNCHANGED <<gen, kern, dry, optimize, cache, cgenid, cflags>>
    BY <1>3, InputAssumption DEF RunOnce, Run, Begin, Forget, kernel, stored
  <2>2. Fit' = Fit /\ Holds(kern)' = Holds(kern)
    BY <2>1 DEF Fit, Holds
  <2> QED BY <1>n, <2>1, <2>2
<1>4. CASE RunOptimized \/ FinishTrial
  BY <1>4 DEF RunOptimized, FinishTrial
<1>5. CASE Finish
  <2>1. /\ pc = "finish" /\ pc' = "idle"
        /\ UNCHANGED <<gen, kern, dry, optimize, pass, input, at, flags, list, flushed, base, nerrs>>
        /\ (rc = 0 /\ UNCHANGED <<cache, cgenid, cflags>>) \/ (cgenid' = 0 /\ cflags' = {})
    BY <1>5 DEF Finish, KeepOrRelease, kernel, context, stored, job, asked
  <2>2. \A s : Flushes(s)' = Flushes(s)
    BY <2>1 DEF Flushes
  <2>3. UNCHANGED <<cache, cgenid, cflags>> => Fit' = Fit /\ Holds(kern)' = Holds(kern)
    BY <2>1 DEF Fit, Holds
  <2>4. cgenid' = 0 => ~Fit'
    BY <2>1 DEF Fit
  <2>5. Plain' /\ Generations' /\ Requests'
    BY <2>1, <2>2
  <2> QED BY <2>1, <2>3, <2>4, <2>5
<1> HIDE DEF CacheInv
<1> QED
  BY <1>1, <1>2, <1>3, <1>4, <1>5, AskForKeeps, LoadKeeps, LoadFailsKeeps, EvaluateKeeps,
     NetlinkKeeps, BatchKeeps DEF Next, Step

(***************************************************************************)
(* As long as there are no dry runs: whatever the commands of the runs     *)
(* before, whatever failed in them, and whoever has committed in between,  *)
(* a cache that will be used again is true.                                *)
(***************************************************************************)
THEOREM ReusedCacheIsTrue == ASSUME NoDryRuns PROVE Spec => []CacheTruth
<1>1. CacheInv => CacheTruth
  BY DEF CacheInv, Truth, CacheTruth, Fit, Holds
<1>2. CacheInv /\ [Next]_vars => CacheInv'
  BY CacheInvStep
<1> QED BY <1>1, <1>2, CacheInvInit, PTL DEF Spec

(***************************************************************************)
(* Hence every run is evaluated against a ruleset the kernel had when the  *)
(* evaluation began, and has all of it at hand that its commands need.     *)
(***************************************************************************)
THEOREM EvaluationsStartTrue == ASSUME NoDryRuns PROVE Spec => EvaluationStartsTrue
<1>1. ASSUME CacheInv, [Next]_vars, pc = "flags", pc' = "eval"
      PROVE  cache' \subseteq kern /\ kern \cap Loads(Ask!Request) \subseteq cache'
  <2>1. Load
    <3>1. ~Finish /\ ~FinishTrial /\ ~RunOnce /\ ~RunOptimized
      BY <1>1 DEF Finish, FinishTrial, RunOnce, RunOptimized, Run, Begin
    <3>2. ~(OthersCommit \/ Traffic \/ SetDryRun \/ SetOptimize \/ UNCHANGED vars)
      BY <1>1 DEF OthersCommit, Traffic, SetDryRun, SetOptimize, vars
    <3>3. ~AskFor /\ ~LoadFails
      BY <1>1 DEF AskFor, LoadFails, Fail
    <3>4. ~(EvaluateAdd \/ EvaluateDelete \/ EvaluateFlush \/ EvaluateOther \/ EvaluateError
            \/ EvaluateDone)
      BY <1>1 DEF EvaluateAdd, EvaluateDelete, EvaluateFlush, EvaluateOther, EvaluateError,
                  EvaluateDone, Evaluating
    <3>5. ~(Queue \/ List \/ ListCrash \/ Reset \/ ResetCrash \/ ResetInterrupted \/ ResetFails)
      BY <1>1 DEF Queue, List, ListCrash, Reset, ResetCrash, ResetInterrupted, ResetFails, Doing
    <3>6. ~(Check \/ Commit \/ KernelRefuses)
      BY <1>1 DEF Check, Commit, KernelRefuses, Sending
    <3> QED BY <1>1, <3>1, <3>2, <3>3, <3>4, <3>5, <3>6 DEF Next, Step
  <2>2. CASE Reusable /\ UNCHANGED stored
    <3>1. Holds(kern) /\ flags \subseteq cflags
      BY <1>1, <2>2 DEF CacheInv, Truth, Reusable, Fit
    <3>2. Loads(Ask!Request) \subseteq Loads([flags |-> cflags, hide |-> {}])
      <4>1. Ask!Request = [flags |-> flags, hide |-> Ask!Request.hide]
        BY DEF Ask!Request
      <4>2. {"flushed", "terse"} \cap cflags = {}
        BY <1>1 DEF CacheInv, Requests
      <4> QED BY <3>1, <4>1, <4>2, LoadsMore
    <3> QED BY <2>2, <3>1, <3>2 DEF Holds, stored
  <2>3. CASE "flushed" \in flags /\ cache' = {}
    <3>1. Loads(Ask!Request) = {}
      BY <2>3 DEF Loads, Ask!Request
    <3> QED BY <2>3, <3>1
  <2> QED BY <2>1, <2>2, <2>3 DEF Load
<1>2. CacheInv /\ [Next]_vars =>
          [pc = "flags" /\ pc' = "eval" =>
              cache' \subseteq kern /\ kern \cap Loads(Ask!Request) \subseteq cache']_vars
  BY <1>1
<1>3. CacheInv /\ [Next]_vars => CacheInv'
  BY CacheInvStep
<1> QED BY <1>2, <1>3, CacheInvInit, PTL DEF Spec, EvaluationStartsTrue
-----------------------------------------------------------------------------
(***************************************************************************)
(* What is reported missing.  One cache is loaded for all commands of a    *)
(* run: what any of them may need is asked for (AskInv).  While they are   *)
(* evaluated, all of it that they will find in the kernel is in the cache, *)
(* but for what is flushed before (CopyInv), as long as no command before  *)
(* was one that the kernel would not accept.                               *)
(***************************************************************************)
Listing(cmd) == cmd.op = "list" /\ Ask!Narrows(cmd)
FlushesAll(cmd) == cmd.op = "flush" /\ cmd.obj = "ruleset"

\* The flags F ask for the item x.
AsksFor(F, x) ==
    IF KindOf[x] = "setelem" THEN "setelem" \in F \/ ("maybe" \in F /\ OwnerOf[x] \in Interval)
                             ELSE KindOf[x] \in F

\* What the commands looked through may need has been asked for; the filter
\* and the flush of everything are theirs.
AskInv ==
    /\ Orderly(input)
    /\ pc = "flags" =>
         /\ \A n \in 1..at : \A x \in MayNeed(input[n]) : AsksFor(flags, x)
         /\ list # Ask!NoList =>
               \E m \in 1..at : Listing(input[m]) /\ list = Ask!Filtered(Ask!NoList, input[m])
         /\ "flushed" \in flags => \E m \in 1..at : FlushesAll(input[m])

\* What the kernel flushes.
Flushed(cmd) ==
    IF cmd.op = "flush" /\ cmd.obj = "set" THEN Tree(cmd) \ Subjects(cmd)
    ELSE {x \in Item : FlushesAll(cmd)}

\* What a command to come needs, and finds in the kernel, is in the cache,
\* or will be flushed before it.
AtHand(n) ==
    \A x \in Needed(input[n]) \cap Before(base, at + 1) :
        x \in cache \/ \E m \in (at + 1)..(n - 1) : x \in Flushed(input[m])

FoundSoFar == \A n \in 1..at : Needed(input[n]) \subseteq Before(base, n)

CopyInv == pc = "eval" /\ FoundSoFar => \A n \in (at + 1)..Len(input) : AtHand(n)

\* What the names of a command are names of.
LEMMA Named ==
    ASSUME NEW cmd \in Ask!Commands
    PROVE  /\ cmd.op \in Ask!Ops /\ cmd.obj \in Ask!Objs /\ cmd.obj \in Ask!ObjsOf[cmd.op]
           /\ cmd.table \in Item \cup {Nothing} /\ cmd.name \in Item \cup {Nothing}
           /\ cmd.table \in Item => KindOf[cmd.table] = "table" /\ TableOf[cmd.table] = cmd.table
           /\ cmd.name \in Item => /\ cmd.obj \in DOMAIN Ask!NamedKind
                                   /\ KindOf[cmd.name] = Ask!NamedKind[cmd.obj]
                                   /\ TableOf[cmd.name] = cmd.table
           /\ cmd.refs \subseteq Item /\ \A x \in cmd.refs : KindOf[x] = "set"
BY NothingAssumption, ItemAssumption DEF Ask!Commands, Ask!WellFormed

\* Of elements, a command needs only those of sets of ranges.
LEMMA NeedKinds ==
    ASSUME NEW cmd \in Ask!Commands, NEW x \in MayNeed(cmd)
    PROVE  /\ x \in Item
           /\ KindOf[x] = "setelem" => x \in Deleted(cmd) /\ OwnerOf[x] = cmd.name /\ OwnerOf[x] \in Interval
           /\ KindOf[x] # "setelem" => x \in Ask!Needs(cmd, {"update"})
<1>1. CASE x \in Ask!Needs(cmd, {"update"})
  <2>1. x \in Item /\ x \in {cmd.table, cmd.name} \cup cmd.refs
    BY <1>1 DEF Ask!Needs, Ask!DeclarationNeeds, Ask!ElementsNeed, Ask!RuleNeeds, Ask!ListNeeds,
                Ask!ResetNeeds, Ask!FlushNeeds, Ask!RenameNeeds
  <2>2. KindOf[x] # "setelem"
    BY <2>1, Named DEF Ask!NamedKind
  <2> QED BY <1>1, <2>1, <2>2
<1>2. CASE x \in Deleted(cmd)
  BY <1>2 DEF Deleted, Subjects
<1> QED BY <1>1, <1>2 DEF MayNeed

\* More is not needed, whatever the cache has.
LEMMA NeedsLess == ASSUME NEW cmd PROVE Needed(cmd) \subseteq MayNeed(cmd)
BY DEF Needed, MayNeed, Ask!Needs, Ask!RuleNeeds, Ask!Updated

\* More flags ask for no less.
LEMMA AsksMore ==
    ASSUME NEW F, NEW G, F \subseteq G \/ G = Kinds, NEW x \in Item, AsksFor(F, x)
    PROVE  AsksFor(G, x)
BY ItemAssumption DEF AsksFor, Kinds

\* What a command asks for in nft_cache_evaluate.
AskedFor(cmd, F) ==
    \/ cmd.op \in {"add", "create", "insert"} /\ Ask!AddFlags(cmd) \subseteq F
    \/ cmd.op = "replace" /\ F = Kinds
    \/ cmd.op = "delete" /\ Ask!DeleteFlags(cmd) \subseteq F
    \/ cmd.op = "list" /\ \E filter : Ask!ListFlags(cmd, filter) \subseteq F
    \/ cmd.op = "flush" /\ Ask!FlushFlags(cmd) \subseteq F
    \/ cmd.op \in {"get", "reset", "rename", "monitor", "describe"} /\ Ask!OtherFlags(cmd) \subseteq F

\* It asks for all it may need.
LEMMA AsksForNeeds ==
    ASSUME NEW cmd \in Ask!Commands, NEW x \in MayNeed(cmd), NEW F, AskedFor(cmd, F)
    PROVE  AsksFor(F, x)
<1> USE DEF Ask!CHAIN, Ask!SET, Ask!FLOWTABLE, Ask!OBJECT, Ask!SETELEM, Ask!RULE, Ask!FULL, Ask!Kinds, Kinds
<1>1. CASE KindOf[x] = "setelem"
  <2>1. x \in Deleted(cmd) /\ OwnerOf[x] \in Interval
    BY <1>1, NeedKinds
  <2>2. cmd.op = "delete" /\ cmd.obj = "elements"
    BY <2>1 DEF Deleted
  <2>3. "maybe" \in F
    BY <2>2 DEF AskedFor, Ask!DeleteFlags
  <2> QED BY <1>1, <2>1, <2>3 DEF AsksFor
<1>2. CASE KindOf[x] # "setelem"
  <2>1. x \in Item /\ x \in Ask!Needs(cmd, {"update"})
    BY <1>2, NeedKinds
  <2>2. /\ x \in {cmd.table, cmd.name} \cup cmd.refs
        /\ x \in cmd.refs => KindOf[x] = "set"
        /\ x = cmd.table => KindOf[x] = "table"
        /\ x = cmd.name => cmd.obj \in DOMAIN Ask!NamedKind /\ KindOf[x] = Ask!NamedKind[cmd.obj]
    BY <2>1, Named DEF Ask!Needs, Ask!DeclarationNeeds, Ask!ElementsNeed, Ask!RuleNeeds, Ask!ListNeeds,
                       Ask!ResetNeeds, Ask!FlushNeeds, Ask!RenameNeeds
  <2>3. KindOf[x] \in F
    <3>1. CASE cmd.op \in {"add", "create", "insert"}
      <4>1. Ask!AddFlags(cmd) \subseteq F
        BY <3>1 DEF AskedFor
      <4>2. x = cmd.table \/ cmd.obj \in {"elements", "rule"}
        BY <2>1, <3>1 DEF Ask!Needs, Ask!DeclarationNeeds, Ask!ElementsNeed, Ask!RuleNeeds, Ask!Updated
      <4>3. cmd.obj \in {"chain", "set", "object", "flowtable", "elements", "rule"}
        BY <2>1, <3>1 DEF Ask!Needs, Ask!DeclarationNeeds, Ask!ElementsNeed, Ask!RuleNeeds, Ask!Updated
      <4>4. "table" \in F /\ (cmd.obj \in {"elements", "rule"} => {"chain", "set"} \subseteq F)
        BY <4>1, <4>3 DEF Ask!AddFlags
      <4> QED BY <2>2, <4>2, <4>3, <4>4 DEF Ask!NamedKind
    <3>2. CASE cmd.op = "replace"
      BY <2>1, <3>2, ItemAssumption DEF AskedFor
    <3>3. CASE cmd.op = "delete"
      <4>1. cmd.obj = "elements" /\ x \in {cmd.table, cmd.name}
        BY <2>1, <3>3 DEF Ask!Needs, Ask!ElementsNeed
      <4>2. Ask!DeleteFlags(cmd) \subseteq F
        BY <3>3 DEF AskedFor
      <4> QED BY <2>2, <4>1, <4>2 DEF Ask!DeleteFlags, Ask!NamedKind
    <3>4. CASE cmd.op = "list"
      <4>1. PICK filter : Ask!ListFlags(cmd, filter) \subseteq F
        BY <3>4 DEF AskedFor
      <4>2. "table" \in F
        BY <4>1 DEF Ask!ListFlags
      <4>3. x = cmd.table \/ (x = cmd.name /\ cmd.obj \in {"chain", "set", "flowtable", "object"})
        BY <2>1, <3>4 DEF Ask!Needs, Ask!ListNeeds
      <4>4. cmd.obj \in {"chain", "set", "flowtable", "object"} => cmd.obj \in F
        BY <4>1 DEF Ask!ListFlags
      <4> QED BY <2>2, <4>2, <4>3, <4>4 DEF Ask!NamedKind
    <3>5. CASE cmd.op = "flush"
      <4>1. cmd.obj = "set" /\ x \in {cmd.table, cmd.name}
        BY <2>1, <3>5 DEF Ask!Needs, Ask!FlushNeeds
      <4>2. Ask!FlushFlags(cmd) \subseteq F
        BY <3>5 DEF AskedFor
      <4> QED BY <2>2, <4>1, <4>2 DEF Ask!FlushFlags, Ask!NamedKind
    <3>6. CASE cmd.op \in {"get", "reset", "rename"}
      <4>1. Ask!OtherFlags(cmd) \subseteq F
        BY <3>6 DEF AskedFor
      <4>2. \/ cmd.op = "get" /\ cmd.obj = "elements" /\ x \in {cmd.table, cmd.name}
            \/ cmd.op = "reset" /\ x = cmd.table
            \/ cmd.op = "rename" /\ x \in {cmd.table, cmd.name}
        BY <2>1, <3>6 DEF Ask!Needs, Ask!ElementsNeed, Ask!ResetNeeds, Ask!RenameNeeds
      <4>3. cmd.op = "rename" => cmd.obj = "chain"
        BY Named DEF Ask!ObjsOf
      <4> QED BY <2>2, <4>1, <4>2, <4>3 DEF Ask!OtherFlags, Ask!NamedKind
    <3> QED BY <2>1, <3>1, <3>2, <3>3, <3>4, <3>5, <3>6 DEF Ask!Needs
  <2> QED BY <1>2, <2>3 DEF AsksFor
<1> QED BY <1>1, <1>2

\* One narrowed listing hides nothing that it needs itself.
LEMMA ShownToItself ==
    ASSUME NEW cmd \in Ask!Commands, Listing(cmd), list = Ask!Filtered(Ask!NoList, cmd), NEW x \in MayNeed(cmd)
    PROVE  ~Ask!HiddenByList(x)
<1>1. /\ list.table = cmd.table /\ cmd.table \in Item
      /\ list.chain = IF cmd.obj = "chain" THEN cmd.name ELSE Nothing
      /\ list.set = IF cmd.obj = "set" THEN cmd.name ELSE Nothing
      /\ list.ft = IF cmd.obj = "flowtable" THEN cmd.name ELSE Nothing
  BY Named DEF Listing, Ask!Filtered, Ask!NoList, Ask!Narrows
<1>2. x \in Item /\ KindOf[x] # "setelem" /\ x \in Ask!ListNeeds(cmd)
  BY NeedKinds DEF Listing, Deleted, Ask!Needs
<1>3. CASE x = cmd.table
  <2>1. KindOf[x] = "table" /\ TableOf[x] = cmd.table
    BY <1>1, <1>3, Named
  <2> QED BY <1>1, <2>1 DEF Ask!HiddenByList
<1>4. CASE x = cmd.name /\ cmd.obj \in {"chain", "set", "flowtable", "object"}
  <2>1. KindOf[x] = cmd.obj /\ TableOf[x] = cmd.table
    BY <1>2, <1>4, Named DEF Ask!NamedKind
  <2> QED BY <1>1, <1>2, <1>4, <2>1 DEF Ask!HiddenByList
<1> QED BY <1>2, <1>3, <1>4 DEF Ask!ListNeeds

\* There are not two listings that are narrowed.
LEMMA OneListing ==
    ASSUME input \in Seq(Ask!Commands), Orderly(input), NEW m \in DOMAIN input, NEW n \in DOMAIN input,
           Listing(input[m]), Listing(input[n])
    PROVE  m = n
<1> SUFFICES ASSUME m # n PROVE FALSE
  OBVIOUS
<1>1. input[n] \in Ask!Commands
  OBVIOUS
<1>2. input[n].table \in Item /\ input[n].obj \in {"table", "chain", "set", "flowtable"} /\ input[n].op = "list"
  BY <1>1, Named DEF Listing, Ask!Narrows
<1>3. input[n].table \in MayNeed(input[n])
  BY <1>2 DEF MayNeed, Ask!Needs, Ask!ListNeeds
<1>4. input[n].table \in Lacks(input[m])
  BY <1>2 DEF Lacks, Listing
<1>5. input[m].op # "flush"
  BY DEF Listing
<1> QED BY <1>3, <1>4, <1>5 DEF Orderly

\* Every round of nft_cache_evaluate asks for what its command may need.
LEMMA AskForAsks == CacheInv /\ AskInv /\ AskFor => AskInv'
<1> SUFFICES ASSUME CacheInv, AskInv, AskFor PROVE AskInv'
  OBVIOUS
<1> DEFINE cmd == input[at + 1]
<1>1. /\ input \in Seq(Ask!Commands) /\ at \in Nat /\ at + 1 \in DOMAIN input /\ cmd \in Ask!Commands
      /\ pc = "flags" /\ UNCHANGED input
  BY LenProperties DEF CacheInv, Plain, AskFor, job
<1>2. Orderly(input')
  BY <1>1 DEF AskInv
<1>3. CASE Fail
  BY <1>2, <1>3 DEF AskInv, Fail
<1>4. CASE /\ at' = at + 1 /\ UNCHANGED <<pc, rc>>
           /\ \/ Ask!Add(cmd) \/ Ask!Replace(cmd) \/ Ask!Delete(cmd)
              \/ Ask!List(cmd) \/ Ask!Flush(cmd) \/ Ask!Other(cmd)
  <2> USE DEF Ask!Evaluate, Ask!FULL, Ask!Kinds, Kinds
  <2>1. list' = Ask!Listed(cmd) /\ (flags \subseteq flags' \/ flags' = Kinds) /\ AskedFor(cmd, flags')
    <3>1. CASE Ask!Add(cmd)
      BY <3>1 DEF Ask!Add, AskedFor
    <3>2. CASE Ask!Replace(cmd)
      BY <3>2 DEF Ask!Replace, AskedFor
    <3>3. CASE Ask!Delete(cmd)
      BY <3>3 DEF Ask!Delete, AskedFor
    <3>4. CASE Ask!List(cmd)
      BY <3>4 DEF Ask!List, AskedFor
    <3>5. CASE Ask!Flush(cmd)
      BY <3>5 DEF Ask!Flush, AskedFor
    <3>6. CASE Ask!Other(cmd)
      BY <3>6 DEF Ask!Other, AskedFor
    <3> QED BY <1>4, <3>1, <3>2, <3>3, <3>4, <3>5, <3>6
  <2>2. "flushed" \in flags' => "flushed" \in flags \/ FlushesAll(cmd)
    <3> USE DEF Ask!CHAIN, Ask!SET, Ask!FLOWTABLE, Ask!OBJECT, Ask!SETELEM, Ask!RULE
    <3>1. CASE Ask!Add(cmd)
      BY <3>1 DEF Ask!Add, Ask!AddFlags, Ask!BodyFlags, Ask!PlacedRule
    <3>2. CASE Ask!Replace(cmd)
      BY <3>2 DEF Ask!Replace
    <3>3. CASE Ask!Delete(cmd)
      BY <3>3 DEF Ask!Delete, Ask!DeleteFlags
    <3>4. CASE Ask!List(cmd)
      <4>1. \A filter : "flushed" \notin Ask!ListFlags(cmd, filter)
        BY DEF Ask!ListFlags
      <4> QED BY <3>4, <4>1 DEF Ask!List
    <3>5. CASE Ask!Flush(cmd)
      BY <3>5 DEF Ask!Flush, Ask!FlushFlags, FlushesAll
    <3>6. CASE Ask!Other(cmd)
      BY <3>6 DEF Ask!Other, Ask!OtherFlags
    <3> QED BY <1>4, <3>1, <3>2, <3>3, <3>4, <3>5, <3>6
  <2> HIDE DEF Ask!Evaluate, Ask!FULL, Ask!Kinds, Kinds, cmd
  <2>3. \A n \in 1..at' : n \in 1..at \/ n = at + 1
    BY <1>1, <1>4
  <2>4. \A n \in 1..at : n \in 1..at' /\ n \in DOMAIN input
    BY <1>1, <1>4
  <2>5. at + 1 \in 1..at'
    BY <1>1, <1>4
  <2>6. ASSUME NEW n \in 1..at', NEW x \in MayNeed(input[n]) PROVE AsksFor(flags', x)
    <3>1. CASE n = at + 1
      BY <1>1, <2>1, <2>6, <3>1, AsksForNeeds DEF cmd
    <3>2. CASE n \in 1..at
      <4>1. AsksFor(flags, x)
        BY <1>1, <2>6, <3>2 DEF AskInv
      <4>2. input[n] \in Ask!Commands
        BY <1>1, <2>4, <3>2
      <4> QED BY <2>1, <2>6, <4>1, <4>2, AsksMore, NeedKinds
    <3> QED BY <2>3, <2>6, <3>1, <3>2
  <2>7. ASSUME list' # Ask!NoList
        PROVE  \E m \in 1..at' : Listing(input[m]) /\ list' = Ask!Filtered(Ask!NoList, input[m])
    <3>1. CASE ~Listing(cmd)
      <4>1. list' \in {list, Ask!NoList}
        BY <2>1, <3>1 DEF Ask!Listed, Ask!Filtered, Ask!Cleared, Listing
      <4> QED BY <1>1, <2>4, <2>7, <4>1 DEF AskInv
    <3>2. CASE Listing(cmd)
      <4>1. CASE list = Ask!NoList
        <5>1. list' = Ask!Filtered(Ask!NoList, cmd)
          BY <2>1, <4>1 DEF Ask!Listed, Ask!Cleared
        <5> QED BY <2>5, <3>2, <5>1 DEF cmd
      <4>2. CASE list # Ask!NoList
        <5>1. PICK m \in 1..at : Listing(input[m])
          BY <1>1, <4>2 DEF AskInv
        <5>2. m \in DOMAIN input /\ Listing(input[at + 1]) /\ Orderly(input)
          BY <2>4, <3>2 DEF AskInv, cmd
        <5>3. m = at + 1
          BY ONLY <1>1, <5>1, <5>2, OneListing
        <5> QED BY <1>1, <5>3
      <4> QED BY <4>1, <4>2
    <3> QED BY <3>1, <3>2
  <2>8. "flushed" \in flags' => \E m \in 1..at' : FlushesAll(input[m])
    BY <1>1, <2>2, <2>4, <2>5 DEF AskInv, cmd
  <2> QED BY <1>1, <1>2, <2>6, <2>7, <2>8 DEF AskInv
<1> QED BY <1>3, <1>4 DEF AskFor

\* No command has been looked through at first.
LEMMA AskInvInit == Init => AskInv
BY DEF Init, AskInv, Orderly

\* So does every step.
LEMMA AskInvStep == InputsOrderly /\ CacheInv /\ AskInv /\ [Next]_vars => AskInv'
<1> SUFFICES ASSUME InputsOrderly, CacheInv, AskInv, [Next]_vars PROVE AskInv'
  OBVIOUS
<1>1. CASE AskFor
  BY <1>1, AskForAsks
<1>2. ASSUME UNCHANGED <<pc, at, flags, list, input>> PROVE AskInv'
  BY <1>2 DEF AskInv
<1>3. ASSUME pc' # "flags", UNCHANGED input PROVE AskInv'
  BY <1>3 DEF AskInv
<1>4. ASSUME Begin, input' \in Inputs \/ UNCHANGED input PROVE AskInv'
  <2>1. pc' = "flags" /\ at' = 0 /\ flags' = {} /\ list' = Ask!NoList
    BY <1>4 DEF Begin, Forget
  <2>2. Orderly(input')
    BY <1>4 DEF AskInv, InputsOrderly
  <2> QED BY <2>1, <2>2 DEF AskInv
<1>5. CASE OthersCommit \/ Traffic \/ SetDryRun \/ SetOptimize \/ UNCHANGED vars
  BY <1>2, <1>5 DEF OthersCommit, Traffic, SetDryRun, SetOptimize, vars, job, asked
<1>6. CASE RunOnce \/ RunOptimized
  BY <1>4, <1>6 DEF RunOnce, RunOptimized, Run
<1>7. CASE FinishTrial
  BY <1>4, <1>7 DEF FinishTrial
<1>8. CASE Load \/ LoadFails \/ Finish
  BY <1>3, <1>8 DEF Load, LoadFails, Finish, Fail, job
<1>9. CASE EvaluateAdd \/ EvaluateDelete \/ EvaluateFlush \/ EvaluateOther \/ EvaluateError \/ EvaluateDone
  BY <1>3, <1>9 DEF EvaluateAdd, EvaluateDelete, EvaluateFlush, EvaluateOther, EvaluateError, EvaluateDone,
                    Evaluating, Evaluated, Fail, job
<1>10. CASE Queue \/ List \/ ListCrash \/ Reset \/ ResetCrash \/ ResetInterrupted \/ ResetFails
  BY <1>3, <1>10 DEF Queue, List, ListCrash, Reset, ResetCrash, ResetInterrupted, ResetFails, Doing, Done, Fail, job
<1>11. CASE Check \/ Commit \/ KernelRefuses
  BY <1>3, <1>11 DEF Check, Commit, KernelRefuses, Sending, Sent, Fail, job
<1> QED BY <1>1, <1>5, <1>6, <1>7, <1>8, <1>9, <1>10, <1>11 DEF Next, Step

(***************************************************************************)
(* The load.                                                               *)
(***************************************************************************)
LEMMA LoadFinds == CacheInv /\ AskInv /\ Load => CopyInv'
<1> SUFFICES ASSUME CacheInv, AskInv, Load PROVE CopyInv'
  OBVIOUS
<1>1. /\ pc = "flags" /\ pc' = "eval" /\ at = Len(input) /\ at' = 0 /\ base' = kern
      /\ UNCHANGED <<kern, input>>
  BY DEF Load, Asked, kernel, job
<1>2. /\ input \in Seq(Ask!Commands) /\ Len(input) \in Nat /\ DOMAIN input = 1..Len(input)
      /\ Orderly(input)
  BY LenProperties DEF CacheInv, Plain, AskInv
<1>3. (Before(base, at + 1))' = kern
  <2>1. Before(kern, 1) = kern
    BY <1>2, BeforeSteps
  <2>2. (Before(base, at + 1))' = Before(kern, 0 + 1)
    BY <1>1 DEF Before
  <2> QED BY <2>1, <2>2
<1>4. ASSUME NEW n \in 1..Len(input), NEW x \in MayNeed(input[n]), x \in kern, x \notin cache'
      PROVE  \E m \in 1..(n - 1) : x \in Flushed(input[m])
  <2>1. x \in Item /\ input[n] \in Ask!Commands /\ AsksFor(flags, x) /\ n \in DOMAIN input
    <3>1. input[n] \in Ask!Commands
      BY <1>2
    <3>2. AsksFor(flags, x)
      BY <1>1, <1>4 DEF AskInv
    <3> QED BY <1>2, <1>4, <3>1, <3>2, NeedKinds
  <2>2. ASSUME NEW m \in DOMAIN input, m # n, input[m].op = "flush" => n < m, x \in Lacks(input[m])
        PROVE  FALSE
    BY <1>2, <1>4, <2>1, <2>2 DEF Orderly
  <2>3. ASSUME NEW m \in DOMAIN input, m # n, input[m].op = "flush", x \in Lacks(input[m])
        PROVE  m \in 1..(n - 1)
    BY <1>2, <2>2, <2>3
  <2>4. CASE Reusable /\ UNCHANGED stored
    <3>1. Holds(kern) /\ flags \subseteq cflags /\ {"terse", "flushed"} \cap cflags = {}
      BY <1>1, <2>4 DEF CacheInv, Truth, Requests, Reusable, Fit
    <3>2. x \in Loads([flags |-> cflags, hide |-> {}])
      BY <2>1, <3>1 DEF Loads, LoadsElements, AsksFor
    <3> QED BY <1>4, <2>4, <3>1, <3>2 DEF Holds, stored
  <2>5. CASE "flushed" \in flags
    <3>1. PICK m \in 1..Len(input) : FlushesAll(input[m])
      BY <1>1, <2>5 DEF AskInv
    <3>2. m # n
      BY <1>4, <2>1, <3>1 DEF FlushesAll, MayNeed, Deleted, Ask!Needs, Ask!FlushNeeds
    <3>3. m \in 1..(n - 1)
      BY <1>2, <2>1, <2>3, <3>1, <3>2 DEF Lacks, FlushesAll
    <3>4. x \in Flushed(input[m])
      BY <2>1, <3>1 DEF Flushed, FlushesAll
    <3> QED BY <3>3, <3>4
  <2>6. CASE "flushed" \notin flags /\ cache' = kern \cap Loads(Ask!Request)
    <3>1. "terse" \notin flags
      BY DEF CacheInv, Requests
    <3>2. x \in Ask!Request.hide
      <4>1. Ask!Request = [flags |-> flags, hide |-> Ask!Request.hide]
        BY DEF Ask!Request
      <4>2. x \notin Loads(Ask!Request)
        BY <1>4, <2>6
      <4> QED BY <2>1, <2>6, <3>1, <4>1, <4>2 DEF Loads, LoadsElements, AsksFor
    <3>3. ~Ask!HiddenByList(x)
      <4>1. CASE list = Ask!NoList
        BY <4>1 DEF Ask!HiddenByList, Ask!NoList
      <4>2. CASE list # Ask!NoList
        <5>1. PICK m \in DOMAIN input : Listing(input[m]) /\ list = Ask!Filtered(Ask!NoList, input[m])
          BY <1>1, <1>2, <4>2 DEF AskInv
        <5>2. CASE m = n
          BY <1>4, <2>1, <5>1, <5>2, ShownToItself
        <5>3. CASE m # n
          BY <2>1, <2>2, <5>1, <5>3 DEF Lacks, Listing
        <5> QED BY <5>2, <5>3
      <4> QED BY <4>1, <4>2
    <3>4. KindOf[x] = "setelem" /\ OwnerOf[x] \in flushed
      BY <3>2, <3>3 DEF Ask!Request
    <3>5. PICK m \in DOMAIN input : /\ input[m].op = "flush" /\ input[m].obj = "set"
                                    /\ input[m].name = OwnerOf[x]
      BY <3>4 DEF CacheInv, Requests, Flushes
    <3>6. m # n
      BY <1>4, <2>1, <3>4, <3>5, NeedKinds DEF Deleted
    <3>7. m \in 1..(n - 1)
      BY <2>1, <2>3, <3>4, <3>5, <3>6 DEF Lacks
    <3>8. x \in Flushed(input[m])
      BY <2>1, <3>4, <3>5, InTree DEF Flushed
    <3> QED BY <3>7, <3>8
  <2> QED BY <2>4, <2>5, <2>6 DEF Load
<1>5. ASSUME NEW n \in 1..Len(input) PROVE AtHand(n)'
  <2>1. Needed(input[n])' \subseteq MayNeed(input[n])
    BY <1>1 DEF Needed, MayNeed, Ask!Needs, Ask!RuleNeeds, Ask!Updated
  <2>2. ASSUME NEW x \in Needed(input[n])' \cap kern, x \notin cache'
        PROVE  \E m \in 1..(n - 1) : x \in Flushed(input[m])
    BY <1>4, <2>1, <2>2
  <2>3. \A m : Flushed(input[m])' = Flushed(input[m])
    BY <1>1 DEF Flushed, FlushesAll, Tree, Subjects
  <2>4. \A m : m \in 1..(n - 1) <=> m \in (at' + 1)..(n - 1)
    BY <1>1
  <2> QED BY <1>1, <1>3, <2>2, <2>3, <2>4 DEF AtHand
<1> QED BY <1>1, <1>5 DEF CopyInv
(***************************************************************************)
(* The evaluation.                                                         *)
(***************************************************************************)
LEMMA FoundNow ==
    ASSUME CopyInv, pc = "eval", at \in Nat, Len(input) \in Nat, at < Len(input),
           \A n \in 1..(at + 1) : Needed(input[n]) \subseteq Before(base, n)
    PROVE  Found
<1>1. AtHand(at + 1)
  BY DEF CopyInv, FoundSoFar
<1>2. (at + 1)..((at + 1) - 1) = {}
  OBVIOUS
<1>3. at + 1 \in 1..(at + 1)
  OBVIOUS
<1> QED BY <1>1, <1>2, <1>3 DEF AtHand, Found, Cmd

\* A command evaluated leaves at hand what it does not take away.
LEMMA StepFinds ==
    ASSUME CopyInv, Plain, pc = "eval", at < Len(input), Evaluated,
           \A n \in DOMAIN input : \A x \in Needed(input[n]) \cap Applied(Before(base, at + 1), Cmd) :
               x \in cache' \/ (x \in Before(base, at + 1) /\ x \notin cache)
    PROVE  CopyInv'
<1> SUFFICES ASSUME FoundSoFar', NEW n \in (at' + 1)..Len(input') PROVE AtHand(n)'
  BY DEF CopyInv
<1> DEFINE B == Before(base, at + 1)
<1>1. /\ UNCHANGED <<cflags, input, base>> /\ at' = at + 1 /\ at \in Nat /\ Len(input) \in Nat
      /\ DOMAIN input = 1..Len(input) /\ input \in Seq(Ask!Commands) /\ at + 1 \in 1..Len(input)
      /\ n \in DOMAIN input /\ n \in (at + 1)..Len(input) /\ n \in ((at + 1) + 1)..Len(input)
  BY LenProperties DEF Evaluated, job, Plain
<1>2. \A m : Needed(input[m])' = Needed(input[m]) /\ Before(base, m)' = Before(base, m)'
             /\ Flushed(input[m])' = Flushed(input[m])
  BY <1>1 DEF Needed, Deleted, Subjects, Ask!Needs, Ask!RuleNeeds, Ask!Updated, Flushed, FlushesAll,
              Tree
<1>3. (Before(base, at + 1))' = Applied(B, Cmd)
  <2>1. (Before(base, at + 1))' = Before(base, (at + 1) + 1)
    BY <1>1 DEF Before
  <2>2. Before(base, (at + 1) + 1) = Applied(Before(base, at + 1), input[at + 1])
    BY <1>1, BeforeSteps
  <2> QED BY <2>1, <2>2 DEF Cmd
<1>4. \A m \in 1..at : Before(base, m)' = Before(base, m) /\ m \in 1..at'
  BY <1>1 DEF Before
<1>5. FoundSoFar
  BY <1>1, <1>2, <1>4 DEF FoundSoFar
<1>6. AtHand(n)
  BY <1>1, <1>5 DEF CopyInv
<1> SUFFICES ASSUME NEW x \in Needed(input[n]), x \in Applied(B, Cmd), x \notin cache'
             PROVE  \E m \in ((at + 1) + 1)..(n - 1) : x \in Flushed(input[m])
  BY <1>1, <1>2, <1>3 DEF AtHand
<1>7. x \in B /\ x \notin cache
  BY <1>1
<1>8. PICK m \in (at + 1)..(n - 1) : x \in Flushed(input[m])
  BY <1>6, <1>7 DEF AtHand
<1>9. m # at + 1
  <2> HIDE DEF B
  <2>1. x \notin Flushed(Cmd)
    BY DEF Flushed, FlushesAll, Applied
  <2> QED BY <1>8, <2>1 DEF Cmd
<1>10. m \in ((at + 1) + 1)..(n - 1)
  BY <1>1, <1>8, <1>9
<1> QED BY <1>8, <1>10

\* The cache takes an evaluated command as the kernel will.
LEMMA EvaluateFinds ==
    /\ CacheInv /\ CopyInv
    /\ EvaluateAdd \/ EvaluateDelete \/ EvaluateFlush \/ EvaluateOther \/ EvaluateError \/ EvaluateDone
    => CopyInv'
<1> SUFFICES ASSUME CacheInv, CopyInv, EvaluateAdd \/ EvaluateDelete \/ EvaluateFlush \/ EvaluateOther
                                       \/ EvaluateError \/ EvaluateDone
             PROVE  CopyInv'
  OBVIOUS
<1> DEFINE B == Before(base, at + 1)
<1>1. Plain /\ input \in Seq(Ask!Commands) /\ Len(input) \in Nat /\ at \in Nat
  BY LenProperties DEF CacheInv, Plain
<1>2. CASE EvaluateAdd
  <2>1. /\ pc = "eval" /\ at < Len(input) /\ Evaluated /\ Cmd.op \in {"add", "create"}
        /\ cache' = cache \cup {x \in Subjects(Cmd) : Cmd.obj = "elements" => Cmd.name \in Interval}
    BY <1>2 DEF EvaluateAdd, Evaluating
  <2>2. ASSUME NEW n \in DOMAIN input, NEW x \in Needed(input[n]), x \in Applied(B, Cmd)
        PROVE  x \in cache' \/ (x \in B /\ x \notin cache)
    <3>1. x \in B \/ x \in Subjects(Cmd)
      BY <2>1, <2>2 DEF Applied
    <3>2. ASSUME x \in Subjects(Cmd), Cmd.obj = "elements" PROVE Cmd.name \in Interval
      <4>1. KindOf[x] = "setelem" /\ OwnerOf[x] = Cmd.name
        BY <3>2 DEF Subjects
      <4>2. input[n] \in Ask!Commands /\ x \in MayNeed(input[n])
        BY <1>1, <2>2, NeedsLess
      <4> QED BY <4>1, <4>2, NeedKinds
    <3> QED BY <2>1, <3>1, <3>2
  <2> QED BY <1>1, <2>1, <2>2, StepFinds
<1>3. CASE EvaluateDelete
  <2>1. /\ pc = "eval" /\ at < Len(input) /\ Evaluated /\ Cmd.op = "delete"
        /\ cache \ Tree(Cmd) \subseteq cache'
    BY <1>3 DEF EvaluateDelete, Evaluating
  <2>2. Applied(B, Cmd) = B \ Tree(Cmd)
    BY <2>1 DEF Applied
  <2> QED BY <1>1, <2>1, <2>2, StepFinds
<1>4. CASE EvaluateFlush
  <2>1. /\ pc = "eval" /\ at < Len(input) /\ Evaluated /\ Cmd.op = "flush"
        /\ cache' = cache \ {x \in Tree(Cmd) : Cmd.obj = "set" /\ x \notin Subjects(Cmd)}
    BY <1>4 DEF EvaluateFlush, Evaluating
  <2>2. ASSUME NEW x \in Applied(B, Cmd) PROVE x \in cache' \/ (x \in B /\ x \notin cache)
    BY <2>1, <2>2 DEF Applied
  <2> QED BY <1>1, <2>1, <2>2, StepFinds
<1>5. CASE EvaluateOther
  <2>1. /\ pc = "eval" /\ at < Len(input) /\ Evaluated /\ Cmd.op \in {"list", "reset"} /\ cache' = cache
    BY <1>5 DEF EvaluateOther, Evaluating
  <2>2. Applied(B, Cmd) = B
    BY <2>1 DEF Applied
  <2> QED BY <1>1, <2>1, <2>2, StepFinds
<1>6. CASE EvaluateError
  <2>1. /\ pc = "eval" /\ at < Len(input) /\ at' = at + 1 /\ UNCHANGED <<cflags, input, base>> /\ ~Found
    BY <1>6 DEF EvaluateError, Evaluating, Evaluated, job
  <2>2. ~FoundSoFar'
    <3>1. PICK n \in 1..(at + 1) : ~(Needed(input[n]) \subseteq Before(base, n))
      BY <1>1, <2>1, FoundNow
    <3>2. Needed(input[n])' = Needed(input[n]) /\ Before(base, n)' = Before(base, n)
      BY <2>1 DEF Needed, Deleted, Subjects, Ask!Needs, Ask!RuleNeeds, Ask!Updated, Before
    <3> QED BY <2>1, <3>1, <3>2 DEF FoundSoFar
  <2> QED BY <2>2 DEF CopyInv
<1>7. CASE EvaluateDone
  BY <1>7 DEF EvaluateDone, CopyInv, Fail
<1> QED BY <1>2, <1>3, <1>4, <1>5, <1>6, <1>7

\* Whatever others commit meanwhile.
LEMMA CopyInvStep == CacheInv /\ AskInv /\ CopyInv /\ [Next]_vars => CopyInv'
<1> SUFFICES ASSUME CacheInv, AskInv, CopyInv, [Next]_vars PROVE CopyInv'
  OBVIOUS
<1>1. ASSUME pc' # "eval" PROVE CopyInv'
  BY <1>1 DEF CopyInv
<1>2. ASSUME UNCHANGED <<cache, cflags, input, base, pc, at>> PROVE CopyInv'
  BY <1>2 DEF CopyInv, FoundSoFar, AtHand, Needed, Deleted, Subjects, Ask!Needs, Ask!RuleNeeds, Ask!Updated,
              Before, Flushed, FlushesAll, Tree
<1>3. CASE OthersCommit \/ Traffic \/ SetDryRun \/ SetOptimize \/ UNCHANGED vars
  BY <1>2, <1>3 DEF OthersCommit, Traffic, SetDryRun, SetOptimize, vars, stored, job
<1>4. CASE RunOnce \/ RunOptimized \/ FinishTrial
  BY <1>1, <1>4 DEF RunOnce, RunOptimized, Run, FinishTrial, Begin
<1>5. CASE AskFor
  BY <1>1, <1>5 DEF AskFor, Fail
<1>6. CASE LoadFails \/ Finish
  BY <1>1, <1>6 DEF LoadFails, Finish, Fail
<1>7. CASE Queue \/ List \/ ListCrash \/ Reset \/ ResetCrash \/ ResetInterrupted \/ ResetFails
  BY <1>1, <1>7 DEF Queue, List, ListCrash, Reset, ResetCrash, ResetInterrupted, ResetFails, Doing, Done, Fail
<1>8. CASE Check \/ Commit \/ KernelRefuses
  BY <1>1, <1>8 DEF Check, Commit, KernelRefuses, Sending, Sent, Fail
<1> QED BY <1>3, <1>4, <1>5, <1>6, <1>7, <1>8, LoadFinds, EvaluateFinds DEF Next, Step

(***************************************************************************)
(* As long as there are no dry runs, and no command of a run stands in the *)
(* way of another one: nothing is reported missing but for a command that  *)
(* names what would not be there for the kernel either, whatever the       *)
(* commands before have done to the cache and whoever commits meanwhile.   *)
(***************************************************************************)
THEOREM RefusalsJustified == ASSUME NoDryRuns, InputsOrderly PROVE Spec => RefusalJustified
<1>1. ASSUME CacheInv, CopyInv, [Next]_vars, nerrs' > nerrs
      PROVE  \E n \in 1..(at + 1) : ~(Needed(input[n]) \subseteq Before(base, n))
  <2>1. nerrs \in Nat /\ at \in Nat /\ Len(input) \in Nat
    <3>1. nerrs \in Nat /\ at \in Nat /\ input \in Seq(Ask!Commands)
      BY <1>1 DEF CacheInv, Plain
    <3> QED BY <3>1, LenProperties
  <2>2. ASSUME ~EvaluateError PROVE FALSE
    <3>1. nerrs' # nerrs /\ nerrs' # 0
      BY <1>1, <2>1
    <3>2. ~(OthersCommit \/ Traffic \/ SetDryRun \/ SetOptimize \/ RunOnce \/ RunOptimized \/ UNCHANGED vars)
      BY <3>1 DEF OthersCommit, Traffic, SetDryRun, SetOptimize, RunOnce, RunOptimized, Run, Begin, vars
    <3>3. ~(AskFor \/ Load \/ LoadFails \/ Finish \/ FinishTrial)
      BY <3>1 DEF AskFor, Load, LoadFails, Finish, FinishTrial, Begin
    <3>4. ~(EvaluateAdd \/ EvaluateDelete \/ EvaluateFlush \/ EvaluateOther \/ EvaluateDone)
      BY <3>1 DEF EvaluateAdd, EvaluateDelete, EvaluateFlush, EvaluateOther, EvaluateDone
    <3>5. ~(Queue \/ List \/ ListCrash \/ Reset \/ ResetCrash \/ ResetInterrupted \/ ResetFails)
      BY <3>1 DEF Queue, List, ListCrash, Reset, ResetCrash, ResetInterrupted, ResetFails
    <3>6. ~(Check \/ Commit \/ KernelRefuses)
      BY <3>1 DEF Check, Commit, KernelRefuses, Sent
    <3> QED BY <1>1, <2>2, <3>2, <3>3, <3>4, <3>5, <3>6 DEF Next, Step
  <2>3. pc = "eval" /\ at < Len(input) /\ ~Found
    BY <2>2 DEF EvaluateError, Evaluating
  <2> QED BY <1>1, <2>1, <2>3, FoundNow
<1>2. CacheInv /\ CopyInv /\ [Next]_vars =>
          [nerrs' > nerrs => \E n \in 1..(at + 1) : ~(Needed(input[n]) \subseteq Before(base, n))]_vars
  BY <1>1
<1>3. CacheInv /\ [Next]_vars => CacheInv'
  BY CacheInvStep
<1>4. CacheInv /\ AskInv /\ [Next]_vars => AskInv'
  BY AskInvStep
<1>5. Init => CopyInv
  BY DEF Init, CopyInv
<1> QED BY <1>2, <1>3, <1>4, <1>5, CacheInvInit, AskInvInit, CopyInvStep, PTL DEF Spec, RefusalJustified
=============================================================================
