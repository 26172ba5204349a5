-------------------------------- MODULE Batch --------------------------------
(***************************************************************************)
(* Runs of one context from their commands to their errors: the talks of   *)
(* the cache update, the list of commands on its way into the batch        *)
(* (CmdList), mnl_batch_talk (src/mnl.c), and the loop of nft_netlink      *)
(* (src/libnftables.c) that finds the command an error of the kernel       *)
(* belongs to; with JSON, the association of the kernel's notifications    *)
(* with the input (src/parser_json.c).                                     *)
(*                                                                         *)
(* All of it shares one socket.  The kernel answers while a request is     *)
(* being sent, so that a talk finds its answer in the socket's queue,      *)
(* behind whatever an earlier talk has left there.  The queue may overrun  *)
(* (the kernel drops the rest of an answer, and the next receive fails     *)
(* with ENOBUFS), and a signal may interrupt the wait for it.              *)
(***************************************************************************)
EXTENDS CmdList, FiniteSets

CONSTANTS
    Inputs,     \* sequences of commands a run may be given
    Modes,      \* "plain", "echo", "json" (JSON input with echo)
    MaxErrors,  \* parser_max_errors
    MaxRuns,    \* bound: runs of the context
    MaxFaults,  \* bound: overruns and signals
    Unset       \* UINT32_MAX, larger than any sequence number

\* Sets with a body or elements, and declared tables, are as the parser gives
\* them; nothing is numbered or merged yet.
ASSUME InputAssumption ==
    \A i \in Inputs :
        /\ i \in Seq(Single({0}))
        /\ \A n \in DOMAIN i : \A k \in DOMAIN i[n].elems : i[n].elems[k].cmd = 0

ASSUME BatchAssumption == MaxErrors \in Nat \ {0} /\ MaxRuns \in Nat /\ MaxFaults \in Nat /\ Unset \in Nat

VARIABLES
    pc, run, mode,
    input,          \* the commands as they were given
    cmds, at,       \* the list of commands, those evaluated or sent
    nerrs, rc,
    queue, overrun, \* the socket: messages to receive, ENOBUFS to be reported
    cseq,           \* nft->cache.seqnum
    loads, cached,  \* how much this run needs of the cache, and what it has
    batch,          \* the messages sent, in their order
    errs,           \* err_list
    pos, last,      \* cmd and last_seqnum of the loop in nft_netlink
    assoc, handles, \* json_cmd_assoc_list and its hash; handles noted in JSON
    reports,        \* history: errors reported, with the command
    committed,      \* history: the kernel took the batch of this run
    faults,         \* history: overruns and signals so far
    spoilt          \* history: a run with JSON input and echo has failed

given == <<run, mode, input>>
list == <<cmds, at, nerrs>>
socket == <<queue, overrun, faults>>
cachevars == <<cseq, loads, cached>>
loop == <<errs, pos, last, reports>>
json == <<assoc, handles, spoilt>>
vars == <<pc, given, list, rc, socket, cachevars, batch, loop, json, committed>>

Init ==
    /\ pc = "idle" /\ run = 0 /\ mode = "plain"
    /\ input = <<>> /\ cmds = <<>> /\ at = 0 /\ nerrs = 0 /\ rc = 0
    /\ queue = <<>> /\ overrun = FALSE /\ faults = 0
    /\ cseq = 0 /\ loads = "empty" /\ cached = "none"
    /\ batch = <<>> /\ committed = FALSE
    /\ errs = <<>> /\ pos = 1 /\ last = Unset /\ reports = {}
    /\ assoc = {} /\ handles = {} /\ spoilt = FALSE

Fail == pc' = "finish" /\ rc' = -1

ErrorsBefore == 0

(***************************************************************************)
(* A run begins.  json_cmd_assoc_add notes which command an element of the *)
(* JSON input has become; what a run that failed has noted is still there. *)
(***************************************************************************)
Begin ==
    /\ pc = "idle" /\ run < MaxRuns
    /\ run' = run + 1 /\ nerrs' = ErrorsBefore
    /\ \E i \in Inputs :
          /\ input' = [n \in DOMAIN i |-> [i[n] EXCEPT !.id = n]]
          /\ cmds' = input'
    /\ mode' \in Modes
    /\ assoc' = IF mode' = "json" THEN assoc \cup {[run |-> run', id |-> n] : n \in DOMAIN cmds'}
                ELSE assoc
    /\ pc' = "genid" /\ at' = 0 /\ rc' = 0
    /\ cseq' = cseq + 1
    /\ loads' \in IF mode' = "plain" THEN {"empty", "full"} ELSE {"full"}
    /\ batch' = <<>> /\ committed' = FALSE
    /\ errs' = <<>> /\ pos' = 1 /\ last' = Unset /\ reports' = {}
    /\ handles' = {}
    /\ UNCHANGED <<socket, cached, spoilt>>

-----------------------------------------------------------------------------
(***************************************************************************)
(* nft_mnl_talk: the answer joins the queue; messages are received up to   *)
(* the first that ends the talk: the last one of the answer, an error, or  *)
(* one of another talk (EPROTO).  A number 0 matches any.                  *)
(***************************************************************************)
Reply(kind, s) == [kind |-> kind, seq |-> s, run |-> 0, cmd |-> 0, off |-> 0, at |-> {}]

SeqOk(m, s) == m.seq = 0 \/ s = 0 \/ m.seq = s

\* Variant: the first object ends a dump.
ReceivedShort(q, s) ==
    LET ends == {n \in DOMAIN q : q[n].kind \in {"error", "object", "done"}}
    IN  IF ends = {} THEN Len(q) ELSE CHOOSE n \in ends : \A k \in ends : n <= k

Received(q, s) ==
    LET Ends(n) == ~SeqOk(q[n], s) \/ q[n].kind \in {"error", "done"}
        ends == {n \in DOMAIN q : Ends(n)}
    IN  IF ends = {} THEN Len(q) ELSE CHOOSE n \in ends : \A k \in ends : n <= k

Talk(q, answer, s) ==
    LET all == q \o answer
        n == Received(all, s)
    IN  [queue |-> SubSeq(all, n + 1, Len(all)),
         ok |-> n > 0 /\ SeqOk(all[n], s) /\ all[n].kind = "done"]

\* The number the talk was given: cache->seqnum++.
TalkSeq == cseq - 1

Talks(answer) ==
    IF overrun THEN [queue |-> queue \o answer, ok |-> FALSE] ELSE Talk(queue, answer, TalkSeq)

(***************************************************************************)
(* nft_cache_update.  "Skip error checking" of mnl_genid_get: when it      *)
(* fails, the generation is what it was.                                   *)
(***************************************************************************)
GenidGet(next) ==
    /\ queue' = Talks(<<Reply("gen", TalkSeq)>>).queue /\ overrun' = FALSE
    /\ pc' = next
    /\ UNCHANGED <<given, list, rc, faults, cachevars, batch, loop, json, committed>>

Reusable == cached \in {"full", loads}

Genid == pc = "genid" /\ \E next \in {"dump"} \cup (IF Reusable THEN {"collapse"} ELSE {}) : GenidGet(next)

\* One dump stands for all; none is made when nothing is asked for.
Dump ==
    /\ pc = "dump"
    /\ IF loads = "empty" THEN pc' = "stop" /\ UNCHANGED <<socket, rc>>
       ELSE LET talk == Talks(<<Reply("object", TalkSeq), Reply("done", TalkSeq)>>)
            IN  /\ queue' = talk.queue /\ overrun' = FALSE /\ UNCHANGED faults
                /\ IF talk.ok THEN pc' = "stop" /\ UNCHANGED rc ELSE Fail
    /\ UNCHANGED <<given, list, cachevars, batch, loop, json, committed>>

GenidStop == pc = "stop" /\ GenidGet("collapse")

-----------------------------------------------------------------------------
(***************************************************************************)
(* nft_evaluate: collapse, evaluate one after the other, uncollapse,       *)
(* expand.                                                                 *)
(***************************************************************************)
CollapseAll ==
    /\ pc = "collapse"
    /\ cmds' = Collapse(cmds)
    /\ pc' = "eval"
    /\ UNCHANGED <<given, at, nerrs, rc, socket, cachevars, batch, loop, json, committed>>

\* The elements when they have been evaluated: a set among them (of a
\* variable) is replaced by its elements, which belong to no command;
\* neighbours of an interval set are merged.
Evaluated(elems) ==
    {elems}
    \cup {[elems EXCEPT ![n].cmd = 0] : n \in DOMAIN elems}
    \cup {[k \in 1..(Len(elems) - 1) |->
              IF k < n THEN elems[k]
              ELSE IF k = n THEN [elems[n] EXCEPT !.keys = @ \cup elems[n + 1].keys]
              ELSE elems[k + 1]] : n \in 1..(Len(elems) - 1)}

\* What was merged with elements of the kernel is deleted by a command that
\* is put before the one that adds.
Purge(c) == [Cmd("delete", "elements", c.name) EXCEPT !.elems = <<Elem({"old"})>>]

Evaluate ==
    /\ pc = "eval" /\ at < Len(cmds)
    /\ LET c == cmds[at + 1] IN
       IF AddsElements(c)
       THEN \E elems \in Evaluated(c.elems) :
               \/ cmds' = [cmds EXCEPT ![at + 1].elems = elems] /\ at' = at + 1
               \/ /\ c.op = "add"
                  /\ cmds' = SubSeq(cmds, 1, at) \o <<Purge(c), [c EXCEPT !.elems = elems]>>
                             \o SubSeq(cmds, at + 2, Len(cmds))
                  /\ at' = at + 2
       ELSE at' = at + 1 /\ UNCHANGED cmds
    /\ UNCHANGED <<pc, given, nerrs, rc, socket, cachevars, batch, loop, json, committed>>

EvaluateFails ==
    /\ pc = "eval" /\ at < Len(cmds)
    /\ nerrs' = nerrs + 1 /\ at' = at + 1
    /\ pc' = IF nerrs' = MaxErrors THEN "uncollapse" ELSE "eval"
    /\ UNCHANGED <<given, cmds, rc, socket, cachevars, batch, loop, json, committed>>

UncollapseAll ==
    /\ (pc = "uncollapse" \/ (pc = "eval" /\ at = Len(cmds)))
    /\ at' = 0
    /\ IF nerrs = 0 THEN cmds' = ExpandAll(Uncollapse(cmds)) /\ pc' = "send" /\ UNCHANGED rc
       ELSE cmds' = Uncollapse(cmds) /\ Fail
    /\ UNCHANGED <<given, nerrs, socket, cachevars, batch, loop, json, committed>>

-----------------------------------------------------------------------------
(***************************************************************************)
(* nft_netlink: the batch.  Its first message has the number 0, the n-th   *)
(* command and all messages made of it n.                                  *)
(***************************************************************************)
\* Variant: every message gets a number of its own, whatever its command.
NumberedApart(n) ==
    LET before == FlattenSeq([k \in 1..(n - 1) |-> Messages(cmds[k])])
        own == Messages(cmds[n])
    IN  [k \in DOMAIN own |-> [msg |-> own[k], seq |-> Len(before) + k]]

Numbered(n) ==
    LET own == Messages(cmds[n]) IN [k \in DOMAIN own |-> [msg |-> own[k], seq |-> n]]

Send ==
    /\ pc = "send"
    /\ batch' = FlattenSeq([n \in DOMAIN cmds |-> Numbered(n)])
    /\ pc' = IF batch' = <<>> THEN "finish" ELSE "kernel"
    /\ UNCHANGED <<given, list, rc, socket, cachevars, loop, json, committed>>

\* A command cannot be carried out, or sendmsg fails.
SendFails ==
    /\ pc \in {"send", "kernel"}
    /\ Fail /\ batch' = <<>>
    /\ UNCHANGED <<given, list, socket, cachevars, loop, json, committed>>

(***************************************************************************)
(* The kernel (external) takes the batch or says of each message that it   *)
(* refuses what is wrong with it, pointing at an attribute when it can.    *)
(* Without the rights, there is one error, about the batch.                *)
(***************************************************************************)
Makes(m) == IF m.op \in {"add", "create"} /\ m.obj # "elements" THEN {m.name} ELSE {}

Unresolved == {n \in DOMAIN batch :
    ~(batch[n].msg.needs \subseteq UNION {Makes(batch[k].msg) : k \in 1..(n - 1)})}

Error(n, off) ==
    [kind |-> "error", seq |-> batch[n].seq, run |-> run, cmd |-> batch[n].msg.cmd, off |-> off,
     at |-> IF off = 0 THEN {} ELSE batch[n].msg.attrs[off]]

\* The errors about the refused messages, in any order.
ErrorsOf(refused) ==
    LET first == CHOOSE n \in refused : \A k \in refused : n <= k
        rest == refused \ {first}
        Of1(n) == {<<Error(n, off)>> : off \in {0, Len(batch[n].msg.attrs)}}
    IN  IF rest = {} THEN Of1(first)
        ELSE LET others == Of1(CHOOSE n \in rest : TRUE)
             IN  UNION {{e \o f, f \o e} : e \in Of1(first), f \in others}

WholeBatch == [Reply("error", 0) EXCEPT !.run = run]

\* Notifications have the numbers of the messages they are about.
HasHandle(m) == m.op \in {"add", "create", "insert"} /\ m.obj # "elements"

Event(n) == [Reply("event", batch[n].seq) EXCEPT !.run = run, !.cmd = batch[n].msg.cmd]

Events ==
    IF mode = "plain" THEN <<>>
    ELSE Picked([n \in DOMAIN batch |-> Event(n)], {n \in DOMAIN batch : HasHandle(batch[n].msg)})

Deliver(answer) ==
    \/ queue' = queue \o answer /\ UNCHANGED <<overrun, faults>>
    \/ /\ faults < MaxFaults /\ answer # <<>>
       /\ queue' = queue \o SubSeq(answer, 1, Len(answer) - 1)
       /\ overrun' = TRUE /\ faults' = faults + 1

KernelTakes ==
    /\ pc = "kernel" /\ Unresolved = {}
    /\ committed' = TRUE /\ pc' = "receive"
    /\ Deliver(Events)
    /\ UNCHANGED <<given, list, rc, cachevars, batch, loop, json>>

KernelRefuses ==
    /\ pc = "kernel"
    /\ pc' = "receive"
    /\ \/ Deliver(<<WholeBatch>>)
       \/ \E refused \in SUBSET DOMAIN batch :
             /\ refused # {} /\ Cardinality(refused) <= 2
             /\ Unresolved \subseteq refused
             /\ \E answer \in ErrorsOf(refused) : Deliver(answer)
    /\ UNCHANGED <<given, list, rc, cachevars, batch, loop, json, committed>>

(***************************************************************************)
(* The loop of mnl_batch_talk: messages of any number are taken, until     *)
(* there is none.                                                          *)
(***************************************************************************)
Here == [run |-> run, id |-> 0]

\* seqnum_to_json looks at the numbers of the commands, which is anything
\* when the command was one of a run before and has been freed.
Stale == {a \in assoc : a.run # run}

Found(seq) ==
    Stale \cup {a \in assoc : a.run = run /\ seq \in DOMAIN cmds /\ cmds[seq].id = a.id}

EchoJson(m) ==
    IF Found(m.seq) = {} THEN UNCHANGED handles
    ELSE \E a \in Found(m.seq) :
            handles' = handles \cup {[json |-> a, event |-> [run |-> m.run, id |-> m.cmd]]}

Receive ==
    /\ pc = "receive" /\ ~overrun /\ queue # <<>>
    /\ queue' = Tail(queue)
    /\ LET m == Head(queue) IN
       /\ errs' = IF m.kind = "error" THEN Append(errs, m) ELSE errs
       /\ IF m.kind = "event" /\ mode = "json" THEN EchoJson(m) ELSE UNCHANGED handles
    /\ UNCHANGED <<pc, given, list, rc, overrun, faults, cachevars, batch, pos, last, reports, assoc, spoilt, committed>>

\* Variant: the error of recvfrom is passed over.
ReceiveGoesOn ==
    /\ pc = "receive" /\ overrun
    /\ overrun' = FALSE
    /\ UNCHANGED <<pc, rc, given, list, queue, faults, cachevars, batch, loop, json, committed>>

\* recvfrom fails with ENOBUFS and has then reported it.
ReceiveFails ==
    /\ pc = "receive" /\ overrun
    /\ overrun' = FALSE
    /\ Fail
    /\ UNCHANGED <<given, list, queue, faults, cachevars, batch, loop, json, committed>>

\* select fails with EINTR.
Signal ==
    /\ pc = "receive" /\ faults < MaxFaults
    /\ faults' = faults + 1
    /\ Fail
    /\ UNCHANGED <<given, list, queue, overrun, cachevars, batch, loop, json, committed>>

AllReceived ==
    /\ pc = "receive" /\ ~overrun /\ queue = <<>>
    /\ IF errs = <<>> THEN pc' = "finish" /\ UNCHANGED rc ELSE pc' = "attribute" /\ rc' = -1
    /\ UNCHANGED <<given, list, socket, cachevars, batch, loop, json, committed>>

-----------------------------------------------------------------------------
(***************************************************************************)
(* The loop of nft_netlink over the errors.  The search for the command    *)
(* goes on where it has ended for the error before, unless the number is   *)
(* lower than the last one looked at.  nft_cmd_error points at the last    *)
(* attribute of the command that has the offset of the error; when that is *)
(* a name of a rule's that does not exist, it updates the cache, to look   *)
(* for a similar one.                                                      *)
(***************************************************************************)
\* Variant: the place of an attribute is noted after it was put.
AttributesAfter(n) ==
    FlattenSeq([k \in DOMAIN Messages(cmds[n]) |->
        [j \in DOMAIN Messages(cmds[n])[k].attrs |-> [off |-> j + 1, at |-> Messages(cmds[n])[k].attrs[j]]]])

Attributes(n) ==
    FlattenSeq([k \in DOMAIN Messages(cmds[n]) |->
        [j \in DOMAIN Messages(cmds[n])[k].attrs |-> [off |-> j, at |-> Messages(cmds[n])[k].attrs[j]]]])

Location(n, e) ==
    LET same == {k \in DOMAIN Attributes(n) : e.off # 0 /\ Attributes(n)[k].off = e.off}
    IN  IF same = {} THEN {} ELSE Attributes(n)[CHOOSE k \in same : \A j \in same : j <= k].at

Report(n, e) == [err |-> e, cmd |-> cmds[n].id, seq |-> n, at |-> Location(n, e)]

\* Variant: the search is not begun anew for a lower number.
SearchOn(e) == pos

SearchFrom(e) == IF e.seq < last THEN 1 ELSE pos

Attribute ==
    /\ pc = "attribute" /\ errs # <<>>
    /\ LET e == Head(errs)
           looked == SearchFrom(e)..Len(cmds)
           hits == {n \in looked : e.seq \in {n, 0}}
           found == e.seq \in looked
       IN  /\ reports' = reports \cup {Report(n, e) : n \in hits}
           /\ pos' = IF found THEN e.seq ELSE Len(cmds) + 1
           /\ last' = IF found THEN e.seq ELSE Unset
           /\ \/ UNCHANGED cseq
              \/ /\ \E n \in hits : cmds[n].obj = "rule" /\ Location(n, e) # {}
                 /\ cseq' = cseq + 1
    /\ errs' = Tail(errs)
    /\ UNCHANGED <<pc, given, list, rc, socket, loads, cached, batch, json, committed>>

AllAttributed ==
    /\ pc = "attribute" /\ errs = <<>>
    /\ pc' = "finish"
    /\ UNCHANGED <<given, list, rc, socket, cachevars, batch, loop, json, committed>>

(***************************************************************************)
(* The end of nft_run_cmd_from_buffer: the commands are freed; success     *)
(* prints the JSON input with its handles, failure releases the cache.     *)
(***************************************************************************)
\* Variant: json_print_echo leaves json_cmd_assoc_list alone.
KeepAssoc == assoc

AssocAfter == IF rc = 0 /\ mode = "json" THEN {} ELSE assoc

Finish ==
    /\ pc = "finish"
    /\ pc' = "idle"
    /\ assoc' = AssocAfter
    /\ spoilt' = (spoilt \/ (rc # 0 /\ mode = "json"))
    /\ cached' = IF rc = 0 THEN loads ELSE "none"
    /\ UNCHANGED <<given, list, rc, socket, cseq, loads, batch, loop, handles, committed>>

Next ==
    \/ Begin \/ Genid \/ Dump \/ GenidStop
    \/ CollapseAll \/ Evaluate \/ EvaluateFails \/ UncollapseAll
    \/ Send \/ SendFails \/ KernelTakes \/ KernelRefuses
    \/ Receive \/ ReceiveFails \/ Signal \/ AllReceived
    \/ Attribute \/ AllAttributed \/ Finish

Spec == Init /\ [][Next]_vars

-----------------------------------------------------------------------------
\* Commands as the kernel tells them apart: elements added to one set one
\* after the other are one thing, whatever is nft's own is left out.  (Blocks
\* folds with a recursive function.)
Asked(c) == c.id # 0 \/ c.obj # "elements" \/ c.op # "delete"

Block(c) == [op |-> c.op, obj |-> c.obj, name |-> c.name, keys |-> KeysOf(c.elems)]

Continues(b, before) ==
    AddsElements(b) /\ before.op = b.op /\ before.obj = "elements" /\ before.name = b.name

PutBlock(out, b) ==
    IF out # <<>> /\ Continues(b, Last(out))
    THEN [out EXCEPT ![Len(out)].keys = @ \cup b.keys]
    ELSE Append(out, b)

WithCommand(out, c) == IF Asked(c) THEN PutBlock(out, Block(c)) ELSE out

Blocks(s) ==
    LET seen[n \in 0..Len(s)] == IF n = 0 THEN <<>> ELSE WithCommand(seen[n - 1], s[n])
    IN  seen[Len(s)]

\* What is sent is what was given: collapsing and uncollapsing
\* (nft_cmd_collapse, nft_cmd_uncollapse) carries no element across a command
\* that is not one of its neighbours, loses none, and changes the order of
\* nothing but element commands of one set among each other.  And no command
\* becomes a flush of a set that was none: a message about the elements of a
\* set has elements (mnl_nft_setelem_batch).
SentAsGiven ==
    /\ pc \in {"send", "kernel", "receive", "attribute"} => Blocks(cmds) = Blocks(ExpandAll(input))
    /\ pc = "kernel" => \A n \in DOMAIN batch :
            batch[n].msg.obj = "elements" => batch[n].msg.op # "flush" /\ batch[n].msg.keys # {}

\* What a thing may refer to in its own table: a set, in its elements, to
\* chains and objects, a rule to everything but rules.
Targets ==
    [chain |-> {}, object |-> {}, set |-> {"chain", "object"}, flowtable |-> {},
     rule |-> {"chain", "object", "set", "flowtable"}]

MadeBy(cs) == UNION {Makes(d) : d \in cs}

NeedsOf(cs) == UNION {d.needs : d \in cs}

\* What a command refers to and does not declare itself.
Refers(c) ==
    LET Inside(b) == Makes(c) \cup MadeBy({d \in Range(c.body) : d.obj \in Targets[b.obj]})
        Beyond(b) == (b.needs \cup (NeedsOf(Range(b.body)) \ Makes(b))) \ Inside(b)
    IN  c.needs \cup
        CASE c.op = "add" /\ c.obj = "table" ->
                 UNION {Beyond(b) : b \in {d \in Range(c.body) : d.obj \in Range(Kinds)}}
          [] c.op = "add" /\ c.obj = "set" -> NeedsOf(Range(c.body)) \ Makes(c)
          [] OTHER -> {}

\* The input refers only to what it has made before, or declares with it.
ReferencesGiven ==
    \A i \in Inputs : \A n \in DOMAIN i :
        Refers(i[n]) \subseteq UNION {MadeBy(Range(Expand(i[k]))) : k \in 1..(n - 1)}

\* Every message finds what it refers to (a chain in a verdict, an object in
\* a map, a set in a rule) made by a message before it, although a table
\* declares its things in any order: nft_cmd_expand takes them kind by kind,
\* and nft_cmd_collapse moves no command before what it refers to.
ReferencesFirst == pc = "kernel" => Unresolved = {}

Clean == faults = 0

\* Every error of the kernel is reported, with the very command whose message
\* it is about, or with all commands if it is about the batch
\* (nft_netlink's loop), unless an earlier talk has left its answers.  If it
\* points at a part of the command, it is the part the kernel has complained
\* about, if the command took one message only: the offsets of cmd_add_loc do
\* not say in which message they are.
ErrorsAtCulprit ==
    Clean => \A r \in reports :
        /\ r.err.run = run
        /\ r.err.seq = 0 \/ r.cmd = r.err.cmd
        /\ r.at = {} \/ r.at = r.err.at \/ Len(Messages(cmds[r.seq])) > 1

\* ... and none goes unreported.
AllReported ==
    [][pc = "attribute" /\ pc' = pc /\ Clean => \E r \in reports' : r.err = Head(errs)]_vars

\* 0 is returned only for a batch the kernel has taken, whatever was lost; as
\* long as nothing was, -1 only for one that it has not.
ResultTrue ==
    pc = "finish" =>
        /\ rc = 0 /\ batch # <<>> => committed
        /\ rc = -1 /\ Clean => ~committed

\* Talks leave nothing behind in the socket: each finds its own answer first.
SocketDrained == Clean /\ pc \notin {"receive"} => queue = <<>>

\* The handles the kernel has given are noted in the JSON of the commands
\* that have made the objects, and all of them are, unless a run failed
\* before: it leaves its commands in json_cmd_assoc_list, freed.
HandlesAtCommands ==
    pc = "finish" /\ Clean /\ ~spoilt /\ mode = "json" /\ rc = 0 =>
        handles = {[json |-> [run |-> run, id |-> batch[n].msg.cmd],
                    event |-> [run |-> run, id |-> batch[n].msg.cmd]] :
                      n \in {k \in DOMAIN batch : HasHandle(batch[k].msg) /\ batch[k].msg.cmd # 0}}


=============================================================================
