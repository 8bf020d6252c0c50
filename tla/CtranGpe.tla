------------------------------ MODULE CtranGpe ------------------------------
(***************************************************************************)
(* The CTRAN "GPE": a host thread that runs the network side of a          *)
(* collective while a kernel holds the user's stream.  The two meet in a   *)
(* KernelFlagItem, a row of words in pinned memory, one per thread block   *)
(* that takes part: a block writes STARTED, the thread then runs the       *)
(* algorithm and writes TERMINATE or HOST_ABORT, the block writes UNSET    *)
(* and exits.  The words are plain loads and stores on both sides.         *)
(*                                                                         *)
(* Main thread: CtranGpe::Impl::submit, submitHost, terminate, and the     *)
(* capture, replay and destruction of a CUDA graph.  GPE thread:           *)
(* gpeThreadFn.  Device: KernelStartGpe, KernelStartGpeAndExit and         *)
(* KernelWaitGpeTerminate, run by each block of each kernel.               *)
(***************************************************************************)
EXTENDS Integers, Sequences, FiniteSets

CONSTANTS
    Items,         \* the KernelFlagItems of the pool (NCCL_CTRAN_NUM_KERNEL_FLAGS)
    Streams,       \* user streams
    NoItem,        \* nullptr
    NoStream,      \* the value lastUserStream_ starts with
    MaxGroups,     \* CTRAN_ALGO_MAX_THREAD_BLOCKS, the words of an item
    Modes,         \* the settings to explore: see ModeType
    MaxCmds,       \* bound: submissions
    MaxReplays     \* bound: launches of the captured graph

\* What a caller submits.  kind "wait": a kernel that waits for TERMINATE; "exit": one
\* that does not; "bare": a kernel with an empty opGroup; "host": submitHost.
\* groups is numGroups_; captured: the stream is being captured into the graph.
ShapeType ==
    [kind : {"wait", "exit", "bare", "host"}, groups : 1 .. MaxGroups, stream : Streams,
     captured : BOOLEAN, timeout : BOOLEAN]

\* A setting: Abort::enabled_, the items of the pool, what callers submit, and whether
\* an algorithm or a CUDA call of submit may fail; at most maxCaptured commands are
\* captured.
ModeType ==
    [enabled : BOOLEAN, pool : SUBSET Items, shapes : SUBSET ShapeType,
     funcFails : BOOLEAN, launchFails : BOOLEAN, maxCaptured : Nat]

ASSUME GpeAssumption ==
    /\ IsFiniteSet(Items) /\ NoItem \notin Items /\ NoStream \notin Streams
    /\ MaxGroups \in Nat /\ MaxCmds \in Nat /\ MaxReplays \in Nat
    /\ \A m \in Modes :
        /\ DOMAIN m = {"enabled", "pool", "shapes", "funcFails", "launchFails", "maxCaptured"}
        /\ m.pool \subseteq Items /\ m.shapes # {} /\ IsFiniteSet(m.shapes)
        /\ m.shapes \subseteq ShapeType
        /\ \A s \in m.shapes : s.captured => s.kind = "wait"
        /\ {m.enabled, m.funcFails, m.launchFails} \subseteq BOOLEAN

Groups == 1 .. MaxGroups
Cmds == 1 .. MaxCmds
FlagValues ==
    {"UNSET", "SCHEDULED", "STARTED", "TERMINATE", "STARTED_AND_EXIT", "HOST_ABORT"}
None == 0           \* no command
TERMINATE == -1     \* CtranGpeCmd::TERMINATE

VARIABLES
    mode,       \* the setting, fixed
    abort,      \* Abort::abort_
    timer,      \* "off", "armed" (hasTimeout_) or "expired"
    free,       \* PinnedHostPool::freeItems_
    flag,       \* KernelFlagItem::flag_
    ngroups,    \* KernelFlagItem::numGroups_
    cmds,       \* the submissions so far: the shape and the item of each
    main,       \* the command whose kernel submit is about to launch, or None
    queue,      \* CmdQueue::queue
    gpe,        \* the GPE thread: where it is, its command, what it read
    signalled,  \* commands whose flag the GPE thread has released
    stream,     \* per user stream: the kernels launched and not yet exited
    barrier,    \* per user stream: the kernels its later work waits for (execEvent_)
    waits,      \* per kernel: the barrier of its stream when it was launched
    order,      \* the kernels execOrderStream_ waits for
    lastUser,   \* lastUserStream_
    block,      \* per kernel and block: where it is
    graph,      \* the captured graph: "none", "captured" or "destroyed"
    nodes,      \* per user stream: the kernels of the graph, in the order of their capture
    callbacks,  \* host nodes of the running graph not yet executed
    replays,    \* launches of the graph so far
    missed,     \* history: lastUserStream_ was set, but the stream's wait not installed
    unwaited,   \* history: kernels launched on such a stream
    unrecorded, \* history: kernels that postKernelLaunch failed to record
    abandoned   \* history: items that a failing submit left as onPop marks them

abortVars == <<mode, abort, timer>>
poolVars == <<free, flag, ngroups>>
hostVars == <<cmds, main, queue, signalled>>
failVars == <<missed, unwaited, unrecorded, abandoned>>
deviceVars == <<stream, barrier, waits, order, lastUser, block, failVars>>
graphVars == <<graph, nodes, callbacks, replays>>
vars == <<abortVars, poolVars, hostVars, gpe, deviceVars, graphVars>>

Idle == [pc |-> "idle", cmd |-> None, read |-> {}]

Init ==
    /\ mode \in Modes
    /\ abort = FALSE
    /\ timer = "off"
    /\ free = mode.pool
    /\ flag = [i \in Items |-> [g \in Groups |-> "UNSET"]]
    /\ ngroups = [i \in Items |-> 1]
    /\ cmds = << >>
    /\ main = None
    /\ queue = << >>
    /\ gpe = Idle
    /\ signalled = {}
    /\ stream = [s \in Streams |-> << >>]
    /\ barrier = [s \in Streams |-> {}]
    /\ waits = [c \in Cmds |-> {}]
    /\ order = {}
    /\ lastUser = NoStream
    /\ block = [c \in Cmds |-> [g \in Groups |-> "none"]]
    /\ graph = "none"
    /\ nodes = [s \in Streams |-> << >>]
    /\ callbacks = {}
    /\ replays = 0
    /\ missed = FALSE
    /\ unwaited = {}
    /\ unrecorded = {}
    /\ abandoned = {}

-----------------------------------------------------------------------------
(* Abort and the flags.                                                    *)

enabled == mode.enabled

\* Abort::Test.
TestAbort == enabled /\ (abort \/ timer = "expired")

GroupsOf(i) == 1 .. ngroups[i]

\* Fault: only the first block's word is looked at.
InUse_First(i) == flag[i][1] # "UNSET"

\* KernelFlagItem::inUse.
InUse(i) == \E g \in GroupsOf(i) : flag[i][g] # "UNSET"

\* PinnedHostPool::reclaim, which submit calls when nothing is free.
Available == IF free # {} THEN free ELSE {i \in mode.pool : ~InUse(i)}

\* KernelFlagItem::setFlagPerGroup, and reset with "UNSET".
SetFlag(i, v) == flag' = [flag EXCEPT ![i] = [g \in Groups |-> IF g \in GroupsOf(i) THEN v ELSE @[g]]]

\* A CtranGpeCmd and its kernel.
Cmd(s, i) ==
    [kind |-> s.kind, groups |-> s.groups, stream |-> s.stream, captured |-> s.captured,
     timeout |-> s.timeout, item |-> i]

BlocksOf(c) == 1 .. cmds[c].groups
Captured == {c \in DOMAIN cmds : cmds[c].captured}
Exited(c) == \A g \in BlocksOf(c) : block[c][g] = "exited"
GraphRunning == callbacks # {} \/ \E c \in Captured : ~Exited(c) /\ block[c][1] # "none"

Launched(c) == [g \in Groups |-> IF g \in BlocksOf(c) THEN "launched" ELSE "none"]

-----------------------------------------------------------------------------
(* The main thread.                                                        *)

MainIdle == main = None /\ TERMINATE \notin {queue[k] : k \in DOMAIN queue} /\ gpe.pc # "ended"

\* submit, up to the enqueueing of the command: an item is popped (onPop marks every
\* word SCHEDULED) and given the kernel's number of groups.  A captured command is
\* handed to the graph instead of the queue, and its kernel is not launched.
Submit(s) ==
    /\ MainIdle
    /\ s.kind # "host"
    /\ Len(cmds) < MaxCmds
    /\ Available # {}
    /\ s.captured => /\ graph # "destroyed" /\ replays = 0
                     /\ Cardinality(Captured) < mode.maxCaptured
    /\ IF s.kind = "bare"
       THEN /\ free' = Available
            /\ cmds' = Append(cmds, Cmd(s, NoItem))
            /\ UNCHANGED <<flag, ngroups, queue>>
       ELSE \E i \in Available :
            /\ free' = Available \ {i}
            /\ flag' = [flag EXCEPT ![i] = [g \in Groups |-> "SCHEDULED"]]
            /\ ngroups' = [ngroups EXCEPT ![i] = s.groups]
            /\ cmds' = Append(cmds, Cmd(s, i))
            /\ queue' = IF s.captured THEN queue ELSE Append(queue, Len(cmds) + 1)
    /\ main' = IF s.captured THEN None ELSE Len(cmds) + 1
    /\ graph' = IF s.captured THEN "captured" ELSE graph
    /\ nodes' = IF s.captured THEN [nodes EXCEPT ![s.stream] = Append(@, Len(cmds) + 1)] ELSE nodes
    /\ UNCHANGED <<abortVars, signalled, gpe, deviceVars, callbacks, replays>>

\* submit takes an item and then fails before it has a command to give it to: the stream
\* cannot be asked whether it is captured, or the graph's buffers not be prepared.  Nobody
\* takes the item back.
SubmitFails(s) ==
    /\ mode.launchFails
    /\ MainIdle
    /\ s.kind \in {"wait", "exit"}
    /\ \E i \in Available :
        /\ free' = Available \ {i}
        /\ flag' = [flag EXCEPT ![i] = [g \in Groups |-> "SCHEDULED"]]
        /\ ngroups' = [ngroups EXCEPT ![i] = s.groups]
        /\ abandoned' = abandoned \cup {i}
    /\ UNCHANGED <<abortVars, hostVars, gpe, stream, barrier, waits, order, lastUser, block,
                   missed, unwaited, unrecorded, graphVars>>

\* Fault: the order stream is not made to wait when the stream did not change.
OrderAfter_SameStream(s, c) == IF s = lastUser THEN order ELSE order \cup {c}

OrderAfter(s, c) == order \cup {c}

\* preKernelLaunch: nothing to wait for when the last kernel went to the same stream.
WaitsBefore(s) == IF s = lastUser THEN {} ELSE order

PreKernelLaunch(s) ==
    /\ barrier' = [barrier EXCEPT ![s] = @ \cup WaitsBefore(s)]
    /\ lastUser' = s
    /\ missed' = (missed /\ s = lastUser)

\* postKernelLaunch.  When it fails submit returns the error, the kernel running all the same.
PostKernelLaunch(s, c) ==
    \/ order' = OrderAfter(s, c) /\ UNCHANGED unrecorded
    \/ mode.launchFails /\ unrecorded' = unrecorded \cup {c} /\ UNCHANGED order

\* The rest of submit: preKernelLaunch, the launch, postKernelLaunch.
Launch ==
    /\ main # None
    /\ LET s == cmds[main].stream
       IN  /\ PreKernelLaunch(s)
           /\ waits' = [waits EXCEPT ![main] = barrier'[s]]
           /\ stream' = [stream EXCEPT ![s] = Append(@, main)]
           /\ PostKernelLaunch(s, main)
    /\ unwaited' = IF missed' THEN unwaited \cup {main} ELSE unwaited
    /\ block' = [block EXCEPT ![main] = Launched(main)]
    /\ main' = None
    /\ UNCHANGED <<abortVars, poolVars, cmds, queue, signalled, gpe, abandoned, graphVars>>

\* preKernelLaunch fails: lastUserStream_ names the stream, which waits for nothing.  The
\* command stays in the queue, its item as it is, and no kernel will release either.
PreLaunchFails ==
    /\ mode.launchFails
    /\ main # None
    /\ cmds[main].stream # lastUser
    /\ lastUser' = cmds[main].stream
    /\ missed' = TRUE
    /\ abandoned' = abandoned \cup ({cmds[main].item} \ {NoItem})
    /\ main' = None
    /\ UNCHANGED <<abortVars, poolVars, cmds, queue, signalled, gpe, stream, barrier, waits, order,
                   block, unwaited, unrecorded, graphVars>>

\* The launch fails: the item is reset, the command stays in the queue.
LaunchFails ==
    /\ mode.launchFails
    /\ main # None
    /\ PreKernelLaunch(cmds[main].stream)
    /\ IF cmds[main].item # NoItem THEN SetFlag(cmds[main].item, "UNSET") ELSE UNCHANGED flag
    /\ main' = None
    /\ UNCHANGED <<abortVars, free, ngroups, cmds, queue, signalled, gpe, stream, waits, order, block,
                   unwaited, unrecorded, abandoned, graphVars>>

\* submitHost: a command without a kernel.
SubmitHost(s) ==
    /\ MainIdle
    /\ s.kind = "host"
    /\ Len(cmds) < MaxCmds
    /\ cmds' = Append(cmds, Cmd(s, NoItem))
    /\ queue' = Append(queue, Len(cmds) + 1)
    /\ UNCHANGED <<abortVars, poolVars, main, signalled, gpe, deviceVars, graphVars>>

\* ~CtranGpe: terminate, which then joins the thread.  A caller ends its graphs first.
Terminate ==
    /\ MainIdle /\ ~GraphRunning
    /\ queue' = Append(queue, TERMINATE)
    /\ UNCHANGED <<abortVars, poolVars, cmds, main, signalled, gpe, deviceVars, graphVars>>

\* Abort::Set, from any thread, and the passing of a timeout.
UserAbort ==
    /\ enabled /\ ~abort
    /\ abort' = TRUE
    /\ UNCHANGED <<mode, timer, poolVars, hostVars, gpe, deviceVars, graphVars>>

TimeoutExpires ==
    /\ timer = "armed"
    /\ timer' = "expired"
    /\ UNCHANGED <<mode, abort, poolVars, hostVars, gpe, deviceVars, graphVars>>

-----------------------------------------------------------------------------
(* The CUDA graph: its kernels run in the order they were captured, its    *)
(* host nodes, added without dependencies, in any order.                   *)

ReplayGraph ==
    /\ MainIdle
    /\ graph = "captured" /\ ~GraphRunning
    /\ replays < MaxReplays
    /\ replays' = replays + 1
    /\ callbacks' = Captured
    /\ signalled' = signalled \ Captured
    /\ block' = [c \in Cmds |-> IF c \in Captured THEN Launched(c) ELSE block[c]]
    /\ stream' = [s \in Streams |-> stream[s] \o nodes[s]]
    /\ UNCHANGED <<abortVars, poolVars, cmds, main, queue, gpe, waits, barrier, order, lastUser,
                   failVars, graph, nodes>>

\* The kernels ahead of the graph in the stream have exited.
GraphReached(s) ==
    \A j, k \in DOMAIN stream[s] : j < k /\ stream[s][k] \in Captured => stream[s][j] \in Captured

\* cmdCb: a host node of the graph, once the stream has reached the graph.
CmdCb(c) ==
    /\ c \in callbacks
    /\ GraphReached(cmds[c].stream)
    /\ callbacks' = callbacks \ {c}
    /\ queue' = Append(queue, c)
    /\ UNCHANGED <<abortVars, poolVars, cmds, main, signalled, gpe, deviceVars, graph, nodes, replays>>

\* cmdDestroy, for every command of the graph; the items keep what they hold.
DestroyGraph ==
    /\ MainIdle
    /\ graph = "captured" /\ ~GraphRunning
    /\ \A c \in Captured : c # gpe.cmd
    /\ graph' = "destroyed"
    /\ UNCHANGED <<abortVars, poolVars, hostVars, gpe, deviceVars, nodes, callbacks, replays>>

-----------------------------------------------------------------------------
(* The GPE thread: gpeThreadFn.                                            *)

At(pc) == gpe.pc = pc
Goto(pc) == gpe' = [gpe EXCEPT !.pc = pc]
ItemOf(c) == cmds[c].item

\* cmdDequeue, setTimeout, and the end of the thread on TERMINATE.
Dequeue ==
    /\ At("idle") /\ queue # << >>
    /\ queue' = Tail(queue)
    /\ LET c == Head(queue)
       IN  IF c = TERMINATE
           THEN Goto("ended") /\ UNCHANGED timer
           ELSE /\ gpe' = [Idle EXCEPT !.cmd = c, !.pc = IF ItemOf(c) = NoItem THEN "run" ELSE "start"]
                /\ timer' = IF cmds[c].timeout /\ enabled THEN "armed" ELSE timer
    /\ UNCHANGED <<mode, abort, poolVars, cmds, main, signalled, deviceVars, graphVars>>

\* Fault: the thread does not know the kernels that start and exit.
KernelStarted_NoExit(i) == flag[i][1] = "STARTED"

\* Only the first block's word is looked at.
KernelStarted(i) == flag[i][1] \in {"STARTED", "STARTED_AND_EXIT"}

WaitStart ==
    /\ At("start")
    /\ KernelStarted(ItemOf(gpe.cmd)) \/ TestAbort
    /\ Goto("run")
    /\ UNCHANGED <<abortVars, poolVars, hostVars, deviceVars, graphVars>>

\* The algorithm returns.
RunFunc ==
    /\ At("run")
    /\ Goto("signal")
    /\ UNCHANGED <<abortVars, poolVars, hostVars, deviceVars, graphVars>>

\* The algorithm fails: CTRAN_ASYNC_ERR_GUARD_FAULT_TOLERANCE marks the communicator
\* aborted, or, when aborts are not enabled, the exception ends the thread.
FuncFails ==
    /\ At("run")
    /\ mode.funcFails \/ TestAbort
    /\ abort' = enabled
    /\ Goto(IF enabled THEN "signal" ELSE "dead")
    /\ UNCHANGED <<mode, timer, poolVars, hostVars, deviceVars, graphVars>>

\* The end of an iteration: SCOPE_EXIT preserves an abort, then cancels the timeout.
EndIteration ==
    /\ gpe' = Idle
    /\ abort' = (abort \/ TestAbort)
    /\ timer' = "off"

\* The command is over for the kernel: TERMINATE or HOST_ABORT to every block, unless
\* the kernel said it would not wait.  A host command is completed.
Signal ==
    /\ At("signal")
    /\ LET i == ItemOf(gpe.cmd)
       IN  IF i = NoItem
           THEN EndIteration /\ UNCHANGED flag /\ signalled' = signalled \cup {gpe.cmd}
           ELSE IF flag[i][1] = "STARTED_AND_EXIT"
           THEN Goto("drain") /\ UNCHANGED <<abort, timer, flag, signalled>>
           ELSE /\ SetFlag(i, IF TestAbort THEN "HOST_ABORT" ELSE "TERMINATE")
                /\ signalled' = signalled \cup {gpe.cmd}
                /\ IF enabled
                   THEN Goto("await") /\ UNCHANGED <<abort, timer>>
                   ELSE EndIteration
    /\ UNCHANGED <<mode, free, ngroups, cmds, main, queue, deviceVars, graphVars>>

\* KernelFlagItem::reset.
DrainFlag(i) == SetFlag(i, "UNSET")

\* testFlagAllGroups(KERNEL_STARTED_AND_EXIT).
DrainReady(i) == \A g \in GroupsOf(i) : flag[i][g] = "STARTED_AND_EXIT"

Drain ==
    /\ At("drain")
    /\ DrainReady(ItemOf(gpe.cmd))
    /\ DrainFlag(ItemOf(gpe.cmd))
    /\ signalled' = signalled \cup {gpe.cmd}
    /\ EndIteration
    /\ UNCHANGED <<mode, free, ngroups, cmds, main, queue, deviceVars, graphVars>>

\* With aborts enabled the thread waits for the kernel to exit; if an abort comes in
\* first it reads which blocks still have TERMINATE ...
Await ==
    /\ At("await")
    /\ ~InUse(ItemOf(gpe.cmd)) \/ TestAbort
    /\ LET i == ItemOf(gpe.cmd)
       IN  IF TestAbort
           THEN /\ gpe' = [gpe EXCEPT !.pc = "convert",
                                      !.read = {g \in GroupsOf(i) : flag[i][g] = "TERMINATE"}]
                /\ UNCHANGED <<abort, timer>>
           ELSE EndIteration
    /\ UNCHANGED <<mode, poolVars, hostVars, deviceVars, graphVars>>

\* ... and then writes HOST_ABORT to those.
Convert ==
    /\ At("convert")
    /\ flag' = [flag EXCEPT ![ItemOf(gpe.cmd)] =
                   [g \in Groups |-> IF g \in gpe.read THEN "HOST_ABORT" ELSE @[g]]]
    /\ EndIteration
    /\ UNCHANGED <<mode, free, ngroups, hostVars, deviceVars, graphVars>>

-----------------------------------------------------------------------------
(* The device.  A kernel runs when it heads its stream and the kernels its *)
(* stream waits for have exited; its blocks start in any order.            *)

CanRun(c) ==
    /\ c \in DOMAIN cmds
    /\ stream[cmds[c].stream] # << >> /\ Head(stream[cmds[c].stream]) = c
    /\ \A d \in waits[c] : Exited(d)

\* Block g of kernel c moves; the kernel leaves its stream with its last block.
MoveBlock(c, g, to) ==
    /\ block' = [block EXCEPT ![c][g] = to]
    /\ stream' = IF to = "exited" /\ \A h \in BlocksOf(c) \ {g} : block[c][h] = "exited"
                 THEN [stream EXCEPT ![cmds[c].stream] = Tail(@)]
                 ELSE stream
    /\ UNCHANGED <<barrier, waits, order, lastUser, failVars>>

WriteFlag(c, g, v) == flag' = [flag EXCEPT ![ItemOf(c)][g] = v]

\* KernelStartGpe, its test of HOST_ABORT: only with enableCancellableWaits.
KernelTestHostAbort(c, g) ==
    /\ CanRun(c) /\ g \in BlocksOf(c) /\ cmds[c].kind = "wait"
    /\ enabled /\ block[c][g] = "launched"
    /\ MoveBlock(c, g, IF flag[ItemOf(c)][g] = "HOST_ABORT" THEN "running" ELSE "tested")
    /\ UNCHANGED <<abortVars, poolVars, hostVars, gpe, graphVars>>

\* KernelStartGpe, its store.
KernelStartGpe(c, g) ==
    /\ CanRun(c) /\ g \in BlocksOf(c) /\ cmds[c].kind = "wait"
    /\ block[c][g] = IF enabled THEN "tested" ELSE "launched"
    /\ WriteFlag(c, g, "STARTED")
    /\ MoveBlock(c, g, "running")
    /\ UNCHANGED <<abortVars, free, ngroups, hostVars, gpe, graphVars>>

\* Fault: the block leaves its word as it is.
ReleasedFlag_Kept == "TERMINATE"

ReleasedFlag == "UNSET"

\* KernelWaitGpeTerminate.
KernelWaitGpeTerminate(c, g) ==
    /\ c \in DOMAIN cmds /\ g \in BlocksOf(c) /\ block[c][g] = "running"
    /\ \/ flag[ItemOf(c)][g] = "TERMINATE"
       \/ enabled /\ flag[ItemOf(c)][g] = "HOST_ABORT"
    /\ WriteFlag(c, g, ReleasedFlag)
    /\ MoveBlock(c, g, "exited")
    /\ UNCHANGED <<abortVars, free, ngroups, hostVars, gpe, graphVars>>

\* KernelStartGpeAndExit.
KernelStartGpeAndExit(c, g) ==
    /\ CanRun(c) /\ g \in BlocksOf(c) /\ cmds[c].kind = "exit"
    /\ block[c][g] = "launched"
    /\ WriteFlag(c, g, "STARTED_AND_EXIT")
    /\ MoveBlock(c, g, "exited")
    /\ UNCHANGED <<abortVars, free, ngroups, hostVars, gpe, graphVars>>

\* A block of a kernel that was launched without a flag.
KernelBare(c, g) ==
    /\ CanRun(c) /\ g \in BlocksOf(c) /\ cmds[c].kind = "bare"
    /\ block[c][g] = "launched"
    /\ MoveBlock(c, g, "exited")
    /\ UNCHANGED <<abortVars, poolVars, hostVars, gpe, graphVars>>

-----------------------------------------------------------------------------
GpeThread ==
    \/ Dequeue \/ WaitStart \/ RunFunc \/ FuncFails \/ Signal \/ Drain \/ Await \/ Convert

KernelStep(c, g) ==
    \/ KernelTestHostAbort(c, g) \/ KernelStartGpe(c, g) \/ KernelWaitGpeTerminate(c, g)
    \/ KernelStartGpeAndExit(c, g) \/ KernelBare(c, g)

Next ==
    \/ \E s \in mode.shapes : Submit(s) \/ SubmitHost(s) \/ SubmitFails(s)
    \/ Launch \/ PreLaunchFails \/ LaunchFails \/ Terminate \/ UserAbort \/ TimeoutExpires
    \/ ReplayGraph \/ DestroyGraph
    \/ \E c \in Cmds : CmdCb(c)
    \/ GpeThread
    \/ \E c \in Cmds, g \in Groups : KernelStep(c, g)

\* The threads and the device run on; what a caller does, and faults, need not happen.
\* An algorithm returns: its peers take part in it.
Fairness ==
    /\ WF_vars(Launch)
    /\ WF_vars(GpeThread)
    /\ \A c \in Cmds : WF_vars(CmdCb(c))
    /\ \A c \in Cmds, g \in Groups : WF_vars(KernelStep(c, g))

Spec == Init /\ [][Next]_vars /\ Fairness
-----------------------------------------------------------------------------
(* Properties.                                                             *)

HasFlag(c) == ItemOf(c) # NoItem

\* submit queued the command and returned an error without launching its kernel.
LaunchFailed(c) == HasFlag(c) /\ ~cmds[c].captured /\ c # main /\ block[c][1] = "none"

\* The command still needs its item: the GPE thread has not released it, a block has
\* not let go of it, or a graph that can be launched again holds it.
Holds(c) ==
    /\ HasFlag(c) /\ ~LaunchFailed(c)
    /\ IF cmds[c].captured THEN graph # "destroyed" ELSE c \notin signalled \/ ~Exited(c)

\* The item of a graph's kernel was given to another command, or to a submission that
\* failed: after a launch of the graph its words read UNSET, inUse says no, and a pool
\* that has run out reclaims it, although the next launch of the graph will use it.
IsLent(i) ==
    \E c \in Captured :
        ItemOf(c) = i /\ (i \in abandoned \/ \E d \in DOMAIN cmds : d > c /\ ItemOf(d) = i)

Lent == \E i \in Items : IsLent(i)

\* What the pool's protocol does not survive.  After a failed launch the command still in
\* the queue writes to an item that was reset, and may by then be another command's; so
\* does Convert, after an abort.  The other command's kernel then ends before its own
\* command is served.
Compromised == Lent \/ abort \/ \E c \in DOMAIN cmds : LaunchFailed(c)

\* No two commands hold one KernelFlagItem.  The pool takes an item back as soon as
\* all its words read UNSET, from the main thread, while GPE thread and blocks of
\* earlier kernels are still writing to theirs.
FlagExclusive ==
    Compromised \/
    \A c, d \in DOMAIN cmds : c # d /\ Holds(c) /\ Holds(d) => ItemOf(c) # ItemOf(d)

\* Without aborts, an item is unavailable only while a command holds it: whichever
\* way a kernel ends, its flag comes back to the pool, so submit reports
\* "unexpected high usage" only when that many kernels are in flight.  (Three kinds of
\* items stay away for good: one that submit abandoned on an error other than the
\* launch's; that of a graph destroyed before its first launch; and one that was lent
\* between commands with different numbers of blocks, where TERMINATE may stay in a word,
\* as one command is released with the words of the other.)
FlagsComeBack ==
    ~enabled => \A i \in mode.pool \ free :
        InUse(i) => \/ i \in abandoned
                    \/ IsLent(i)
                    \/ \E c \in DOMAIN cmds :
                          ItemOf(c) = i /\ (Holds(c) \/ (cmds[c].captured /\ replays = 0))

\* No CUDA call failed that would make kernel d wait for c, or a stream orders the two.
Ordered(c, d) ==
    (c \notin unrecorded /\ d \notin unwaited) \/ cmds[c].stream = cmds[d].stream

\* Kernels of one communicator run one at a time in the order they were submitted,
\* also when the caller alternates streams: preKernelLaunch and postKernelLaunch.
\* The GPE thread relies on it, as it serves the kernels in that order.  Two kernels on
\* different streams may overlap only when a CUDA call failed: no wait was installed for
\* the stream of the later one, or the earlier one was not recorded.
KernelsInOrder ==
    \A c, d \in DOMAIN cmds :
        /\ c < d /\ ~cmds[c].captured /\ ~cmds[d].captured
        /\ block[c][1] # "none"
        /\ \E g \in BlocksOf(d) : block[d][g] \in {"tested", "running", "exited"}
        /\ Ordered(c, d)
        => Exited(c)

\* Block g of kernel c announced its start over the word that was to end it, and
\* nobody will write that word again.
LateStart(c, g) ==
    /\ c \in signalled /\ block[c][g] = "running" /\ flag[ItemOf(c)][g] = "STARTED"

\* The thread polls for UNSET the words of an item that has already been given to
\* another command.
Reissued == gpe.pc = "await" /\ Exited(gpe.cmd) /\ InUse(ItemOf(gpe.cmd))

\* What ends the service: an error in the thread, a failed launch, one of the two races,
\* a kernel launched with a Lent item.
Stuck ==
    \/ gpe.pc = "dead"
    \/ \E c \in DOMAIN cmds : LaunchFailed(c) \/ \E g \in Groups : LateStart(c, g)
    \/ Reissued
    \/ Lent

IsLaunched(c) == c \in DOMAIN cmds /\ block[c][1] # "none"

\* A kernel that was launched exits and gives its stream back, aborts and timeouts
\* included, but for the five ways in Stuck.
KernelsExitOrStuck ==
    \A c \in Cmds : IsLaunched(c) ~> (c \in DOMAIN cmds /\ Exited(c)) \/ Stuck

=============================================================================
