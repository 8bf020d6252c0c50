---------------------------- MODULE CtranGpeProofs ----------------------------
(***************************************************************************)
(* Proofs about the GPE: an item of the pool belongs to one command at a   *)
(* time, the kernels of a communicator run in the order they were          *)
(* submitted, and without aborts every item comes back to the pool, for    *)
(* any number of items, streams, thread blocks, commands, launches of the  *)
(* graph, and whatever callers submit.                                     *)
(***************************************************************************)
EXTENDS CtranGpe, SequenceTheorems, TLAPS

Command ==
    [kind : {"wait", "exit", "bare", "host"}, groups : 1 .. MaxGroups, stream : Streams,
     captured : BOOLEAN, timeout : BOOLEAN, item : Items \cup {NoItem}]
Places == {"none", "launched", "tested", "running", "exited"}

GpePcs == {"idle", "start", "run", "signal", "drain", "await", "convert", "dead", "ended"}
GpeType == [pc : GpePcs, cmd : Int, read : SUBSET Int]

GpeTypeOK ==
    /\ mode \in Modes
    /\ abort \in BOOLEAN
    /\ free \subseteq Items
    /\ flag \in [Items -> [Groups -> FlagValues]]
    /\ ngroups \in [Items -> Nat]
    /\ cmds \in Seq(Command) /\ Len(cmds) <= MaxCmds
    /\ main \in {None, Len(cmds)}
    /\ queue \in Seq(Int)
    /\ gpe \in GpeType
    /\ nodes \in [Streams -> Seq(Nat)]
    /\ barrier \in [Streams -> SUBSET Nat] /\ waits \in [Cmds -> SUBSET Nat]
    /\ order \subseteq Nat /\ lastUser \in Streams \cup {NoStream}
    /\ block \in [Cmds -> [Groups -> Places]]

-----------------------------------------------------------------------------
(* What holds however the run goes.                                        *)

\* The kernels that have an item, and those a graph may hold.
CommandsSound ==
    \A c \in DOMAIN cmds :
        /\ HasFlag(c) <=> cmds[c].kind \in {"wait", "exit"}
        /\ cmds[c].captured => cmds[c].kind = "wait"

\* A kernel starts in all its blocks at once, and not before submit launches it.
LaunchedAsOne ==
    /\ \A c \in Cmds : block[c][1] = "none" \/ c \notin DOMAIN cmds =>
                        \A g \in Groups : block[c][g] = "none"
    /\ main # None => ~cmds[main].captured /\ block[main][1] = "none"

\* The places of a block that its kernel's kind allows.
PlacesSound ==
    \A c \in DOMAIN cmds, g \in Groups :
        block[c][g] \in {"tested", "running"} => cmds[c].kind = "wait"

BaseInv ==
    /\ GpeTypeOK /\ CommandsSound /\ LaunchedAsOne /\ PlacesSound
    /\ abort => enabled
    /\ callbacks \subseteq Captured

-----------------------------------------------------------------------------
(* The order of kernels.                                                   *)

Plain(c) == c \in DOMAIN cmds /\ ~cmds[c].captured
Begun(c) == \E g \in BlocksOf(c) : block[c][g] \in {"tested", "running"}

\* Nothing captured is counted a plain kernel when the graph is launched.
NodesCaptured == \A s \in Streams : \A k \in DOMAIN nodes[s] : nodes[s][k] \in Captured

\* A plain kernel that was launched is in its stream until it exits, behind those
\* submitted before it.
InStream ==
    /\ stream \in [Streams -> Seq(Nat)]
    /\ \A c \in DOMAIN cmds : Plain(c) /\ block[c][1] # "none" /\ ~Exited(c) =>
        \E k \in DOMAIN stream[cmds[c].stream] : stream[cmds[c].stream][k] = c
    /\ \A s \in Streams : \A j, k \in DOMAIN stream[s] :
        j < k /\ Plain(stream[s][j]) /\ Plain(stream[s][k]) => stream[s][j] < stream[s][k]
    /\ \A s \in Streams : \A k \in DOMAIN stream[s] :
        stream[s][k] \in DOMAIN cmds /\ (Plain(stream[s][k]) => block[stream[s][k]][1] # "none")

\* A kernel that has begun heads its stream.
BegunAtHead ==
    \A c \in DOMAIN cmds : Begun(c) =>
        stream[cmds[c].stream] # << >> /\ Head(stream[cmds[c].stream]) = c

\* preKernelLaunch and postKernelLaunch: the order stream waits for every kernel it could
\* be told of, the last user stream for all of them but its own, unless its wait could not
\* be installed, and so does a kernel.
WaitsForEarlier ==
    /\ \A c \in DOMAIN cmds : Plain(c) /\ block[c][1] # "none" => c \in order \/ c \in unrecorded
    /\ order \subseteq DOMAIN cmds
    /\ lastUser = NoStream => order = {}
    /\ lastUser # NoStream /\ ~missed =>
        \A c \in order : c \in barrier[lastUser] \/ cmds[c].stream = lastUser
    /\ \A c, d \in DOMAIN cmds :
        /\ c < d /\ Plain(c) /\ Plain(d) /\ block[c][1] # "none" /\ block[d][1] # "none"
        /\ Ordered(c, d)
        => c \in waits[d] \/ cmds[c].stream = cmds[d].stream

OrderInv ==
    /\ BaseInv
    /\ NodesCaptured /\ InStream /\ BegunAtHead /\ WaitsForEarlier /\ KernelsInOrder

-----------------------------------------------------------------------------
(* Who holds an item.                                                      *)

PendingPcs == {"start", "run", "signal", "drain"}
Queued(c) == \E k \in DOMAIN queue : queue[k] = c

\* The command is queued, or the GPE thread has not yet released its flag.
Pending(c) == Queued(c) \/ (gpe.cmd = c /\ gpe.pc \in PendingPcs)

\* A command is served once for each time it was launched.
ServedOnce ==
    /\ signalled \subseteq DOMAIN cmds
    /\ \A k \in DOMAIN queue : queue[k] # TERMINATE => queue[k] \in DOMAIN cmds
    /\ \A j, k \in DOMAIN queue : j # k /\ queue[j] = queue[k] => queue[j] = TERMINATE
    /\ gpe.pc \in PendingPcs => ~Queued(gpe.cmd)
    /\ gpe.pc \in PendingPcs \cup {"await"} => gpe.cmd \in DOMAIN cmds
    /\ gpe.pc \in {"start", "drain", "await"} => HasFlag(gpe.cmd)
    /\ \A c \in DOMAIN cmds : Pending(c) => c \notin signalled /\ c \notin callbacks
    /\ callbacks \cap signalled = {}

\* The graph is there while one of its kernels or host nodes runs.
GraphSound ==
    /\ \A c \in Captured :
        /\ Pending(c) \/ c \in callbacks => block[c][1] # "none" /\ graph # "destroyed"
        /\ c \in signalled => block[c][1] # "none"
        /\ graph = "destroyed" => Exited(c) \/ block[c][1] = "none"

\* Holds, a failed launch included: what the command of a failed launch holds is not
\* told apart before the step that compromises the protocol.
Needs(c) ==
    /\ HasFlag(c)
    /\ IF cmds[c].captured THEN graph # "destroyed" ELSE c \notin signalled \/ ~Exited(c)

\* What word g of the item of command c may read while the command needs it.
Word(c, g) == flag[ItemOf(c)][g]

PlainWords(c) ==
    ~cmds[c].captured =>
        /\ ItemOf(c) \notin free
        /\ \A g \in BlocksOf(c) : block[c][g] # "exited" \/ c \notin signalled => Word(c, g) # "UNSET"

WaitWords(c) ==
    cmds[c].kind = "wait" => \A g \in BlocksOf(c) :
        /\ c \notin signalled => /\ Word(c, g) \notin {"TERMINATE", "HOST_ABORT"}
                                 /\ block[c][g] # "exited"
        /\ Word(c, g) # "STARTED_AND_EXIT"
        /\ block[c][g] = "exited" => Word(c, g) = "UNSET"

ExitWords(c) ==
    cmds[c].kind = "exit" => \A g \in BlocksOf(c) :
        Word(c, g) = "STARTED_AND_EXIT" => block[c][g] = "exited"

WordsOf(c) == ngroups[ItemOf(c)] = cmds[c].groups /\ PlainWords(c) /\ WaitWords(c) /\ ExitWords(c)

HeldWords == \A c \in DOMAIN cmds : Needs(c) => WordsOf(c)

NeededByOne ==
    \A c, d \in DOMAIN cmds : c # d /\ Needs(c) /\ Needs(d) => ItemOf(c) # ItemOf(d)

HoldInv == ServedOnce /\ GraphSound /\ HeldWords /\ NeededByOne

\* The thread converts the words it read only in an abort.
Converting == gpe.pc = "convert" => TestAbort

\* The pool's protocol is sound until it is Compromised.
GpeInv == BaseInv /\ Converting /\ (Compromised \/ HoldInv)

-----------------------------------------------------------------------------
(* The base: types and the shape of commands and kernels.                  *)

LEMMA ModeFacts ==
    ASSUME mode \in Modes
    PROVE  /\ mode.pool \subseteq Items /\ mode.shapes \subseteq ShapeType
           /\ \A s \in mode.shapes : s.captured => s.kind = "wait"
           /\ enabled \in BOOLEAN
BY GpeAssumption DEF enabled

LEMMA Constants ==
    /\ MaxGroups \in Nat /\ MaxCmds \in Nat /\ Cmds \subseteq Nat /\ Groups \subseteq Nat
    /\ NoItem \notin Items /\ NoStream \notin Streams
BY GpeAssumption DEF Cmds, Groups

LEMMA InitBase == Init => BaseInv
<1>. SUFFICES ASSUME Init PROVE BaseInv
  OBVIOUS
<1>1. cmds = << >> /\ DOMAIN cmds = {} /\ Len(cmds) = 0
  BY DEF Init
<1>2. GpeTypeOK
  <2>1. free \subseteq Items
    BY ModeFacts DEF Init
  <2>2. cmds \in Seq(Command) /\ Len(cmds) <= MaxCmds /\ main \in {None, Len(cmds)}
    BY <1>1, Constants DEF Init, None
  <2>3. block \in [Cmds -> [Groups -> Places]] /\ flag \in [Items -> [Groups -> FlagValues]]
    BY DEF Init, Places, FlagValues
  <2>4. queue \in Seq(Int) /\ nodes \in [Streams -> Seq(Nat)]
    BY DEF Init
  <2>5. gpe \in GpeType
    BY DEF Init, Idle, None, GpeType, GpePcs
  <2>. QED
    BY <2>1, <2>2, <2>3, <2>4, <2>5 DEF Init, GpeTypeOK
<1>. QED
  BY <1>1, <1>2 DEF Init, BaseInv, CommandsSound, LaunchedAsOne, PlacesSound, Captured

\* What Submit and SubmitHost append to the commands.
LEMMA Appended ==
    ASSUME GpeTypeOK, NEW s \in ShapeType, NEW i \in Items \cup {NoItem}, Len(cmds) < MaxCmds,
           cmds' = Append(cmds, Cmd(s, i))
    PROVE  /\ cmds' \in Seq(Command) /\ Len(cmds') = Len(cmds) + 1 /\ Len(cmds') <= MaxCmds
           /\ Len(cmds) + 1 \in Cmds
           /\ DOMAIN cmds' = DOMAIN cmds \cup {Len(cmds) + 1}
           /\ Len(cmds) + 1 \notin DOMAIN cmds
           /\ \A c \in DOMAIN cmds : cmds'[c] = cmds[c]
           /\ cmds'[Len(cmds) + 1] = Cmd(s, i)
<1>1. Cmd(s, i) \in Command
  BY DEF Cmd, Command, ShapeType
<1>. QED
  BY <1>1, GpeAssumption DEF GpeTypeOK, Cmds

LEMMA SubmitBase ==
    ASSUME BaseInv, NEW s \in mode.shapes, Submit(s) \/ SubmitHost(s)
    PROVE  BaseInv'
<1>. USE DEF BaseInv
<1>1. /\ s \in ShapeType /\ s.stream \in Streams /\ s.groups \in Nat /\ 1 \in Groups
      /\ s.captured => s.kind = "wait"
      /\ Available \subseteq Items
  BY ModeFacts, GpeAssumption DEF GpeTypeOK, Available, ShapeType, Groups
<1>2. PICK i \in Items \cup {NoItem} :
        /\ cmds' = Append(cmds, Cmd(s, i)) /\ Len(cmds) < MaxCmds
        /\ i = NoItem <=> s.kind \in {"bare", "host"}
        /\ s.kind = "host" => ~s.captured
  <2>1. CASE Submit(s)
    BY <1>1, <2>1, GpeAssumption DEF Submit, ShapeType
  <2>2. CASE SubmitHost(s)
    BY <1>1, <2>2 DEF SubmitHost
  <2>. QED
    BY <2>1, <2>2
<1>3. /\ cmds' \in Seq(Command) /\ Len(cmds') = Len(cmds) + 1 /\ Len(cmds') <= MaxCmds
      /\ Len(cmds) + 1 \in Cmds
      /\ DOMAIN cmds' = DOMAIN cmds \cup {Len(cmds) + 1}
      /\ Len(cmds) + 1 \notin DOMAIN cmds
      /\ \A c \in DOMAIN cmds : cmds'[c] = cmds[c]
      /\ cmds'[Len(cmds) + 1] = Cmd(s, i)
  BY <1>1, <1>2, Appended
<1>4. block' = block /\ mode' = mode /\ abort' = abort /\ callbacks' = callbacks
  BY DEF Submit, SubmitHost, abortVars, deviceVars, graphVars
<1>5. GpeTypeOK'
  <2>1. main' \in {None, Len(cmds')}
    BY <1>3 DEF Submit, SubmitHost, MainIdle
  <2>2. free' \subseteq Items /\ flag' \in [Items -> [Groups -> FlagValues]] /\ ngroups' \in [Items -> Nat]
    <3>1. CASE Submit(s)
      <4>1. CASE s.kind = "bare"
        BY <1>1, <3>1, <4>1 DEF Submit, GpeTypeOK
      <4>2. CASE s.kind # "bare"
        <5>1. PICK j \in Items :
                /\ free' = Available \ {j}
                /\ flag' = [flag EXCEPT ![j] = [g \in Groups |-> "SCHEDULED"]]
                /\ ngroups' = [ngroups EXCEPT ![j] = s.groups]
          BY <1>1, <3>1, <4>2 DEF Submit
        <5>. QED
          BY <1>1, <5>1 DEF GpeTypeOK, FlagValues
      <4>. QED
        BY <4>1, <4>2
    <3>2. CASE SubmitHost(s)
      BY <3>2 DEF SubmitHost, GpeTypeOK, poolVars
    <3>. QED
      BY <3>1, <3>2
  <2>3. queue' \in Seq(Int)
    <3>1. queue' = queue \/ queue' = Append(queue, Len(cmds) + 1)
      BY DEF Submit, SubmitHost
    <3>2. queue \in Seq(Int) /\ Len(cmds) + 1 \in Int
      BY <1>3, Constants DEF GpeTypeOK
    <3>3. Append(queue, Len(cmds) + 1) \in Seq(Int)
      BY <3>2, AppendProperties
    <3>. QED
      BY <3>1, <3>2, <3>3
  <2>4. nodes' \in [Streams -> Seq(Nat)]
    <3>1. CASE nodes' = nodes
      BY <3>1 DEF GpeTypeOK
    <3>2. CASE nodes' = [nodes EXCEPT ![s.stream] = Append(@, Len(cmds) + 1)]
      BY <1>1, <1>3, <3>2, SMT DEF GpeTypeOK, ShapeType
    <3>. QED
      BY <3>1, <3>2 DEF Submit, SubmitHost, graphVars
  <2>5. UNCHANGED <<gpe, barrier, waits, order, lastUser>>
    BY DEF Submit, SubmitHost, deviceVars
  <2>. QED
    BY <1>3, <1>4, <2>1, <2>2, <2>3, <2>4, <2>5 DEF GpeTypeOK
<1>6. CommandsSound'
  BY <1>1, <1>2, <1>3 DEF CommandsSound, HasFlag, ItemOf, Cmd, ShapeType
<1>7. LaunchedAsOne'
  <2>1. main' # None => main' = Len(cmds) + 1 /\ ~s.captured
    BY DEF Submit, SubmitHost, MainIdle
  <2>2. block[Len(cmds) + 1][1] = "none"
    BY <1>1, <1>3 DEF LaunchedAsOne
  <2>. QED
    BY <1>3, <1>4, <2>1, <2>2 DEF LaunchedAsOne, Cmd
<1>8. PlacesSound'
  BY <1>3, <1>4 DEF PlacesSound, LaunchedAsOne
<1>9. callbacks' \subseteq Captured'
  BY <1>3, <1>4 DEF Captured
<1>. QED
  BY <1>4, <1>5, <1>6, <1>7, <1>8, <1>9 DEF enabled

LEMMA SetFlagType ==
    ASSUME flag \in [Items -> [Groups -> FlagValues]], NEW i, NEW v \in FlagValues, SetFlag(i, v)
    PROVE  flag' \in [Items -> [Groups -> FlagValues]]
BY DEF SetFlag

\* Every block of a kernel that is launched is.
LEMMA LaunchedPlaces ==
    ASSUME BaseInv, NEW c \in DOMAIN cmds
    PROVE  /\ c \in Cmds /\ cmds[c] \in Command /\ 1 \in BlocksOf(c) /\ BlocksOf(c) \subseteq Groups
           /\ 1 \in Groups
           /\ Launched(c) \in [Groups -> {"none", "launched"}]
           /\ \A g \in BlocksOf(c) : Launched(c)[g] = "launched"
<1>1. c \in Cmds /\ cmds[c] \in Command
  BY Constants DEF BaseInv, GpeTypeOK, Cmds
<1>2. cmds[c].groups \in 1 .. MaxGroups
  BY <1>1 DEF Command
<1>3. 1 \in BlocksOf(c) /\ BlocksOf(c) \subseteq Groups /\ 1 \in Groups
  BY <1>2, Constants DEF BlocksOf, Groups
<1>. QED
  BY <1>1, <1>3 DEF Launched

LEMMA LaunchBase ==
    ASSUME BaseInv, Launch
    PROVE  BaseInv'
<1>. USE DEF BaseInv
<1>1. main \in DOMAIN cmds /\ main \in Cmds /\ main \in Nat /\ cmds[main].stream \in Streams
  <2>1. main \in DOMAIN cmds
    BY DEF Launch, GpeTypeOK, None
  <2>. QED
    BY <2>1, LaunchedPlaces, Constants DEF Command
<1>2. /\ 1 \in BlocksOf(main) /\ 1 \in Groups /\ Launched(main) \in [Groups -> {"none", "launched"}]
      /\ \A g \in BlocksOf(main) : Launched(main)[g] = "launched"
  BY <1>1, LaunchedPlaces
<1>3. block' = [block EXCEPT ![main] = Launched(main)] /\ main' = None
  BY DEF Launch
<1>4. UNCHANGED <<mode, abort, free, flag, ngroups, cmds, queue, gpe, nodes, callbacks>>
  BY DEF Launch, abortVars, poolVars, graphVars
<1>5. GpeTypeOK'
  <2>1. block' \in [Cmds -> [Groups -> Places]]
    BY <1>2, <1>3 DEF GpeTypeOK, Places
  <2>2. barrier' \in [Streams -> SUBSET Nat] /\ lastUser' \in Streams \cup {NoStream}
    <3>1. WaitsBefore(cmds[main].stream) \subseteq Nat
      BY DEF WaitsBefore, GpeTypeOK
    <3>. QED
      BY <1>1, <3>1 DEF Launch, PreKernelLaunch, GpeTypeOK
  <2>3. waits' \in [Cmds -> SUBSET Nat] /\ order' \subseteq Nat
    BY <1>1, <2>2 DEF Launch, PostKernelLaunch, GpeTypeOK, OrderAfter
  <2>. QED
    BY <1>1, <1>3, <1>4, <2>1, <2>2, <2>3 DEF GpeTypeOK
<1>6. LaunchedAsOne' /\ PlacesSound'
  BY <1>1, <1>2, <1>3, <1>4, GpeAssumption DEF LaunchedAsOne, PlacesSound, GpeTypeOK, None
<1>. QED
  BY <1>4, <1>5, <1>6 DEF CommandsSound, HasFlag, ItemOf, Captured, enabled

LEMMA LaunchFailsBase ==
    ASSUME BaseInv, LaunchFails
    PROVE  BaseInv'
<1>. USE DEF BaseInv
<1>1. main \in DOMAIN cmds /\ cmds[main].stream \in Streams
  <2>1. main \in DOMAIN cmds
    BY DEF LaunchFails, GpeTypeOK, None
  <2>. QED
    BY <2>1, LaunchedPlaces DEF Command
<1>2. UNCHANGED <<mode, abort, free, ngroups, cmds, queue, gpe, nodes, callbacks, waits, order, block>>
  BY DEF LaunchFails, abortVars, graphVars
<1>3. flag' \in [Items -> [Groups -> FlagValues]]
  <2>1. "UNSET" \in FlagValues
    BY DEF FlagValues
  <2>. QED
    BY <2>1, SetFlagType DEF LaunchFails, GpeTypeOK
<1>4. barrier' \in [Streams -> SUBSET Nat] /\ lastUser' \in Streams \cup {NoStream}
  BY <1>1 DEF LaunchFails, PreKernelLaunch, WaitsBefore, GpeTypeOK
<1>5. main' = None
  BY DEF LaunchFails
<1>6. GpeTypeOK'
  BY <1>2, <1>3, <1>4, <1>5 DEF GpeTypeOK
<1>. QED
  BY <1>2, <1>5, <1>6 DEF CommandsSound, HasFlag, ItemOf, LaunchedAsOne, PlacesSound, Captured, enabled

LEMMA PreLaunchFailsBase ==
    ASSUME BaseInv, PreLaunchFails
    PROVE  BaseInv'
<1>. USE DEF BaseInv
<1>1. main \in DOMAIN cmds /\ cmds[main].stream \in Streams
  <2>1. main \in DOMAIN cmds
    BY DEF PreLaunchFails, GpeTypeOK, None
  <2>. QED
    BY <2>1, LaunchedPlaces DEF Command
<1>2. UNCHANGED <<mode, abort, free, flag, ngroups, cmds, queue, gpe, nodes, callbacks, barrier, waits, order, block>>
  BY DEF PreLaunchFails, abortVars, poolVars, graphVars
<1>3. main' = None /\ lastUser' \in Streams
  BY <1>1 DEF PreLaunchFails
<1>4. GpeTypeOK'
  BY <1>2, <1>3 DEF GpeTypeOK
<1>. QED
  BY <1>2, <1>3, <1>4 DEF CommandsSound, HasFlag, ItemOf, LaunchedAsOne, PlacesSound, Captured, enabled

\* What a submission that fails takes from the pool.
LEMMA SubmitFailsTakes ==
    ASSUME BaseInv, NEW s \in mode.shapes, SubmitFails(s)
    PROVE  /\ Available \subseteq Items
           /\ \E i \in Available :
                /\ free' = Available \ {i}
                /\ flag' = [flag EXCEPT ![i] = [g \in Groups |-> "SCHEDULED"]]
                /\ ngroups' = [ngroups EXCEPT ![i] = s.groups]
                /\ abandoned' = abandoned \cup {i}
           /\ s.groups \in Nat /\ s.kind \in {"wait", "exit"} /\ main = None
           /\ UNCHANGED <<abortVars, cmds, main, queue, signalled, gpe, stream, barrier, waits, order,
                          lastUser, block, missed, unwaited, unrecorded, graphVars>>
<1>1. s \in ShapeType /\ mode.pool \subseteq Items /\ s.groups \in Nat
  BY ModeFacts, Constants DEF BaseInv, GpeTypeOK, ShapeType
<1>. QED
  BY <1>1 DEF SubmitFails, MainIdle, hostVars, Available, BaseInv, GpeTypeOK

LEMMA SubmitFailsBase ==
    ASSUME BaseInv, NEW s \in mode.shapes, SubmitFails(s)
    PROVE  BaseInv'
<1>. USE DEF BaseInv
<1>1. PICK i \in Items :
        /\ free' = Available \ {i}
        /\ flag' = [flag EXCEPT ![i] = [g \in Groups |-> "SCHEDULED"]]
        /\ ngroups' = [ngroups EXCEPT ![i] = s.groups]
  BY SubmitFailsTakes
<1>2. /\ s.groups \in Nat /\ Available \subseteq Items
      /\ UNCHANGED <<mode, abort, cmds, main, queue, gpe, nodes, callbacks, barrier, waits, order,
                     lastUser, block>>
  BY SubmitFailsTakes DEF abortVars, graphVars
<1>3. free' \subseteq Items /\ flag' \in [Items -> [Groups -> FlagValues]] /\ ngroups' \in [Items -> Nat]
  BY <1>1, <1>2 DEF GpeTypeOK, FlagValues
<1>4. GpeTypeOK'
  BY <1>2, <1>3 DEF GpeTypeOK
<1>. QED
  BY <1>2, <1>4 DEF CommandsSound, HasFlag, ItemOf, LaunchedAsOne, PlacesSound, Captured, enabled

\* The launch of the graph: captured kernels start over, the others are left alone.
LEMMA ReplayedPlaces ==
    ASSUME BaseInv, ReplayGraph
    PROVE  /\ \A c \in Captured : block'[c] = Launched(c)
           /\ \A c \in Cmds : c \notin Captured => block'[c] = block[c]
           /\ block' \in [Cmds -> [Groups -> Places]]
           /\ main = None /\ main' = main
           /\ UNCHANGED <<abortVars, poolVars, cmds, queue, gpe, waits, barrier, order, lastUser, failVars,
                          graph, nodes>>
<1>1. \A c \in Captured : c \in Cmds /\ Launched(c) \in [Groups -> Places]
  BY LaunchedPlaces DEF Captured, Places
<1>. QED
  BY <1>1 DEF ReplayGraph, MainIdle, BaseInv, GpeTypeOK, poolVars

LEMMA ReplayBase ==
    ASSUME BaseInv, ReplayGraph
    PROVE  BaseInv'
<1>1. UNCHANGED <<mode, abort, free, flag, ngroups, cmds, main, queue, gpe, nodes, waits, barrier, order, lastUser>>
  BY ReplayedPlaces DEF abortVars, poolVars
<1>3. GpeTypeOK'
  BY <1>1, ReplayedPlaces DEF BaseInv, GpeTypeOK
<1>4. LaunchedAsOne'
  <2>1. \A c \in Captured : c \in DOMAIN cmds /\ Launched(c)[1] = "launched"
    BY LaunchedPlaces DEF Captured
  <2>. QED
    BY <1>1, <2>1, ReplayedPlaces DEF BaseInv, LaunchedAsOne, Captured
<1>5. PlacesSound'
  <2>1. \A c \in Captured, g \in Groups : Launched(c)[g] \in {"none", "launched"}
    BY LaunchedPlaces DEF Captured
  <2>2. \A c \in DOMAIN cmds : c \in Cmds
    BY LaunchedPlaces
  <2>. QED
    BY <1>1, <2>1, <2>2, ReplayedPlaces DEF BaseInv, PlacesSound
<1>6. callbacks' = Captured'
  BY <1>1 DEF ReplayGraph, Captured
<1>. QED
  BY <1>1, <1>3, <1>4, <1>5, <1>6 DEF BaseInv, CommandsSound, HasFlag, ItemOf, enabled

\* A step of the device moves one block of a kernel that was launched.
LEMMA KernelMoves ==
    ASSUME BaseInv, NEW c \in Cmds, NEW g \in Groups, KernelStep(c, g)
    PROVE  /\ c \in DOMAIN cmds /\ g \in BlocksOf(c)
           /\ block[c][g] \in {"launched", "tested", "running"}
           /\ \E to \in {"tested", "running", "exited"} :
                /\ to # "exited" => cmds[c].kind = "wait"
                /\ MoveBlock(c, g, to)
                /\ CanRun(c) \/ block[c][g] = "running"
           /\ UNCHANGED <<abortVars, free, ngroups, hostVars, gpe, graphVars>>
           /\ flag' = flag \/ \E v \in FlagValues : WriteFlag(c, g, v)
<1>1. CASE KernelTestHostAbort(c, g)
  BY <1>1 DEF KernelTestHostAbort, CanRun, poolVars
<1>2. CASE KernelStartGpe(c, g)
  BY <1>2 DEF KernelStartGpe, CanRun, FlagValues
<1>3. CASE KernelWaitGpeTerminate(c, g)
  BY <1>3 DEF KernelWaitGpeTerminate, FlagValues, ReleasedFlag
<1>4. CASE KernelStartGpeAndExit(c, g)
  BY <1>4 DEF KernelStartGpeAndExit, CanRun, FlagValues
<1>5. CASE KernelBare(c, g)
  BY <1>5 DEF KernelBare, CanRun, poolVars
<1>. QED
  BY <1>1, <1>2, <1>3, <1>4, <1>5 DEF KernelStep

LEMMA KernelBase ==
    ASSUME BaseInv, NEW c \in Cmds, NEW g \in Groups, KernelStep(c, g)
    PROVE  BaseInv'
<1>1. PICK to \in {"tested", "running", "exited"} :
        (to # "exited" => cmds[c].kind = "wait") /\ MoveBlock(c, g, to)
  BY KernelMoves
<1>2. /\ block' = [block EXCEPT ![c][g] = to]
      /\ UNCHANGED <<barrier, waits, order, lastUser>>
  BY <1>1 DEF MoveBlock
<1>3. UNCHANGED <<mode, abort, free, ngroups, cmds, main, queue, gpe, nodes, callbacks>>
  BY KernelMoves DEF abortVars, hostVars, graphVars
<1>4. flag' \in [Items -> [Groups -> FlagValues]]
  <2>1. ASSUME NEW v \in FlagValues, WriteFlag(c, g, v)
        PROVE  flag' \in [Items -> [Groups -> FlagValues]]
    BY <2>1 DEF WriteFlag, BaseInv, GpeTypeOK
  <2>. QED
    BY <2>1, KernelMoves DEF BaseInv, GpeTypeOK
<1>5. GpeTypeOK'
  BY <1>2, <1>3, <1>4 DEF BaseInv, GpeTypeOK, Places
<1>6. LaunchedAsOne'
  <2>1. block[c][g] # "none" /\ c \in DOMAIN cmds /\ 1 \in Groups
    BY KernelMoves, LaunchedPlaces
  <2>2. block[c][1] # "none" /\ block'[c][1] # "none"
    BY <1>2, <2>1 DEF BaseInv, LaunchedAsOne, GpeTypeOK
  <2>3. \A d \in Cmds : d # c => block'[d] = block[d]
    BY <1>2 DEF BaseInv, GpeTypeOK
  <2>4. main # c
    BY <2>1, <2>2 DEF BaseInv, LaunchedAsOne, GpeTypeOK, None, Cmds
  <2>. QED
    BY <1>3, <2>1, <2>2, <2>3, <2>4, LaunchedPlaces, Constants DEF BaseInv, LaunchedAsOne, GpeTypeOK, None
<1>7. PlacesSound'
  BY <1>1, <1>2, <1>3 DEF BaseInv, PlacesSound, GpeTypeOK
<1>. QED
  BY <1>3, <1>5, <1>6, <1>7 DEF BaseInv, CommandsSound, HasFlag, ItemOf, Captured, enabled

\* The steps of the GPE thread, and those of the main thread and the graph that change
\* no command and no kernel.
OtherStep ==
    \/ Terminate \/ UserAbort \/ TimeoutExpires \/ DestroyGraph
    \/ (\E c \in Cmds : CmdCb(c)) \/ GpeThread

LEMMA OtherFrame ==
    ASSUME BaseInv, OtherStep
    PROVE  /\ UNCHANGED <<mode, free, ngroups, cmds, main, nodes>>
           /\ UNCHANGED deviceVars
           /\ abort' = abort \/ abort' = enabled
           /\ abort => abort'
           /\ callbacks' \subseteq callbacks
<1>1. (abort => enabled) /\ enabled \in BOOLEAN
  BY ModeFacts DEF BaseInv, GpeTypeOK
<1>. USE DEF abortVars, poolVars, hostVars, graphVars
<1>2. CASE Terminate \/ UserAbort \/ TimeoutExpires \/ DestroyGraph
  <2>1. CASE Terminate
    BY <2>1 DEF Terminate
  <2>2. CASE UserAbort
    BY <1>1, <2>2 DEF UserAbort
  <2>3. CASE TimeoutExpires
    BY <2>3 DEF TimeoutExpires
  <2>4. CASE DestroyGraph
    BY <2>4 DEF DestroyGraph
  <2>. QED
    BY <1>2, <2>1, <2>2, <2>3, <2>4
<1>3. ASSUME NEW c \in Cmds, CmdCb(c) PROVE callbacks' \subseteq callbacks
  BY <1>3 DEF CmdCb
<1>4. CASE \E c \in Cmds : CmdCb(c)
  BY <1>3, <1>4 DEF CmdCb
<1>5. CASE GpeThread
  <2>1. abort \in BOOLEAN /\ enabled \in BOOLEAN
    BY ModeFacts DEF BaseInv, GpeTypeOK
  <2>2. EndIteration => (abort' = abort \/ abort' = enabled) /\ (abort => abort')
    BY <1>1, <2>1 DEF EndIteration, TestAbort
  <2>3. CASE Dequeue \/ WaitStart \/ RunFunc
    BY <2>3 DEF Dequeue, WaitStart, RunFunc
  <2>4. CASE FuncFails
    BY <1>1, <2>4 DEF FuncFails
  <2>5. CASE Signal \/ Drain
    BY <2>2, <2>5 DEF Signal, Drain
  <2>6. CASE Await \/ Convert
    BY <2>2, <2>6 DEF Await, Convert
  <2>. QED
    BY <1>5, <2>3, <2>4, <2>5, <2>6 DEF GpeThread
<1>. QED
  BY <1>2, <1>4, <1>5 DEF OtherStep

LEMMA OtherBase ==
    ASSUME BaseInv, OtherStep
    PROVE  BaseInv'
<1>1. enabled \in BOOLEAN /\ (abort => enabled) /\ abort \in BOOLEAN
  BY ModeFacts DEF BaseInv, GpeTypeOK
<1>2. flag' \in [Items -> [Groups -> FlagValues]]
  <2>1. flag \in [Items -> [Groups -> FlagValues]] /\ {"UNSET", "TERMINATE", "HOST_ABORT"} \subseteq FlagValues
    BY DEF BaseInv, GpeTypeOK, FlagValues
  <2>2. CASE flag' = flag
    BY <2>1, <2>2
  <2>3. CASE Signal
    BY <2>1, <2>3, SetFlagType DEF Signal
  <2>4. CASE Drain
    BY <2>1, <2>4, SetFlagType DEF Drain, DrainFlag
  <2>5. CASE Convert
    <3>. DEFINE words(i) == [g \in Groups |-> IF g \in gpe.read THEN "HOST_ABORT" ELSE flag[i][g]]
    <3>1. flag' = [flag EXCEPT ![ItemOf(gpe.cmd)] = words(ItemOf(gpe.cmd))]
      BY <2>5 DEF Convert
    <3>2. \A i \in Items : words(i) \in [Groups -> FlagValues]
      BY <2>1
    <3>. HIDE DEF words
    <3>. QED
      BY <2>1, <3>1, <3>2
  <2>. QED
    BY <2>2, <2>3, <2>4, <2>5 DEF OtherStep, GpeThread, Terminate, UserAbort, TimeoutExpires, DestroyGraph,
        CmdCb, Dequeue, WaitStart, RunFunc, FuncFails, Await, poolVars
<1>3. queue' \in Seq(Int) /\ gpe' \in GpeType
  <2>1. queue \in Seq(Int) /\ gpe \in GpeType /\ Idle \in GpeType
    BY DEF BaseInv, GpeTypeOK, GpeType, GpePcs, Idle, None
  <2>2. \A pc \in GpePcs : Goto(pc) => gpe' \in GpeType
    BY <2>1 DEF Goto, GpeType
  <2>3. CASE Dequeue
    <3>1. queue # << >> /\ queue' = Tail(queue)
      BY <2>3 DEF Dequeue
    <3>2. Head(queue) \in Int /\ Tail(queue) \in Seq(Int)
      BY <2>1, <3>1, HeadTailProperties
    <3>3. \A c \in Int, pc \in GpePcs : [Idle EXCEPT !.cmd = c, !.pc = pc] \in GpeType
      BY <2>1 DEF GpeType
    <3>. QED
      BY <2>2, <2>3, <3>1, <3>2, <3>3 DEF Dequeue, GpePcs
  <2>4. CASE Terminate
    BY <2>1, <2>4, AppendProperties DEF Terminate, TERMINATE
  <2>5. ASSUME NEW c \in Cmds, CmdCb(c) PROVE queue' \in Seq(Int) /\ gpe' = gpe
    <3>1. c \in Int
      BY Constants
    <3>. QED
      BY <2>1, <2>5, <3>1, AppendProperties DEF CmdCb
  <2>6. CASE Await
    <3>1. \A r \in SUBSET Int : [gpe EXCEPT !.pc = "convert", !.read = r] \in GpeType
      BY <2>1 DEF GpeType, GpePcs
    <3>2. {g \in GroupsOf(ItemOf(gpe.cmd)) : flag[ItemOf(gpe.cmd)][g] = "TERMINATE"} \in SUBSET Int
      BY DEF GroupsOf
    <3>3. queue' = queue
      BY <2>6 DEF Await, hostVars
    <3>4. CASE TestAbort
      <4>. DEFINE seen == {g \in GroupsOf(ItemOf(gpe.cmd)) : flag[ItemOf(gpe.cmd)][g] = "TERMINATE"}
      <4>1. gpe' = [gpe EXCEPT !.pc = "convert", !.read = seen]
        BY <2>6, <3>4 DEF Await
      <4>2. seen \in SUBSET Int
        BY <3>2
      <4>. HIDE DEF seen
      <4>3. gpe' \in GpeType
        BY <3>1, <4>1, <4>2
      <4>. QED
        BY <2>1, <3>3, <4>3
    <3>5. CASE ~TestAbort
      BY <2>1, <2>6, <3>3, <3>5 DEF Await, EndIteration
    <3>. QED
      BY <3>4, <3>5
  <2>7. CASE UserAbort \/ TimeoutExpires \/ DestroyGraph
    BY <2>1, <2>7 DEF UserAbort, TimeoutExpires, DestroyGraph, hostVars
  <2>8. CASE WaitStart \/ RunFunc \/ FuncFails
    BY <2>1, <2>2, <2>8 DEF WaitStart, RunFunc, FuncFails, hostVars, GpePcs
  <2>9. CASE Signal \/ Drain \/ Convert
    BY <2>1, <2>2, <2>9 DEF Signal, Drain, Convert, EndIteration, hostVars, GpePcs
  <2>. QED
    BY <2>1, <2>3, <2>4, <2>5, <2>6, <2>7, <2>8, <2>9 DEF OtherStep, GpeThread
<1>4. UNCHANGED <<mode, free, ngroups, cmds, main, nodes, barrier, waits, order, lastUser, block>>
  BY OtherFrame DEF deviceVars
<1>5. GpeTypeOK'
  BY <1>1, <1>2, <1>3, <1>4, OtherFrame DEF BaseInv, GpeTypeOK
<1>6. (abort' => enabled') /\ callbacks' \subseteq Captured'
  BY <1>1, <1>4, OtherFrame DEF BaseInv, Captured, enabled
<1>. QED
  BY <1>4, <1>5, <1>6 DEF BaseInv, CommandsSound, HasFlag, ItemOf, LaunchedAsOne, PlacesSound

LEMMA BaseStep == BaseInv /\ [Next]_vars => BaseInv'
<1>. SUFFICES ASSUME BaseInv, [Next]_vars PROVE BaseInv'
  OBVIOUS
<1>1. CASE UNCHANGED vars
  BY <1>1 DEF vars, abortVars, poolVars, hostVars, deviceVars, graphVars, BaseInv, GpeTypeOK, CommandsSound,
      HasFlag, ItemOf, LaunchedAsOne, PlacesSound, Captured, enabled
<1>2. CASE Next
  BY <1>2, SubmitBase, SubmitFailsBase, LaunchBase, PreLaunchFailsBase, LaunchFailsBase, ReplayBase,
     KernelBase, OtherBase DEF Next, OtherStep
<1>. QED
  BY <1>1, <1>2

\* The base holds in every state.
THEOREM BaseCorrect == Spec => []BaseInv
BY InitBase, BaseStep, PTL DEF Spec

-----------------------------------------------------------------------------
(* The order of kernels.                                                   *)

LEMMA InitOrder == Init => OrderInv
<1>. SUFFICES ASSUME Init PROVE OrderInv
  OBVIOUS
<1>1. cmds = << >> /\ DOMAIN cmds = {}
  BY DEF Init
<1>2. stream \in [Streams -> Seq(Nat)] /\ \A s \in Streams : DOMAIN stream[s] = {} /\ DOMAIN nodes[s] = {}
  BY DEF Init
<1>. QED
  BY <1>1, <1>2, InitBase DEF Init, OrderInv, NodesCaptured, InStream, BegunAtHead, WaitsForEarlier, KernelsInOrder

\* A step that launches nothing and moves no block.
LEMMA OrderFrame ==
    ASSUME OrderInv, BaseInv', UNCHANGED <<cmds, nodes, stream, barrier, waits, order, lastUser, block>>,
           UNCHANGED <<missed, unwaited, unrecorded>>
    PROVE  OrderInv'
BY DEF OrderInv, NodesCaptured, InStream, BegunAtHead, WaitsForEarlier, KernelsInOrder, Ordered, Plain, Begun,
    Exited, BlocksOf, Captured

LEMMA SubmitOrder ==
    ASSUME OrderInv, BaseInv', NEW s \in mode.shapes, Submit(s) \/ SubmitHost(s)
    PROVE  OrderInv'
<1>0. PICK n \in Nat : n = Len(cmds) + 1
  BY DEF OrderInv, BaseInv, GpeTypeOK
<1>1. s \in ShapeType /\ s.stream \in Streams
  BY ModeFacts DEF OrderInv, BaseInv, GpeTypeOK, ShapeType
<1>2. /\ n \in Cmds /\ DOMAIN cmds' = DOMAIN cmds \cup {n} /\ n \notin DOMAIN cmds
      /\ \A c \in DOMAIN cmds : cmds'[c] = cmds[c]
      /\ cmds'[n].captured = s.captured
  <2>1. PICK i \in Items \cup {NoItem} : cmds' = Append(cmds, Cmd(s, i)) /\ Len(cmds) < MaxCmds
    BY ModeFacts DEF Submit, SubmitHost, Available, OrderInv, BaseInv, GpeTypeOK
  <2>. QED
    BY <1>0, <1>1, <2>1, Appended DEF OrderInv, BaseInv, Cmd
<1>3. UNCHANGED <<stream, barrier, waits, order, lastUser, block, missed, unwaited, unrecorded>>
  BY DEF Submit, SubmitHost, deviceVars, failVars
<1>4. \A g \in Groups : block[n][g] = "none"
  BY <1>2 DEF OrderInv, BaseInv, LaunchedAsOne
<1>5. /\ block[n][1] = "none" /\ ~Begun(n)'
      /\ ~ \E g \in BlocksOf(n)' : block[n][g] \in {"tested", "running", "exited"}
  <2>1. cmds'[n].groups = s.groups /\ s.groups \in 1 .. MaxGroups
    <3>1. PICK i \in Items \cup {NoItem} : cmds' = Append(cmds, Cmd(s, i)) /\ Len(cmds) < MaxCmds
      BY ModeFacts DEF Submit, SubmitHost, Available, OrderInv, BaseInv, GpeTypeOK
    <3>. QED
      BY <1>0, <1>1, <3>1, Appended DEF OrderInv, BaseInv, Cmd, ShapeType
  <2>2. BlocksOf(n)' \subseteq Groups /\ 1 \in Groups
    BY <2>1, Constants DEF BlocksOf, Groups
  <2>. QED
    BY <1>3, <1>4, <2>2 DEF Begun
<1>6. /\ \A c \in DOMAIN cmds : Plain(c)' = Plain(c) /\ Exited(c)' = Exited(c) /\ Begun(c)' = Begun(c)
      /\ \A c \in DOMAIN cmds : cmds'[c].stream = cmds[c].stream
      /\ Captured \subseteq Captured' /\ (s.captured => n \in Captured')
  BY <1>2, <1>3 DEF Plain, Exited, Begun, BlocksOf, Captured
<1>7. NodesCaptured'
  <2>1. CASE ~s.captured
    BY <1>6, <2>1 DEF Submit, SubmitHost, graphVars, OrderInv, NodesCaptured
  <2>2. CASE s.captured
    <3>1. nodes' = [nodes EXCEPT ![s.stream] = Append(@, n)] \/ nodes' = nodes
      BY <1>0, <2>2 DEF Submit, SubmitHost, graphVars
    <3>2. nodes \in [Streams -> Seq(Nat)] /\ n \in Nat
      BY <1>2, Constants DEF OrderInv, BaseInv, GpeTypeOK
    <3>3. CASE nodes' = nodes
      BY <1>6, <3>3 DEF OrderInv, NodesCaptured
    <3>4. CASE nodes' = [nodes EXCEPT ![s.stream] = Append(@, n)]
      <4>. SUFFICES ASSUME NEW t \in Streams, NEW k \in DOMAIN nodes'[t]
                    PROVE  nodes'[t][k] \in Captured'
        BY DEF NodesCaptured
      <4>1. CASE t # s.stream
        BY <1>6, <3>2, <3>4, <4>1 DEF OrderInv, NodesCaptured
      <4>2. CASE t = s.stream
        <5>1. nodes'[t] = Append(nodes[t], n) /\ nodes[t] \in Seq(Nat)
          BY <3>2, <3>4, <4>2
        <5>2. k \in DOMAIN nodes[t] \/ k = Len(nodes[t]) + 1
          BY <5>1
        <5>3. nodes'[t][k] = n \/ (k \in DOMAIN nodes[t] /\ nodes'[t][k] = nodes[t][k])
          BY <3>2, <5>1, <5>2
        <5>. QED
          BY <1>6, <2>2, <5>3 DEF OrderInv, NodesCaptured
      <4>. QED
        BY <4>1, <4>2
    <3>. QED
      BY <3>1, <3>3, <3>4
  <2>. QED
    BY <2>1, <2>2
<1>8. InStream'
  <2>1. InStream
    BY DEF OrderInv
  <2>2. \A t \in Streams : \A k \in DOMAIN stream[t] :
          stream[t][k] \in DOMAIN cmds /\ (Plain(stream[t][k])' <=> Plain(stream[t][k]))
    BY <1>2, <1>3, <2>1 DEF InStream, Plain
  <2>3. \A c \in DOMAIN cmds' : Plain(c)' /\ block[c][1] # "none" /\ ~Exited(c)' =>
          \E k \in DOMAIN stream[cmds'[c].stream] : stream[cmds'[c].stream][k] = c
    BY <1>2, <1>5, <1>6, <2>1 DEF InStream
  <2>4. \A t \in Streams : \A j, k \in DOMAIN stream[t] :
          j < k /\ Plain(stream[t][j])' /\ Plain(stream[t][k])' => stream[t][j] < stream[t][k]
    BY <2>1, <2>2 DEF InStream
  <2>. QED
    BY <1>2, <1>3, <2>1, <2>2, <2>3, <2>4 DEF InStream
<1>9. BegunAtHead' /\ WaitsForEarlier'
  BY <1>2, <1>3, <1>5, <1>6 DEF OrderInv, BegunAtHead, WaitsForEarlier, Ordered
<1>10. KernelsInOrder'
  <2>. SUFFICES ASSUME NEW c \in DOMAIN cmds', NEW d \in DOMAIN cmds', c < d,
                       ~cmds'[c].captured, ~cmds'[d].captured, block'[c][1] # "none",
                       \E g \in BlocksOf(d)' : block'[d][g] \in {"tested", "running", "exited"},
                       Ordered(c, d)'
                PROVE  Exited(c)'
    BY DEF KernelsInOrder
  <2>1. c \in DOMAIN cmds /\ d \in DOMAIN cmds
    BY <1>2, <1>3, <1>5
  <2>. QED
    BY <1>2, <1>3, <1>6, <2>1 DEF OrderInv, KernelsInOrder, Ordered, BlocksOf
<1>. QED
  BY <1>7, <1>8, <1>9, <1>10 DEF OrderInv

\* The kernel submit is about to launch, and the last of the commands.
LEMMA MainIsLast ==
    ASSUME BaseInv, main # None
    PROVE  /\ main \in DOMAIN cmds /\ main \in Cmds /\ main \in Nat
           /\ \A c \in DOMAIN cmds : c \in Nat /\ c <= main
           /\ cmds[main].stream \in Streams
           /\ Plain(main) /\ \A g \in Groups : block[main][g] = "none"
<1>1. main \in DOMAIN cmds /\ \A c \in DOMAIN cmds : c \in Nat /\ c <= main
  BY DEF BaseInv, GpeTypeOK, None
<1>2. main \in Cmds /\ main \in Nat /\ cmds[main].stream \in Streams
  BY <1>1, LaunchedPlaces, Constants DEF Command
<1>. QED
  BY <1>1, <1>2 DEF BaseInv, LaunchedAsOne, Plain

\* preKernelLaunch: the stream now waits for every kernel but its own, unless a wait that
\* was missed is still the last one.
LEMMA PreKernelWaits ==
    ASSUME OrderInv, NEW s \in Streams, PreKernelLaunch(s)
    PROVE  /\ lastUser' = s
           /\ ~missed' => \A c \in order : c \in barrier'[s] \/ cmds[c].stream = s
<1>1. /\ barrier'[s] = barrier[s] \cup WaitsBefore(s) /\ lastUser' = s
      /\ ~missed' => ~missed \/ s # lastUser
  BY DEF PreKernelLaunch, OrderInv, BaseInv, GpeTypeOK
<1>2. s # NoStream
  BY Constants
<1>. QED
  BY <1>1, <1>2 DEF WaitsBefore, OrderInv, WaitsForEarlier

LEMMA LaunchFailsOrder ==
    ASSUME OrderInv, BaseInv', LaunchFails
    PROVE  OrderInv'
<1>1. main # None /\ PreKernelLaunch(cmds[main].stream)
  BY DEF LaunchFails
<1>2. cmds[main].stream \in Streams /\ cmds[main].stream # NoStream
  BY <1>1, MainIsLast, Constants DEF OrderInv
<1>3. /\ lastUser' = cmds[main].stream
      /\ ~missed' => \A c \in order : c \in barrier'[lastUser'] \/ cmds[c].stream = lastUser'
  BY <1>1, <1>2, PreKernelWaits
<1>4. UNCHANGED <<cmds, nodes, stream, waits, order, block, unwaited, unrecorded>>
  BY DEF LaunchFails, graphVars
<1>5. WaitsForEarlier'
  BY <1>2, <1>3, <1>4 DEF OrderInv, WaitsForEarlier, Ordered, Plain
<1>. QED
  BY <1>4, <1>5 DEF OrderInv, NodesCaptured, InStream, BegunAtHead, KernelsInOrder, Ordered, Plain, Begun,
    Exited, BlocksOf, Captured

LEMMA PreLaunchFailsOrder ==
    ASSUME OrderInv, BaseInv', PreLaunchFails
    PROVE  OrderInv'
<1>1. main # None /\ lastUser' = cmds[main].stream /\ missed'
  BY DEF PreLaunchFails
<1>2. cmds[main].stream # NoStream
  BY <1>1, MainIsLast, Constants DEF OrderInv
<1>3. UNCHANGED <<cmds, nodes, stream, barrier, waits, order, block, unwaited, unrecorded>>
  BY DEF PreLaunchFails, graphVars
<1>4. WaitsForEarlier'
  BY <1>1, <1>2, <1>3 DEF OrderInv, WaitsForEarlier, Ordered, Plain
<1>. QED
  BY <1>3, <1>4 DEF OrderInv, NodesCaptured, InStream, BegunAtHead, KernelsInOrder, Ordered, Plain, Begun,
    Exited, BlocksOf, Captured

LEMMA LaunchOrder ==
    ASSUME OrderInv, BaseInv', Launch
    PROVE  OrderInv'
<1>0. main # None
  BY DEF Launch
<1>1. PICK m \in Cmds : m = main
  BY <1>0, MainIsLast DEF OrderInv
<1>2. PICK s \in Streams : s = cmds[m].stream /\ s # NoStream
  BY <1>0, <1>1, MainIsLast, Constants DEF OrderInv
<1>3. /\ m \in DOMAIN cmds /\ m \in Nat /\ Plain(m) /\ \A g \in Groups : block[m][g] = "none"
      /\ \A c \in DOMAIN cmds : c \in Nat /\ c <= m
  BY <1>0, <1>1, MainIsLast DEF OrderInv
<1>4. /\ 1 \in BlocksOf(m) /\ BlocksOf(m) \subseteq Groups /\ Launched(m) \in [Groups -> {"none", "launched"}]
      /\ \A g \in BlocksOf(m) : Launched(m)[g] = "launched"
  BY <1>3, LaunchedPlaces DEF OrderInv
<1>5. /\ block'[m] = Launched(m) /\ \A c \in Cmds : c # m => block'[c] = block[c]
      /\ stream'[s] = Append(stream[s], m) /\ \A t \in Streams : t # s => stream'[t] = stream[t]
      /\ stream' \in [Streams -> Seq(Nat)] /\ stream \in [Streams -> Seq(Nat)]
      /\ waits'[m] = barrier'[s] /\ \A c \in Cmds : c # m => waits'[c] = waits[c]
      /\ \/ order' = order \cup {m} /\ unrecorded' = unrecorded
         \/ order' = order /\ unrecorded' = unrecorded \cup {m}
      /\ unwaited' = IF missed' THEN unwaited \cup {m} ELSE unwaited
  <2>1. stream \in [Streams -> Seq(Nat)]
    BY DEF OrderInv, InStream
  <2>2. block' = [block EXCEPT ![m] = Launched(m)] /\ stream' = [stream EXCEPT ![s] = Append(@, m)]
    BY <1>1, <1>2 DEF Launch
  <2>3. /\ waits' = [waits EXCEPT ![m] = barrier'[s]]
        /\ \/ order' = order \cup {m} /\ unrecorded' = unrecorded
           \/ order' = order /\ unrecorded' = unrecorded \cup {m}
        /\ unwaited' = IF missed' THEN unwaited \cup {m} ELSE unwaited
    BY <1>1, <1>2 DEF Launch, PostKernelLaunch, OrderAfter
  <2>4. block \in [Cmds -> [Groups -> Places]] /\ waits \in [Cmds -> SUBSET Nat]
    BY DEF OrderInv, BaseInv, GpeTypeOK
  <2>. QED
    BY <1>3, <2>1, <2>2, <2>3, <2>4
<1>6. lastUser' = s /\ (~missed' => \A c \in order : c \in barrier'[s] \/ cmds[c].stream = s)
  BY <1>1, <1>2, PreKernelWaits DEF Launch
<1>7. cmds' = cmds /\ nodes' = nodes
  BY DEF Launch, graphVars
<1>8. /\ \A c \in DOMAIN cmds : c \in Cmds /\ BlocksOf(c)' = BlocksOf(c) /\ Plain(c)' = Plain(c)
      /\ \A c \in DOMAIN cmds : c # m => Exited(c)' = Exited(c) /\ Begun(c)' = Begun(c)
      /\ ~Begun(m)' /\ ~Exited(m)
      /\ ~ \E g \in BlocksOf(m)' : block'[m][g] \in {"tested", "running", "exited"}
  <2>1. \A c \in DOMAIN cmds : c \in Cmds
    BY LaunchedPlaces DEF OrderInv
  <2>. QED
    BY <1>3, <1>4, <1>5, <1>7, <2>1 DEF Plain, Exited, Begun, BlocksOf
<1>9. /\ Len(stream'[s]) = Len(stream[s]) + 1 /\ stream'[s][Len(stream[s]) + 1] = m
      /\ Len(stream[s]) \in Nat
      /\ \A k \in DOMAIN stream[s] : k \in DOMAIN stream'[s] /\ stream'[s][k] = stream[s][k]
      /\ \A k \in DOMAIN stream'[s] : k \in DOMAIN stream[s] \/ k = Len(stream[s]) + 1
      /\ Len(stream[s]) + 1 \in DOMAIN stream'[s]
      /\ stream[s] # << >> => stream'[s] # << >> /\ Head(stream'[s]) = Head(stream[s])
  <2>1. stream[s] \in Seq(Nat) /\ m \in Nat /\ stream'[s] = Append(stream[s], m)
    BY <1>3, <1>5
  <2>. QED
    BY <2>1
<1>10. InStream'
  <2>1. \A c \in DOMAIN cmds : Plain(c) /\ block'[c][1] # "none" /\ ~Exited(c)' =>
          \E k \in DOMAIN stream'[cmds[c].stream] : stream'[cmds[c].stream][k] = c
    <3>. SUFFICES ASSUME NEW c \in DOMAIN cmds, Plain(c), block'[c][1] # "none", ~Exited(c)'
                  PROVE  \E k \in DOMAIN stream'[cmds[c].stream] : stream'[cmds[c].stream][k] = c
      OBVIOUS
    <3>1. CASE c = m
      BY <1>2, <1>9, <3>1
    <3>2. CASE c # m
      <4>1. PICK k \in DOMAIN stream[cmds[c].stream] : stream[cmds[c].stream][k] = c
        BY <1>5, <1>8, <3>2 DEF OrderInv, InStream
      <4>2. cmds[c].stream \in Streams
        BY LaunchedPlaces DEF OrderInv, Command
      <4>3. CASE cmds[c].stream = s
        BY <1>9, <4>1, <4>3
      <4>4. CASE cmds[c].stream # s
        BY <1>5, <4>1, <4>2, <4>4
      <4>. QED
        BY <4>3, <4>4
    <3>. QED
      BY <3>1, <3>2
  <2>2. \A t \in Streams : \A j, k \in DOMAIN stream'[t] :
          j < k /\ Plain(stream'[t][j]) /\ Plain(stream'[t][k]) => stream'[t][j] < stream'[t][k]
    <3>. SUFFICES ASSUME NEW t \in Streams, NEW j \in DOMAIN stream'[t], NEW k \in DOMAIN stream'[t],
                         j < k, Plain(stream'[t][j]), Plain(stream'[t][k])
                  PROVE  stream'[t][j] < stream'[t][k]
      OBVIOUS
    <3>1. CASE t = s /\ k = Len(stream[s]) + 1
      <4>1. j \in DOMAIN stream[s] /\ stream'[t][j] = stream[s][j]
        BY <1>9, <3>1
      <4>2. stream[s][j] \in DOMAIN cmds /\ block[stream[s][j]][1] # "none"
        BY <3>1, <4>1 DEF OrderInv, InStream
      <4>3. stream[s][j] # m
        BY <1>3, <1>4, <4>2
      <4>. QED
        BY <1>3, <1>9, <3>1, <4>1, <4>2, <4>3
    <3>2. CASE t = s /\ k # Len(stream[s]) + 1
      <4>1. k \in DOMAIN stream[s] /\ DOMAIN stream[s] = 1 .. Len(stream[s]) /\ DOMAIN stream'[s] = 1 .. Len(stream'[s])
        BY <1>5, <1>9, <3>2
      <4>2. j \in DOMAIN stream[s]
        BY <1>9, <3>2, <4>1
      <4>. QED
        BY <1>9, <3>2, <4>1, <4>2 DEF OrderInv, InStream
    <3>3. CASE t # s
      BY <1>5, <3>3 DEF OrderInv, InStream
    <3>. QED
      BY <3>1, <3>2, <3>3
  <2>3. \A t \in Streams : \A k \in DOMAIN stream'[t] :
          stream'[t][k] \in DOMAIN cmds /\ (Plain(stream'[t][k]) => block'[stream'[t][k]][1] # "none")
    <3>. SUFFICES ASSUME NEW t \in Streams, NEW k \in DOMAIN stream'[t]
                  PROVE  stream'[t][k] \in DOMAIN cmds /\ (Plain(stream'[t][k]) => block'[stream'[t][k]][1] # "none")
      OBVIOUS
    <3>1. CASE t = s /\ k = Len(stream[s]) + 1
      BY <1>3, <1>4, <1>5, <1>9, <3>1
    <3>2. CASE t # s \/ k \in DOMAIN stream[s]
      <4>1. k \in DOMAIN stream[t] /\ stream'[t][k] = stream[t][k]
        BY <1>5, <1>9, <3>2
      <4>2. stream[t][k] \in DOMAIN cmds /\ (Plain(stream[t][k]) => block[stream[t][k]][1] # "none")
        BY <4>1 DEF OrderInv, InStream
      <4>3. \A c \in DOMAIN cmds : block[c][1] # "none" => block'[c][1] # "none"
        BY <1>4, <1>5, <1>8
      <4>. QED
        BY <4>1, <4>2, <4>3
    <3>. QED
      BY <1>9, <3>1, <3>2
  <2>. QED
    BY <1>5, <1>7, <2>1, <2>2, <2>3 DEF InStream, Plain
<1>11. BegunAtHead'
  <2>1. \A c \in DOMAIN cmds : Begun(c)' => c # m /\ Begun(c) /\ cmds[c].stream \in Streams
    <3>1. \A c \in DOMAIN cmds : cmds[c].stream \in Streams
      BY LaunchedPlaces DEF OrderInv, Command
    <3>. QED
      BY <1>8, <3>1
  <2>. QED
    BY <1>5, <1>7, <1>9, <2>1 DEF OrderInv, BegunAtHead
<1>12. WaitsForEarlier'
  <2>1. WaitsForEarlier
    BY DEF OrderInv
  <2>2. \A c \in DOMAIN cmds : Plain(c) /\ block'[c][1] # "none" => c \in order' \/ c \in unrecorded'
    BY <1>5, <1>8, <2>1 DEF WaitsForEarlier
  <2>3. ~missed' => \A c \in order' : c \in barrier'[s] \/ cmds[c].stream = s
    BY <1>2, <1>5, <1>6
  <2>4. order' \subseteq DOMAIN cmds
    BY <1>3, <1>5, <2>1 DEF WaitsForEarlier
  <2>5. ASSUME NEW c \in DOMAIN cmds, NEW d \in DOMAIN cmds, c < d, Plain(c), Plain(d),
               block'[c][1] # "none", block'[d][1] # "none", Ordered(c, d)'
        PROVE  c \in waits'[d] \/ cmds[c].stream = cmds[d].stream
    <3>1. c # m
      BY <1>3, <2>5
    <3>2. block[c][1] # "none" /\ (c \in order \/ c \in unrecorded)
      BY <1>5, <1>8, <2>1, <2>5, <3>1 DEF WaitsForEarlier
    <3>0. (c \notin unrecorded' /\ d \notin unwaited') \/ cmds[c].stream = cmds[d].stream
      BY <1>7, <2>5 DEF Ordered
    <3>3. CASE d = m
      BY <1>2, <1>5, <1>6, <3>0, <3>2, <3>3
    <3>4. CASE d # m
      <4>1. block[d][1] # "none" /\ waits'[d] = waits[d] /\ Ordered(c, d)
        BY <1>5, <1>8, <2>5, <3>0, <3>4 DEF Ordered
      <4>. QED
        BY <2>1, <2>5, <3>2, <4>1 DEF WaitsForEarlier
    <3>. QED
      BY <3>3, <3>4
  <2>. QED
    BY <1>2, <1>6, <1>7, <2>2, <2>3, <2>4, <2>5 DEF WaitsForEarlier, Plain
<1>13. KernelsInOrder'
  <2>. SUFFICES ASSUME NEW c \in DOMAIN cmds, NEW d \in DOMAIN cmds, c < d, Plain(c), Plain(d),
                       block'[c][1] # "none",
                       \E g \in BlocksOf(d)' : block'[d][g] \in {"tested", "running", "exited"},
                       Ordered(c, d)'
                PROVE  Exited(c)'
    BY <1>7 DEF KernelsInOrder, Plain
  <2>1. c # m /\ d # m
    BY <1>3, <1>8
  <2>2. Ordered(c, d)
    BY <1>5, <1>7 DEF Ordered
  <2>. QED
    BY <1>5, <1>8, <2>1, <2>2 DEF OrderInv, KernelsInOrder, Plain
<1>. QED
  BY <1>7, <1>10, <1>11, <1>12, <1>13 DEF OrderInv, NodesCaptured, Captured

\* What is appended leaves what was there in its place.
Continues(r, p, q) ==
    /\ r \in Seq(Nat) /\ Len(p) \in Nat
    /\ DOMAIN p = 1 .. Len(p) /\ DOMAIN r = 1 .. Len(r) /\ Len(r) >= Len(p)
    /\ \A k \in DOMAIN p : k \in DOMAIN r /\ r[k] = p[k]
    /\ \A k \in DOMAIN r : k \in DOMAIN p \/ \E j \in DOMAIN q : r[k] = q[j]
    /\ p # << >> => r # << >> /\ Head(r) = Head(p)

LEMMA ConcatFacts ==
    ASSUME NEW p \in Seq(Nat), NEW q \in Seq(Nat)
    PROVE  Continues(p \o q, p, q)
<1>. DEFINE r == p \o q
<1>1. /\ r \in Seq(Nat) /\ Len(r) = Len(p) + Len(q)
      /\ \A k \in 1 .. Len(p) + Len(q) : r[k] = IF k <= Len(p) THEN p[k] ELSE q[k - Len(p)]
  BY ConcatProperties
<1>. HIDE DEF r
<1>2. /\ Len(p) \in Nat /\ Len(q) \in Nat /\ Len(r) \in Nat
      /\ DOMAIN p = 1 .. Len(p) /\ DOMAIN q = 1 .. Len(q) /\ DOMAIN r = 1 .. Len(r)
  BY <1>1
<1>3. \A k \in DOMAIN p : k \in DOMAIN r /\ r[k] = p[k]
  BY <1>1, <1>2
<1>4. ASSUME NEW k \in DOMAIN r, k \notin DOMAIN p
      PROVE  \E j \in DOMAIN q : r[k] = q[j]
  <2>1. k - Len(p) \in DOMAIN q /\ r[k] = q[k - Len(p)]
    BY <1>1, <1>2, <1>4
  <2>. QED
    BY <2>1
<1>5. ASSUME p # << >>
      PROVE  r # << >> /\ Head(r) = Head(p)
  <2>1. 1 \in DOMAIN p
    BY <1>2, <1>5, EmptySeq
  <2>2. 1 \in DOMAIN r /\ r[1] = p[1]
    BY <1>3, <2>1
  <2>. QED
    BY <1>1, <2>2
<1>6. Continues(r, p, q)
  BY <1>1, <1>2, <1>3, <1>4, <1>5 DEF Continues
<1>. QED
  BY <1>6 DEF r

LEMMA ReplayOrder ==
    ASSUME OrderInv, BaseInv', ReplayGraph
    PROVE  OrderInv'
<1>1. /\ UNCHANGED <<cmds, waits, barrier, order, lastUser, missed, unwaited, unrecorded, nodes>>
      /\ Captured' = Captured
  BY ReplayedPlaces DEF OrderInv, Captured, failVars
<1>2. /\ \A c \in DOMAIN cmds : c \in Cmds /\ 1 \in BlocksOf(c) /\ cmds[c].stream \in Streams
      /\ \A c \in DOMAIN cmds : BlocksOf(c)' = BlocksOf(c)
  BY <1>1, LaunchedPlaces DEF OrderInv, Command, BlocksOf
<1>3. /\ \A c \in DOMAIN cmds : Plain(c) => block'[c] = block[c]
      /\ \A c \in Captured : \A g \in BlocksOf(c) : block'[c][g] = "launched"
  <2>1. \A c \in Captured : \A g \in BlocksOf(c) : Launched(c)[g] = "launched"
    BY LaunchedPlaces DEF OrderInv, Captured
  <2>. QED
    BY <1>2, <2>1, ReplayedPlaces DEF OrderInv, Plain, Captured
<1>4. ASSUME NEW c \in DOMAIN cmds
      PROVE  /\ c \in Captured \/ Plain(c)
             /\ Plain(c) /\ Exited(c) => Exited(c)'
             /\ Plain(c) /\ Exited(c)' => Exited(c)
             /\ Begun(c)' => Begun(c)
  <2>1. CASE Plain(c)
    BY <1>2, <1>3, <2>1 DEF Plain, Exited, Begun
  <2>2. CASE ~Plain(c)
    BY <1>2, <1>3, <2>2 DEF Plain, Captured, Begun
  <2>. QED
    BY <2>1, <2>2
<1>5. /\ stream \in [Streams -> Seq(Nat)] /\ nodes \in [Streams -> Seq(Nat)]
      /\ stream' = [t \in Streams |-> stream[t] \o nodes[t]]
  BY DEF OrderInv, InStream, BaseInv, GpeTypeOK, ReplayGraph
<1>6. ASSUME NEW t \in Streams
      PROVE  /\ stream'[t] \in Seq(Nat) /\ Len(stream[t]) \in Nat
             /\ DOMAIN stream[t] = 1 .. Len(stream[t]) /\ DOMAIN stream'[t] = 1 .. Len(stream'[t])
             /\ Len(stream'[t]) >= Len(stream[t])
             /\ \A k \in DOMAIN stream[t] : k \in DOMAIN stream'[t] /\ stream'[t][k] = stream[t][k]
             /\ \A k \in DOMAIN stream'[t] : k \in DOMAIN stream[t] \/ stream'[t][k] \in Captured
             /\ stream[t] # << >> => stream'[t] # << >> /\ Head(stream'[t]) = Head(stream[t])
  <2>1. stream[t] \in Seq(Nat) /\ nodes[t] \in Seq(Nat) /\ stream'[t] = stream[t] \o nodes[t]
    BY <1>5
  <2>2. \A k \in DOMAIN nodes[t] : nodes[t][k] \in Captured
    BY DEF OrderInv, NodesCaptured
  <2>3. Continues(stream'[t], stream[t], nodes[t])
    BY <2>1, ConcatFacts
  <2>4. \A k \in DOMAIN stream'[t] : k \in DOMAIN stream[t] \/ stream'[t][k] \in Captured
    BY <2>2, <2>3 DEF Continues
  <2>. QED
    BY <2>3, <2>4 DEF Continues
<1>7. ASSUME NEW t \in Streams, NEW k \in DOMAIN stream'[t]
      PROVE  /\ stream'[t][k] \in DOMAIN cmds
             /\ Plain(stream'[t][k]) => k \in DOMAIN stream[t] /\ stream'[t][k] = stream[t][k]
  <2>1. CASE stream'[t][k] \in Captured
    BY <2>1 DEF Captured, Plain
  <2>2. CASE k \in DOMAIN stream[t]
    BY <1>6, <2>2 DEF OrderInv, InStream
  <2>. QED
    BY <1>6, <2>1, <2>2
<1>8. InStream'
  <2>1. InStream
    BY DEF OrderInv
  <2>2. stream' \in [Streams -> Seq(Nat)]
    BY <1>5, <1>6
  <2>3. \A c \in DOMAIN cmds : Plain(c) /\ block'[c][1] # "none" /\ ~Exited(c)' =>
          \E k \in DOMAIN stream'[cmds[c].stream] : stream'[cmds[c].stream][k] = c
    <3>. SUFFICES ASSUME NEW c \in DOMAIN cmds, Plain(c), block'[c][1] # "none", ~Exited(c)'
                  PROVE  \E k \in DOMAIN stream'[cmds[c].stream] : stream'[cmds[c].stream][k] = c
      OBVIOUS
    <3>1. block[c][1] # "none" /\ ~Exited(c) /\ cmds[c].stream \in Streams
      BY <1>2, <1>3, <1>4
    <3>2. PICK k \in DOMAIN stream[cmds[c].stream] : stream[cmds[c].stream][k] = c
      BY <2>1, <3>1 DEF InStream
    <3>. QED
      BY <1>6, <3>1, <3>2
  <2>4. \A t \in Streams : \A j, k \in DOMAIN stream'[t] :
          j < k /\ Plain(stream'[t][j]) /\ Plain(stream'[t][k]) => stream'[t][j] < stream'[t][k]
    BY <1>7, <2>1 DEF InStream
  <2>5. \A t \in Streams : \A k \in DOMAIN stream'[t] :
          stream'[t][k] \in DOMAIN cmds /\ (Plain(stream'[t][k]) => block'[stream'[t][k]][1] # "none")
    BY <1>3, <1>7, <2>1 DEF InStream
  <2>. QED
    BY <1>1, <2>2, <2>3, <2>4, <2>5 DEF InStream, Plain
<1>9. BegunAtHead'
  <2>. SUFFICES ASSUME NEW c \in DOMAIN cmds, Begun(c)'
                PROVE  stream'[cmds[c].stream] # << >> /\ Head(stream'[cmds[c].stream]) = c
    BY <1>1 DEF BegunAtHead
  <2>1. Begun(c) /\ cmds[c].stream \in Streams
    BY <1>2, <1>4
  <2>. QED
    BY <1>6, <2>1 DEF OrderInv, BegunAtHead
<1>10. WaitsForEarlier' /\ KernelsInOrder'
  <2>1. WaitsForEarlier'
    BY <1>1, <1>3 DEF OrderInv, WaitsForEarlier, Ordered, Plain
  <2>2. KernelsInOrder'
    <3>. SUFFICES ASSUME NEW c \in DOMAIN cmds, NEW d \in DOMAIN cmds, c < d, Plain(c), Plain(d),
                         block'[c][1] # "none",
                         \E g \in BlocksOf(d)' : block'[d][g] \in {"tested", "running", "exited"},
                         Ordered(c, d)'
                  PROVE  Exited(c)'
      BY <1>1 DEF KernelsInOrder, Plain
    <3>0. Ordered(c, d)
      BY <1>1 DEF Ordered
    <3>1. Exited(c)
      BY <1>2, <1>3, <3>0 DEF OrderInv, KernelsInOrder, Plain
    <3>. QED
      BY <1>4, <3>1
  <2>. QED
    BY <2>1, <2>2
<1>. QED
  BY <1>1, <1>8, <1>9, <1>10 DEF OrderInv, NodesCaptured

\* A kernel that begins has all earlier ones it waits for behind it.
LEMMA EarlierExited ==
    ASSUME OrderInv, NEW d \in DOMAIN cmds, Plain(d), block[d][1] # "none", CanRun(d),
           NEW c \in DOMAIN cmds, Plain(c), c < d, block[c][1] # "none", Ordered(c, d)
    PROVE  Exited(c)
<1>1. CASE c \in waits[d]
  BY <1>1 DEF CanRun
<1>2. CASE cmds[c].stream = cmds[d].stream
  <2>. SUFFICES ASSUME ~Exited(c) PROVE FALSE
    OBVIOUS
  <2>1. PICK t \in Streams : t = cmds[c].stream /\ t = cmds[d].stream
    BY <1>2, LaunchedPlaces DEF OrderInv, Command
  <2>2. PICK k \in DOMAIN stream[t] : stream[t][k] = c
    BY <2>1 DEF OrderInv, InStream
  <2>3. stream[t] \in Seq(Nat) /\ stream[t] # << >> /\ stream[t][1] = d
    BY <2>1 DEF CanRun, OrderInv, InStream
  <2>4. 1 \in DOMAIN stream[t] /\ (k = 1 \/ 1 < k)
    BY <2>2, <2>3
  <2>5. c # d /\ c \in Nat /\ d \in Nat
    BY DEF OrderInv, BaseInv, GpeTypeOK
  <2>6. 1 < k => d < c
    BY <2>2, <2>3, <2>4 DEF OrderInv, InStream
  <2>. QED
    BY <2>2, <2>3, <2>4, <2>5, <2>6
<1>. QED
  BY <1>1, <1>2 DEF OrderInv, WaitsForEarlier

LEMMA KernelOrder ==
    ASSUME OrderInv, BaseInv', NEW c \in Cmds, NEW g \in Groups, KernelStep(c, g)
    PROVE  OrderInv'
<1>1. PICK to \in {"tested", "running", "exited"} :
        /\ to # "exited" => cmds[c].kind = "wait"
        /\ MoveBlock(c, g, to)
        /\ CanRun(c) \/ block[c][g] = "running"
  BY KernelMoves DEF OrderInv
<1>2. /\ c \in DOMAIN cmds /\ g \in BlocksOf(c) /\ block[c][g] \in {"launched", "tested", "running"}
      /\ cmds' = cmds /\ nodes' = nodes
  BY KernelMoves DEF OrderInv, hostVars, graphVars
<1>3. PICK s \in Streams : s = cmds[c].stream
  BY <1>2, LaunchedPlaces DEF OrderInv, Command
<1>4. /\ block'[c] = [block[c] EXCEPT ![g] = to] /\ \A d \in Cmds : d # c => block'[d] = block[d]
      /\ block[c] \in [Groups -> Places]
      /\ UNCHANGED <<barrier, waits, order, lastUser, missed, unwaited, unrecorded>>
  BY <1>1 DEF MoveBlock, failVars, OrderInv, BaseInv, GpeTypeOK
<1>5. stream \in [Streams -> Seq(Nat)] /\ stream[s] # << >> /\ Head(stream[s]) = c
  <2>1. stream \in [Streams -> Seq(Nat)]
    BY DEF OrderInv, InStream
  <2>2. CASE CanRun(c)
    BY <1>3, <2>1, <2>2 DEF CanRun
  <2>3. CASE block[c][g] = "running"
    <3>1. Begun(c)
      BY <1>2, <2>3 DEF Begun
    <3>. QED
      BY <1>2, <1>3, <2>1, <3>1 DEF OrderInv, BegunAtHead
  <2>. QED
    BY <1>1, <2>2, <2>3
\* Either the kernel has exited and left, or no stream changed.
<1>6. \/ Exited(c)' /\ stream' = [stream EXCEPT ![s] = Tail(@)]
      \/ ~Exited(c)' /\ stream' = stream
  <2>1. Exited(c)' <=> to = "exited" /\ \A h \in BlocksOf(c) \ {g} : block[c][h] = "exited"
    <3>1. BlocksOf(c) \subseteq Groups /\ BlocksOf(c)' = BlocksOf(c)
      BY <1>2, LaunchedPlaces DEF OrderInv, BlocksOf
    <3>. QED
      BY <1>2, <1>4, <3>1 DEF Exited
  <2>. QED
    BY <1>1, <1>3, <2>1 DEF MoveBlock
<1>7. ASSUME NEW d \in DOMAIN cmds
      PROVE  /\ d \in Cmds /\ d \in Nat /\ 1 \in Groups /\ cmds[d].stream \in Streams
             /\ block'[d][1] # "none" <=> block[d][1] # "none"
             /\ Exited(d) => Exited(d)'
             /\ d # c => (Exited(d)' => Exited(d)) /\ (Begun(d)' => Begun(d))
  <2>1. d \in Cmds /\ d \in Nat /\ 1 \in Groups /\ cmds[d].stream \in Streams
    BY LaunchedPlaces, Constants DEF OrderInv, Command
  <2>2. block[c][1] # "none"
    BY <1>2 DEF OrderInv, BaseInv, LaunchedAsOne
  <2>3. block'[d][1] # "none" <=> block[d][1] # "none"
    BY <1>4, <2>1, <2>2
  <2>4. Exited(d) => Exited(d)'
    BY <1>2, <1>4, <2>1 DEF Exited, BlocksOf
  <2>5. d # c => (Exited(d)' => Exited(d)) /\ (Begun(d)' => Begun(d))
    BY <1>2, <1>4, <2>1 DEF Exited, Begun, BlocksOf
  <2>. QED
    BY <2>1, <2>3, <2>4, <2>5
<1>8. WaitsForEarlier' /\ NodesCaptured'
  <2>1. Captured' = Captured
    BY <1>2 DEF Captured
  <2>. QED
    BY <1>2, <1>4, <1>7, <2>1 DEF OrderInv, WaitsForEarlier, NodesCaptured, Ordered, Plain
<1>9. KernelsInOrder'
  <2>. SUFFICES ASSUME NEW a \in DOMAIN cmds, NEW d \in DOMAIN cmds, a < d, Plain(a), Plain(d),
                       block'[a][1] # "none",
                       \E h \in BlocksOf(d)' : block'[d][h] \in {"tested", "running", "exited"},
                       Ordered(a, d)'
                PROVE  Exited(a)'
    BY <1>2 DEF KernelsInOrder, Plain
  <2>1. block[a][1] # "none" /\ Ordered(a, d)
    BY <1>2, <1>4, <1>7 DEF Ordered
  <2>2. CASE d # c
    <3>1. \E h \in BlocksOf(d) : block[d][h] \in {"tested", "running", "exited"}
      BY <1>2, <1>4, <1>7, <2>2 DEF BlocksOf
    <3>. QED
      BY <1>7, <2>1, <3>1 DEF OrderInv, KernelsInOrder, Plain
  <2>3. CASE d = c /\ CanRun(c)
    <3>1. block[c][1] # "none"
      BY <1>2, <1>7 DEF OrderInv, BaseInv, LaunchedAsOne
    <3>2. Exited(a)
      BY <2>1, <2>3, <3>1, EarlierExited
    <3>. QED
      BY <1>7, <3>2
  <2>4. CASE d = c /\ block[c][g] = "running"
    <3>1. Exited(a)
      BY <1>2, <2>1, <2>4 DEF OrderInv, KernelsInOrder, Plain
    <3>. QED
      BY <1>7, <3>1
  <2>. QED
    BY <1>1, <2>2, <2>3, <2>4
<1>10. InStream
  BY DEF OrderInv
\* What leaves a stream is the kernel at its head.
<1>11. CASE Exited(c)' /\ stream' = [stream EXCEPT ![s] = Tail(@)]
  <2>1. /\ stream'[s] \in Seq(Nat) /\ Len(stream'[s]) = Len(stream[s]) - 1 /\ Len(stream[s]) \in Nat
        /\ \A k \in 1 .. Len(stream'[s]) : stream'[s][k] = stream[s][k + 1]
        /\ \A t \in Streams : t # s => stream'[t] = stream[t]
        /\ DOMAIN stream[s] = 1 .. Len(stream[s]) /\ DOMAIN stream'[s] = 1 .. Len(stream'[s])
        /\ stream[s][1] = c /\ stream' \in [Streams -> Seq(Nat)]
    <3>1. stream[s] \in Seq(Nat) /\ stream'[s] = Tail(stream[s])
      BY <1>5, <1>11
    <3>2. /\ stream'[s] \in Seq(Nat) /\ Len(stream'[s]) = Len(stream[s]) - 1
          /\ \A k \in 1 .. Len(stream'[s]) : stream'[s][k] = stream[s][k + 1]
      BY <1>5, <3>1, HeadTailProperties
    <3>. QED
      BY <1>5, <1>11, <3>1, <3>2
  <2>. DEFINE off(t) == IF t = s THEN 1 ELSE 0
  <2>2. ASSUME NEW t \in Streams, NEW k \in DOMAIN stream'[t]
        PROVE  /\ k + off(t) \in DOMAIN stream[t] /\ stream'[t][k] = stream[t][k + off(t)]
               /\ k \in Int
    <3>1. CASE t = s
      BY <2>1, <3>1
    <3>2. CASE t # s
      <4>1. stream'[t] = stream[t] /\ k \in Int
        BY <1>10, <2>1, <3>2 DEF InStream
      <4>. QED
        BY <3>2, <4>1
    <3>. QED
      BY <3>1, <3>2
  <2>3. ASSUME NEW d \in DOMAIN cmds, Plain(d), block'[d][1] # "none", ~Exited(d)'
        PROVE  \E k \in DOMAIN stream'[cmds[d].stream] : stream'[cmds[d].stream][k] = d
    <3>1. d # c /\ block[d][1] # "none" /\ ~Exited(d)
      BY <1>7, <1>11, <2>3
    <3>2. PICK k \in DOMAIN stream[cmds[d].stream] : stream[cmds[d].stream][k] = d
      BY <1>10, <2>3, <3>1 DEF InStream
    <3>3. CASE cmds[d].stream = s
      <4>1. k # 1 /\ k - 1 \in 1 .. Len(stream'[s]) /\ (k - 1) + 1 = k
        BY <2>1, <3>1, <3>2, <3>3
      <4>2. stream'[s][k - 1] = d
        BY <2>1, <3>2, <3>3, <4>1
      <4>. QED
        BY <2>1, <3>3, <4>1, <4>2
    <3>4. CASE cmds[d].stream # s
      BY <1>7, <2>1, <3>2, <3>4
    <3>. QED
      BY <3>3, <3>4
  <2>4. ASSUME NEW t \in Streams, NEW j \in DOMAIN stream'[t], NEW k \in DOMAIN stream'[t], j < k,
               Plain(stream'[t][j]), Plain(stream'[t][k])
        PROVE  stream'[t][j] < stream'[t][k]
    <3>1. /\ j + off(t) \in DOMAIN stream[t] /\ stream'[t][j] = stream[t][j + off(t)] /\ j \in Int
          /\ k + off(t) \in DOMAIN stream[t] /\ stream'[t][k] = stream[t][k + off(t)] /\ k \in Int
      BY <2>2
    <3>2. j + off(t) < k + off(t)
      BY <2>4, <3>1
    <3>. QED
      BY <1>10, <2>4, <3>1, <3>2 DEF InStream
  <2>5. ASSUME NEW t \in Streams, NEW k \in DOMAIN stream'[t]
        PROVE  stream'[t][k] \in DOMAIN cmds /\ (Plain(stream'[t][k]) => block'[stream'[t][k]][1] # "none")
    <3>1. PICK m \in DOMAIN stream[t] : stream'[t][k] = stream[t][m]
      BY <2>2
    <3>2. stream[t][m] \in DOMAIN cmds /\ (Plain(stream[t][m]) => block[stream[t][m]][1] # "none")
      BY <1>10 DEF InStream
    <3>3. \A d \in DOMAIN cmds : block[d][1] # "none" => block'[d][1] # "none"
      BY <1>7
    <3>. QED
      BY <3>1, <3>2, <3>3
  <2>6. InStream'
    BY <1>2, <2>1, <2>3, <2>4, <2>5 DEF InStream, Plain
  <2>7. BegunAtHead'
    <3>. SUFFICES ASSUME NEW d \in DOMAIN cmds, Begun(d)'
                  PROVE  stream'[cmds[d].stream] # << >> /\ Head(stream'[cmds[d].stream]) = d
      BY <1>2 DEF BegunAtHead
    <3>1. d # c
      BY <1>11 DEF Begun, Exited
    <3>2. stream[cmds[d].stream] # << >> /\ Head(stream[cmds[d].stream]) = d
      BY <1>7, <3>1 DEF OrderInv, BegunAtHead
    <3>. QED
      BY <1>5, <1>7, <2>1, <3>1, <3>2
  <2>. QED
    BY <1>8, <1>9, <2>6, <2>7 DEF OrderInv
<1>12. CASE ~Exited(c)' /\ stream' = stream
  <2>1. InStream'
    <3>1. \A d \in DOMAIN cmds : Plain(d) /\ block'[d][1] # "none" /\ ~Exited(d)' =>
            \E k \in DOMAIN stream[cmds[d].stream] : stream[cmds[d].stream][k] = d
      <4>. SUFFICES ASSUME NEW d \in DOMAIN cmds, Plain(d), block'[d][1] # "none", ~Exited(d)'
                    PROVE  \E k \in DOMAIN stream[cmds[d].stream] : stream[cmds[d].stream][k] = d
        OBVIOUS
      <4>. QED
        BY <1>7, <1>10 DEF InStream
    <3>. QED
      BY <1>2, <1>7, <1>10, <1>12, <3>1 DEF InStream, Plain
  <2>2. BegunAtHead'
    <3>. SUFFICES ASSUME NEW d \in DOMAIN cmds, Begun(d)'
                  PROVE  stream[cmds[d].stream] # << >> /\ Head(stream[cmds[d].stream]) = d
      BY <1>2, <1>12 DEF BegunAtHead
    <3>. QED
      BY <1>3, <1>5, <1>7 DEF OrderInv, BegunAtHead
  <2>. QED
    BY <1>8, <1>9, <2>1, <2>2 DEF OrderInv
<1>. QED
  BY <1>6, <1>11, <1>12

LEMMA OrderStep == OrderInv /\ [Next]_vars => OrderInv'
<1>. SUFFICES ASSUME OrderInv, [Next]_vars PROVE OrderInv'
  OBVIOUS
<1>1. BaseInv /\ BaseInv'
  BY BaseStep DEF OrderInv
<1>2. CASE UNCHANGED vars
  BY <1>1, <1>2, OrderFrame DEF vars, hostVars, graphVars, deviceVars, failVars
<1>3. CASE OtherStep
  BY <1>1, <1>3, OtherFrame, OrderFrame DEF deviceVars, failVars
<1>5. ASSUME NEW s \in mode.shapes, SubmitFails(s) PROVE OrderInv'
  BY <1>1, <1>5, SubmitFailsTakes, OrderFrame DEF graphVars
<1>4. CASE Next
  BY <1>1, <1>3, <1>4, <1>5, SubmitOrder, LaunchOrder, PreLaunchFailsOrder, LaunchFailsOrder, ReplayOrder,
     KernelOrder DEF Next, OtherStep
<1>. QED
  BY <1>2, <1>4

\* postKernelLaunch makes every later kernel wait, and preKernelLaunch may leave the wait
\* out for a stream that was used last: kernels still run in the order of submission, but
\* for two on different streams of which the earlier was not recorded or the later was
\* launched without the wait, because a CUDA call failed.
THEOREM KernelsRunInOrder == Spec => []KernelsInOrder
<1>1. Spec => []OrderInv
  BY InitOrder, OrderStep, PTL DEF Spec
<1>2. OrderInv => KernelsInOrder
  BY DEF OrderInv
<1>. QED
  BY <1>1, <1>2, PTL

-----------------------------------------------------------------------------
(* Who holds an item.  What compromises the pool's protocol does so for    *)
(* good.                                                                   *)

LEMMA LaunchFailedStays ==
    ASSUME BaseInv, UNCHANGED cmds, NEW c \in DOMAIN cmds, LaunchFailed(c), main' # c, block'[c][1] = block[c][1]
    PROVE  LaunchFailed(c)'
BY DEF LaunchFailed, HasFlag, ItemOf

LEMMA LentStays ==
    ASSUME UNCHANGED cmds, abandoned \subseteq abandoned', Lent
    PROVE  Lent'
BY DEF Lent, IsLent, Captured, ItemOf

LEMMA CompromisedStays ==
    ASSUME BaseInv, Next, Compromised
    PROVE  Compromised'
<1>1. CASE OtherStep
  <2>1. cmds' = cmds /\ main' = main /\ block' = block /\ (abort => abort') /\ abandoned' = abandoned
    BY <1>1, OtherFrame DEF deviceVars, failVars
  <2>2. Lent => Lent'
    BY <2>1, LentStays
  <2>3. ASSUME NEW c \in DOMAIN cmds, LaunchFailed(c) PROVE LaunchFailed(c)'
    BY <2>1, <2>3, LaunchFailedStays DEF LaunchFailed
  <2>. QED
    BY <2>1, <2>2, <2>3 DEF Compromised
<1>2. ASSUME NEW s \in mode.shapes, Submit(s) \/ SubmitHost(s) PROVE Compromised'
  <2>1. PICK n \in Nat : n = Len(cmds) + 1
    BY DEF BaseInv, GpeTypeOK
  <2>2. s \in ShapeType
    BY ModeFacts DEF BaseInv, GpeTypeOK
  <2>3. PICK i \in Items \cup {NoItem} : cmds' = Append(cmds, Cmd(s, i)) /\ Len(cmds) < MaxCmds
    BY <1>2, ModeFacts DEF Submit, SubmitHost, Available, BaseInv, GpeTypeOK
  <2>4. /\ DOMAIN cmds' = DOMAIN cmds \cup {n} /\ n \notin DOMAIN cmds
        /\ \A c \in DOMAIN cmds : cmds'[c] = cmds[c]
    BY <2>1, <2>2, <2>3, Appended DEF BaseInv
  <2>5. main = None /\ main' \in {None, n} /\ block' = block /\ abort' = abort /\ abandoned' = abandoned
    BY <1>2, <2>1 DEF Submit, SubmitHost, MainIdle, deviceVars, failVars, abortVars
  <2>6. Lent => Lent'
    BY <2>4, <2>5 DEF Lent, IsLent, Captured, ItemOf
  <2>7. ASSUME NEW c \in DOMAIN cmds, LaunchFailed(c) PROVE c \in DOMAIN cmds' /\ LaunchFailed(c)'
    <3>1. c # None
      BY DEF None, BaseInv, GpeTypeOK
    <3>. QED
      BY <2>4, <2>5, <2>7, <3>1 DEF LaunchFailed, HasFlag, ItemOf
  <2>. QED
    BY <2>5, <2>6, <2>7 DEF Compromised
<1>3. CASE Launch \/ LaunchFails \/ PreLaunchFails
  <2>1. /\ cmds' = cmds /\ abort' = abort /\ main' = None /\ main \in Cmds /\ main # None
        /\ abandoned \subseteq abandoned'
    BY <1>3, MainIsLast DEF Launch, LaunchFails, PreLaunchFails, abortVars
  <2>2. Lent => Lent'
    BY <2>1, LentStays
  <2>3. ASSUME NEW c \in DOMAIN cmds, LaunchFailed(c) PROVE LaunchFailed(c)'
    <3>1. c # main /\ c # None /\ c \in Cmds
      BY <2>3, LaunchedPlaces DEF LaunchFailed, None, BaseInv, GpeTypeOK
    <3>2. block'[c] = block[c]
      BY <1>3, <2>1, <3>1 DEF Launch, LaunchFails, PreLaunchFails, BaseInv, GpeTypeOK
    <3>. QED
      BY <2>1, <2>3, <3>1, <3>2, LaunchFailedStays
  <2>. QED
    BY <2>1, <2>2, <2>3 DEF Compromised
<1>6. ASSUME NEW s \in mode.shapes, SubmitFails(s) PROVE Compromised'
  <2>1. cmds' = cmds /\ abort' = abort /\ main' = main /\ block' = block /\ abandoned \subseteq abandoned'
    BY <1>6, SubmitFailsTakes DEF abortVars
  <2>2. Lent => Lent'
    BY <2>1, LentStays
  <2>3. ASSUME NEW c \in DOMAIN cmds, LaunchFailed(c) PROVE LaunchFailed(c)'
    BY <2>1, <2>3, LaunchFailedStays DEF LaunchFailed
  <2>. QED
    BY <2>1, <2>2, <2>3 DEF Compromised
<1>4. CASE ReplayGraph
  <2>1. cmds' = cmds /\ abort' = abort /\ main' = main /\ abandoned' = abandoned
    BY <1>4, ReplayedPlaces DEF abortVars, failVars
  <2>2. Lent => Lent'
    BY <2>1, LentStays
  <2>3. ASSUME NEW c \in DOMAIN cmds, LaunchFailed(c) PROVE LaunchFailed(c)'
    <3>1. c \notin Captured /\ c \in Cmds /\ c # main
      BY <2>3, LaunchedPlaces DEF LaunchFailed, Captured
    <3>2. block'[c] = block[c]
      BY <1>4, <3>1, ReplayedPlaces
    <3>. QED
      BY <2>1, <2>3, <3>1, <3>2, LaunchFailedStays
  <2>. QED
    BY <2>1, <2>2, <2>3 DEF Compromised
<1>5. ASSUME NEW c \in Cmds, NEW g \in Groups, KernelStep(c, g) PROVE Compromised'
  <2>1. /\ cmds' = cmds /\ abort' = abort /\ main' = main /\ block[c][g] # "none"
        /\ abandoned' = abandoned
        /\ \E to \in Places : block' = [block EXCEPT ![c][g] = to]
    BY <1>5, KernelMoves DEF hostVars, abortVars, failVars, MoveBlock, Places
  <2>2. Lent => Lent'
    BY <2>1, LentStays
  <2>3. ASSUME NEW d \in DOMAIN cmds, LaunchFailed(d) PROVE LaunchFailed(d)'
    <3>1. d # main /\ d \in Cmds /\ block[d][1] = "none" /\ 1 \in Groups
      BY <2>3, LaunchedPlaces DEF LaunchFailed
    <3>2. d # c
      BY <2>1, <3>1 DEF BaseInv, LaunchedAsOne
    <3>3. block'[d] = block[d]
      BY <2>1, <3>1, <3>2 DEF BaseInv, GpeTypeOK
    <3>. QED
      BY <2>1, <2>3, <3>1, <3>3, LaunchFailedStays
  <2>. QED
    BY <2>1, <2>2, <2>3 DEF Compromised
<1>. QED
  BY <1>1, <1>2, <1>3, <1>4, <1>5, <1>6 DEF Next, OtherStep

-----------------------------------------------------------------------------
(* Until then: the steps that only move commands.                          *)

LEMMA InitHold == Init => HoldInv
<1>. SUFFICES ASSUME Init PROVE HoldInv
  OBVIOUS
<1>1. cmds = << >> /\ DOMAIN cmds = {} /\ DOMAIN queue = {} /\ gpe.pc = "idle" /\ Captured = {}
  BY DEF Init, Idle, Captured
<1>. QED
  BY <1>1 DEF Init, HoldInv, ServedOnce, GraphSound, HeldWords, NeededByOne, PendingPcs

\* A command that is queued or served still needs its item.
LEMMA PendingNeeds ==
    ASSUME HoldInv, NEW c \in DOMAIN cmds, Pending(c)
    PROVE  HasFlag(c) => Needs(c)
BY DEF HoldInv, ServedOnce, GraphSound, Needs, Captured

\* What is known of an item that is not written to and of a command that does not move.
LEMMA WordsFrame ==
    ASSUME NEW c \in DOMAIN cmds, WordsOf(c), cmds'[c] = cmds[c], block'[c] = block[c],
           free' = free \/ ItemOf(c) \notin free' \/ cmds[c].captured,
           c \in signalled' <=> c \in signalled,
           flag'[ItemOf(c)] = flag[ItemOf(c)], ngroups'[ItemOf(c)] = ngroups[ItemOf(c)]
    PROVE  WordsOf(c)'
BY DEF WordsOf, PlainWords, WaitWords, ExitWords, Word, BlocksOf, ItemOf

\* A step that touches no item.
LEMMA HeldFrame ==
    ASSUME HoldInv, UNCHANGED <<cmds, free, flag, ngroups, block, graph, signalled>>
    PROVE  HeldWords' /\ NeededByOne'
BY DEF HoldInv, HeldWords, NeededByOne, Needs, HasFlag, ItemOf, Exited, BlocksOf,
    WordsOf, PlainWords, WaitWords, ExitWords, Word

\* A step that touches no item and makes no command pending.
LEMMA HoldFrame ==
    ASSUME HoldInv, UNCHANGED <<cmds, free, flag, ngroups, block, graph, signalled, callbacks>>, ServedOnce',
           \A c \in DOMAIN cmds : Pending(c)' => Pending(c)
    PROVE  HoldInv'
<1>1. GraphSound'
  BY DEF HoldInv, GraphSound, Captured, Exited, BlocksOf
<1>. QED
  BY <1>1, HeldFrame DEF HoldInv

LEMMA DequeueHold ==
    ASSUME BaseInv, HoldInv, Dequeue
    PROVE  HoldInv'
<1>1. UNCHANGED <<cmds, free, flag, ngroups, block, graph, signalled, callbacks>>
  BY DEF Dequeue, poolVars, deviceVars, graphVars
<1>2. PICK c \in Int : c = Head(queue)
  BY HeadTailProperties DEF Dequeue, BaseInv, GpeTypeOK
<1>3. /\ queue \in Seq(Int) /\ Len(queue) \in Nat /\ DOMAIN queue = 1 .. Len(queue)
      /\ 1 \in DOMAIN queue /\ queue[1] = c
      /\ DOMAIN queue' = 1 .. (Len(queue) - 1)
      /\ \A k \in DOMAIN queue' : k + 1 \in DOMAIN queue /\ k + 1 # 1 /\ queue'[k] = queue[k + 1]
  <2>1. queue \in Seq(Int) /\ queue # << >> /\ queue' = Tail(queue)
    BY DEF Dequeue, BaseInv, GpeTypeOK
  <2>2. /\ queue' \in Seq(Int) /\ Len(queue') = Len(queue) - 1
        /\ \A k \in 1 .. Len(queue') : queue'[k] = queue[k + 1]
    BY <2>1, HeadTailProperties
  <2>. QED
    BY <1>2, <2>1, <2>2
<1>4. \/ c = TERMINATE /\ gpe' = [gpe EXCEPT !.pc = "ended"]
      \/ /\ c # TERMINATE /\ gpe'.cmd = c
         /\ gpe'.pc = IF ItemOf(c) = NoItem THEN "run" ELSE "start"
  BY <1>2 DEF Dequeue, Goto, Idle
<1>5. gpe.pc = "idle" /\ gpe \in GpeType
  BY DEF Dequeue, At, BaseInv, GpeTypeOK
<1>6. ServedOnce
  BY DEF HoldInv
<1>7. \A d \in Int : Queued(d)' => Queued(d) /\ (d = c => c = TERMINATE)
  BY <1>3, <1>6 DEF Queued, ServedOnce
<1>8. c # TERMINATE => c \in DOMAIN cmds /\ Queued(c)
  BY <1>3, <1>6 DEF ServedOnce, Queued
<1>9. \A d \in DOMAIN cmds : Pending(d)' => Pending(d)
  <2>. SUFFICES ASSUME NEW d \in DOMAIN cmds, Pending(d)' PROVE Pending(d)
    OBVIOUS
  <2>1. d \in Int
    BY DEF BaseInv, GpeTypeOK
  <2>2. CASE Queued(d)'
    BY <1>7, <2>1, <2>2 DEF Pending
  <2>3. CASE gpe'.cmd = d /\ gpe'.pc \in PendingPcs
    BY <1>4, <1>5, <1>8, <2>3 DEF Pending, PendingPcs, GpeType
  <2>. QED
    BY <2>2, <2>3 DEF Pending
<1>10. ServedOnce'
  BY <1>1, <1>3, <1>4, <1>5, <1>6, <1>7, <1>8, <1>9 DEF ServedOnce, PendingPcs, GpeType, HasFlag, ItemOf
<1>. QED
  BY <1>1, <1>9, <1>10, HoldFrame

\* The command at the thread stays the same until it is over.
LEMMA ThreadHold ==
    ASSUME HoldInv, UNCHANGED <<cmds, queue, free, flag, ngroups, block, graph, signalled, callbacks>>,
           gpe'.pc \in PendingPcs => gpe.pc \in PendingPcs,
           gpe'.pc \in PendingPcs \cup {"await"} =>
               gpe.pc \in PendingPcs \cup {"await"} /\ gpe'.cmd = gpe.cmd,
           gpe'.pc \in {"start", "drain", "await"} => HasFlag(gpe.cmd)
    PROVE  HoldInv'
<1>1. \A c : Queued(c)' <=> Queued(c)
  BY DEF Queued
<1>2. \A c : Pending(c)' => Pending(c)
  BY <1>1 DEF Pending
<1>3. ServedOnce'
  <2>1. ServedOnce
    BY DEF HoldInv
  <2>2. gpe'.pc \in PendingPcs => ~Queued(gpe.cmd)'
    BY <2>1 DEF ServedOnce, Queued
  <2>3. gpe'.pc \in {"start", "drain", "await"} => HasFlag(gpe.cmd)'
    BY DEF HasFlag, ItemOf, PendingPcs
  <2>4. \A c \in DOMAIN cmds' : Pending(c)' => c \notin signalled' /\ c \notin callbacks'
    BY <1>2, <2>1 DEF ServedOnce
  <2>. QED
    BY <2>1, <2>2, <2>3, <2>4 DEF ServedOnce, Queued
<1>. QED
  BY <1>2, <1>3, HoldFrame

LEMMA RunHold ==
    ASSUME BaseInv, HoldInv, ~Compromised', WaitStart \/ RunFunc \/ FuncFails \/ Await
    PROVE  HoldInv'
<1>1. gpe \in GpeType
  BY DEF BaseInv, GpeTypeOK
<1>2. UNCHANGED <<cmds, queue, free, flag, ngroups, block, graph, signalled, callbacks>>
  BY DEF WaitStart, RunFunc, FuncFails, Await, poolVars, hostVars, deviceVars, graphVars
<1>3. CASE WaitStart \/ RunFunc
  BY <1>1, <1>2, <1>3, ThreadHold DEF WaitStart, RunFunc, At, Goto, GpeType, PendingPcs
\* With aborts enabled a failure aborts the communicator.
<1>4. CASE FuncFails
  <2>1. ~enabled
    BY <1>4 DEF FuncFails, Compromised
  <2>. QED
    BY <1>1, <1>2, <1>4, <2>1, ThreadHold DEF FuncFails, At, Goto, GpeType, PendingPcs
<1>5. CASE Await
  <2>1. gpe'.pc \in {"convert", "idle"}
    <3>1. CASE TestAbort
      BY <1>1, <1>5, <3>1 DEF Await, GpeType
    <3>2. CASE ~TestAbort
      BY <1>5, <3>2 DEF Await, EndIteration, Idle
    <3>. QED
      BY <3>1, <3>2
  <2>. QED
    BY <1>2, <2>1, ThreadHold DEF PendingPcs
<1>. QED
  BY <1>3, <1>4, <1>5

LEMMA TimeoutHold ==
    ASSUME HoldInv, TimeoutExpires
    PROVE  HoldInv'
<1>1. UNCHANGED <<cmds, queue, free, flag, ngroups, block, graph, signalled, callbacks, gpe>>
  BY DEF TimeoutExpires, poolVars, hostVars, deviceVars, graphVars
<1>. QED
  BY <1>1, ThreadHold DEF HoldInv, ServedOnce, PendingPcs

LEMMA TerminateHold ==
    ASSUME BaseInv, HoldInv, Terminate
    PROVE  HoldInv'
<1>1. UNCHANGED <<cmds, free, flag, ngroups, block, graph, signalled, callbacks, gpe>>
  BY DEF Terminate, poolVars, deviceVars, graphVars
<1>2. /\ queue \in Seq(Int) /\ Len(queue) \in Nat /\ DOMAIN queue = 1 .. Len(queue)
      /\ DOMAIN queue' = 1 .. (Len(queue) + 1)
      /\ \A k \in DOMAIN queue : queue'[k] = queue[k]
      /\ queue'[Len(queue) + 1] = TERMINATE
  BY DEF Terminate, TERMINATE, BaseInv, GpeTypeOK
<1>3. \A c : Queued(c)' => Queued(c) \/ c = TERMINATE
  BY <1>2 DEF Queued
<1>4. \A c \in DOMAIN cmds : c # TERMINATE
  BY DEF BaseInv, GpeTypeOK, TERMINATE
<1>5. \A c \in DOMAIN cmds : Pending(c)' => Pending(c)
  BY <1>1, <1>3, <1>4 DEF Pending
<1>6. ServedOnce'
  BY <1>1, <1>2, <1>3, <1>4, <1>5 DEF HoldInv, ServedOnce, PendingPcs, HasFlag, ItemOf
<1>. QED
  BY <1>1, <1>5, <1>6, HoldFrame

LEMMA CmdCbHold ==
    ASSUME BaseInv, HoldInv, NEW c \in Cmds, CmdCb(c)
    PROVE  HoldInv'
<1>1. UNCHANGED <<cmds, free, flag, ngroups, block, graph, signalled, gpe>>
  BY DEF CmdCb, poolVars, deviceVars
<1>2. c \in callbacks /\ c \in Captured /\ c \in DOMAIN cmds /\ callbacks' = callbacks \ {c} /\ c \in Int
      /\ c # TERMINATE
  BY Constants DEF CmdCb, BaseInv, Captured, TERMINATE
<1>3. /\ queue \in Seq(Int) /\ Len(queue) \in Nat /\ DOMAIN queue = 1 .. Len(queue)
      /\ DOMAIN queue' = 1 .. (Len(queue) + 1)
      /\ \A k \in DOMAIN queue : queue'[k] = queue[k]
      /\ queue'[Len(queue) + 1] = c
  BY <1>2 DEF CmdCb, BaseInv, GpeTypeOK
<1>4. ~Pending(c) /\ c \notin signalled
  BY <1>2 DEF HoldInv, ServedOnce
<1>5. \A d : Queued(d)' => Queued(d) \/ d = c
  BY <1>3 DEF Queued
<1>6. \A d : Pending(d)' => Pending(d) \/ d = c
  BY <1>1, <1>5 DEF Pending
<1>7. ServedOnce'
  <2>1. ServedOnce
    BY DEF HoldInv
  <2>2. \A k \in DOMAIN queue : queue[k] # c
    BY <1>4 DEF Pending, Queued
  <2>3. \A j, k \in DOMAIN queue' : j # k /\ queue'[j] = queue'[k] => queue'[j] = TERMINATE
    BY <1>3, <2>1, <2>2 DEF ServedOnce
  <2>4. \A k \in DOMAIN queue' : queue'[k] # TERMINATE => queue'[k] \in DOMAIN cmds
    BY <1>2, <1>3, <2>1 DEF ServedOnce
  <2>5. gpe.pc \in PendingPcs => ~Queued(gpe.cmd)'
    <3>1. gpe.pc \in PendingPcs => gpe.cmd # c /\ ~Queued(gpe.cmd)
      BY <1>4, <2>1 DEF ServedOnce, Pending
    <3>. QED
      BY <1>1, <1>3, <3>1 DEF Queued
  <2>6. \A d \in DOMAIN cmds : Pending(d)' => d \notin signalled /\ d \notin callbacks'
    BY <1>2, <1>4, <1>6, <2>1 DEF ServedOnce
  <2>. QED
    BY <1>1, <1>2, <2>1, <2>3, <2>4, <2>5, <2>6 DEF ServedOnce, HasFlag, ItemOf, Queued
<1>8. GraphSound'
  BY <1>1, <1>2, <1>6 DEF HoldInv, GraphSound, Captured, Exited, BlocksOf
<1>. QED
  BY <1>1, <1>7, <1>8, HeldFrame DEF HoldInv

-----------------------------------------------------------------------------
(* The steps of the GPE thread that write to an item.                      *)

\* A command whose item is the one it serves.
LEMMA ServedItem ==
    ASSUME BaseInv, HoldInv, NEW d \in DOMAIN cmds, Needs(d)
    PROVE  /\ ItemOf(d) \in Items /\ cmds[d].kind \in {"wait", "exit"}
           /\ GroupsOf(ItemOf(d)) = BlocksOf(d) /\ BlocksOf(d) \subseteq Groups /\ 1 \in BlocksOf(d)
           /\ flag[ItemOf(d)] \in [Groups -> FlagValues]
           /\ WordsOf(d)
<1>1. ItemOf(d) \in Items /\ cmds[d].kind \in {"wait", "exit"}
  BY LaunchedPlaces DEF BaseInv, CommandsSound, Needs, HasFlag, ItemOf, Command
<1>2. WordsOf(d)
  BY DEF HoldInv, HeldWords
<1>. QED
  BY <1>1, <1>2, LaunchedPlaces DEF GroupsOf, BlocksOf, ItemOf, WordsOf, BaseInv, GpeTypeOK

\* The end of a command d: its flag, if it has one, gets word v or nothing changes.
LEMMA SignalledHold ==
    ASSUME BaseInv, HoldInv, NEW d \in DOMAIN cmds, Pending(d), ~Queued(d), gpe.cmd = d,
           UNCHANGED <<cmds, queue, free, ngroups, block, graph, callbacks>>,
           signalled' = signalled \cup {d},
           gpe'.pc \notin PendingPcs, gpe'.pc = "await" => gpe'.cmd = d /\ HasFlag(d),
           \A i \in Items : i # ItemOf(d) => flag'[i] = flag[i],
           Needs(d)' => WordsOf(d)'
    PROVE  HoldInv'
<1>1. \A c : Queued(c)' <=> Queued(c)
  BY DEF Queued
<1>2. \A c \in DOMAIN cmds : Pending(c)' => Pending(c) /\ c # d
  BY <1>1 DEF Pending
<1>3. d \notin callbacks
  BY DEF HoldInv, ServedOnce
<1>4. ServedOnce'
  <2>1. ServedOnce
    BY DEF HoldInv
  <2>2. gpe'.pc \in PendingPcs \cup {"await"} => gpe'.cmd \in DOMAIN cmds
    OBVIOUS
  <2>3. gpe'.pc \in {"start", "drain", "await"} => HasFlag(gpe.cmd)'
    BY DEF PendingPcs, HasFlag, ItemOf
  <2>4. \A c \in DOMAIN cmds : Pending(c)' => c \notin signalled' /\ c \notin callbacks
    BY <1>2, <2>1 DEF ServedOnce
  <2>. QED
    BY <1>1, <1>3, <2>1, <2>2, <2>3, <2>4 DEF ServedOnce
<1>5. GraphSound'
  <2>1. d \in Captured => block[d][1] # "none"
    BY DEF HoldInv, GraphSound
  <2>. QED
    BY <1>2, <2>1 DEF HoldInv, GraphSound, Captured, Exited, BlocksOf
<1>6. \A c \in DOMAIN cmds : Needs(c)' => Needs(c)
  BY DEF Needs, HasFlag, ItemOf, Exited, BlocksOf
<1>7. NeededByOne'
  BY <1>6 DEF HoldInv, NeededByOne, ItemOf
<1>8. HeldWords'
  <2>. SUFFICES ASSUME NEW c \in DOMAIN cmds, Needs(c)', c # d PROVE WordsOf(c)'
    BY DEF HeldWords
  <2>1. Needs(c) /\ WordsOf(c) /\ ItemOf(c) \in Items
    BY <1>6, ServedItem
  <2>2. ItemOf(c) # ItemOf(d)
    <3>1. CASE HasFlag(d)
      BY <2>1, <3>1, PendingNeeds DEF HoldInv, NeededByOne
    <3>2. CASE ~HasFlag(d)
      BY <2>1, <3>2 DEF HasFlag, Needs
    <3>. QED
      BY <3>1, <3>2
  <2>. QED
    BY <2>1, <2>2, WordsFrame
<1>. QED
  BY <1>4, <1>5, <1>7, <1>8 DEF HoldInv

LEMMA SignalHold ==
    ASSUME BaseInv, HoldInv, Signal
    PROVE  HoldInv'
<1>1. PICK d \in DOMAIN cmds : d = gpe.cmd /\ Pending(d) /\ ~Queued(d)
  BY DEF Signal, At, HoldInv, ServedOnce, PendingPcs, Pending
<1>2. UNCHANGED <<cmds, queue, free, ngroups, block, graph, callbacks>> /\ gpe \in GpeType
  BY DEF Signal, deviceVars, graphVars, BaseInv, GpeTypeOK
<1>3. CASE ItemOf(d) = NoItem
  <2>1. gpe' = Idle /\ flag' = flag /\ signalled' = signalled \cup {d}
    BY <1>1, <1>3 DEF Signal, EndIteration
  <2>2. ~Needs(d)'
    BY <1>2, <1>3 DEF Needs, HasFlag, ItemOf
  <2>. QED
    BY <1>1, <1>2, <2>1, <2>2, SignalledHold DEF Idle, PendingPcs
<1>4. CASE ItemOf(d) # NoItem /\ flag[ItemOf(d)][1] = "STARTED_AND_EXIT"
  <2>1. gpe' = [gpe EXCEPT !.pc = "drain"] /\ UNCHANGED <<flag, signalled>>
    BY <1>1, <1>4 DEF Signal, Goto
  <2>. QED
    BY <1>1, <1>2, <1>4, <2>1, ThreadHold DEF Signal, At, PendingPcs, HasFlag, GpeType
<1>5. CASE ItemOf(d) # NoItem /\ flag[ItemOf(d)][1] # "STARTED_AND_EXIT"
  <2>1. PICK v \in {"HOST_ABORT", "TERMINATE"} : SetFlag(ItemOf(d), v)
    BY <1>1, <1>5 DEF Signal
  <2>2. signalled' = signalled \cup {d} /\ (gpe' = Idle \/ gpe' = [gpe EXCEPT !.pc = "await"])
    BY <1>1, <1>5 DEF Signal, EndIteration, Goto
  <2>3. Needs(d) /\ HasFlag(d)
    BY <1>1, <1>5, PendingNeeds DEF HasFlag
  <2>4. flag \in [Items -> [Groups -> FlagValues]]
    BY DEF BaseInv, GpeTypeOK
  <2>5. \A i \in Items : i # ItemOf(d) => flag'[i] = flag[i]
    BY <2>1, <2>4 DEF SetFlag
  <2>6. WordsOf(d)'
    <3>1. \A g \in BlocksOf(d) : flag'[ItemOf(d)][g] = v
      BY <2>1, <2>3, <2>4, ServedItem DEF SetFlag
    <3>2. d \notin signalled /\ WordsOf(d)
      BY <1>1, <2>3, ServedItem DEF HoldInv, ServedOnce
    <3>. QED
      BY <1>2, <2>2, <3>1, <3>2 DEF WordsOf, PlainWords, WaitWords, ExitWords, Word, BlocksOf, ItemOf
  <2>7. gpe'.pc \notin PendingPcs /\ (gpe'.pc = "await" => gpe'.cmd = d)
    BY <1>1, <1>2, <2>2 DEF Idle, GpeType, PendingPcs
  <2>. QED
    BY <1>1, <1>2, <2>2, <2>3, <2>5, <2>6, <2>7, SignalledHold
<1>. QED
  BY <1>3, <1>4, <1>5

\* When every block has announced its exit, every block has exited: the thread is the
\* last to write to the item.
LEMMA DrainHold ==
    ASSUME BaseInv, HoldInv, Drain
    PROVE  HoldInv'
<1>1. PICK d \in DOMAIN cmds : d = gpe.cmd /\ Pending(d) /\ ~Queued(d) /\ HasFlag(d)
  BY DEF Drain, At, HoldInv, ServedOnce, PendingPcs, Pending
<1>2. UNCHANGED <<cmds, queue, free, ngroups, block, graph, callbacks>> /\ gpe' = Idle
      /\ signalled' = signalled \cup {d} /\ SetFlag(ItemOf(d), "UNSET") /\ DrainReady(ItemOf(d))
  BY <1>1 DEF Drain, DrainFlag, EndIteration, deviceVars, graphVars
<1>3. Needs(d)
  BY <1>1, PendingNeeds
<1>4. flag \in [Items -> [Groups -> FlagValues]]
  BY DEF BaseInv, GpeTypeOK
<1>5. \A g \in BlocksOf(d) : flag[ItemOf(d)][g] = "STARTED_AND_EXIT"
  BY <1>2, <1>3, ServedItem DEF DrainReady
<1>6. cmds[d].kind = "exit" /\ Exited(d)
  <2>1. cmds[d].kind # "wait"
    BY <1>3, <1>5, ServedItem DEF WordsOf, WaitWords, Word
  <2>2. cmds[d].kind = "exit"
    BY <1>3, <2>1, ServedItem
  <2>. QED
    BY <1>3, <1>5, <2>2, ServedItem DEF WordsOf, ExitWords, Word, Exited
<1>7. ~Needs(d)'
  <2>1. ~cmds[d].captured
    BY <1>6 DEF BaseInv, CommandsSound
  <2>. QED
    BY <1>2, <1>6, <2>1 DEF Needs, Exited, BlocksOf
<1>8. \A i \in Items : i # ItemOf(d) => flag'[i] = flag[i]
  BY <1>2, <1>4 DEF SetFlag
<1>. QED
  BY <1>1, <1>2, <1>7, <1>8, SignalledHold DEF Idle, PendingPcs


-----------------------------------------------------------------------------
(* The steps of the main thread and of the graph.                          *)

\* A graph at rest: nothing of it is queued, served or about to be.
LEMMA GraphAtRest ==
    ASSUME BaseInv, HoldInv, ~GraphRunning
    PROVE  /\ callbacks = {}
           /\ \A c \in Captured : ~Pending(c) /\ (Exited(c) \/ block[c][1] = "none")
<1>1. callbacks = {} /\ \A c \in Captured : Exited(c) \/ block[c][1] = "none"
  BY DEF GraphRunning
<1>2. ASSUME NEW c \in Captured, Pending(c) PROVE FALSE
  <2>1. c \in DOMAIN cmds /\ cmds[c].kind = "wait" /\ HasFlag(c)
    BY DEF Captured, BaseInv, CommandsSound
  <2>2. Exited(c)
    BY <1>1, <1>2 DEF HoldInv, GraphSound
  <2>3. Needs(c) /\ c \notin signalled
    BY <1>2, <2>1, PendingNeeds DEF HoldInv, ServedOnce
  <2>. QED
    BY <2>1, <2>2, <2>3, ServedItem DEF WordsOf, WaitWords, Exited
<1>. QED
  BY <1>1, <1>2

LEMMA DestroyHold ==
    ASSUME BaseInv, HoldInv, DestroyGraph
    PROVE  HoldInv'
<1>1. UNCHANGED <<cmds, queue, free, flag, ngroups, block, signalled, callbacks, gpe>> /\ graph' = "destroyed"
  BY DEF DestroyGraph, poolVars, hostVars, deviceVars
<1>2. callbacks = {} /\ \A c \in Captured : ~Pending(c) /\ (Exited(c) \/ block[c][1] = "none")
  BY GraphAtRest DEF DestroyGraph
<1>3. ServedOnce'
  BY <1>1 DEF HoldInv, ServedOnce, Pending, Queued, HasFlag, ItemOf
<1>4. GraphSound'
  <2>. SUFFICES ASSUME NEW c \in Captured
                PROVE  /\ ~(Pending(c)' \/ c \in callbacks)
                       /\ c \in signalled => block[c][1] # "none"
                       /\ Exited(c)' \/ block[c][1] = "none"
    BY <1>1 DEF GraphSound, Captured
  <2>1. ~Pending(c)'
    BY <1>1, <1>2 DEF Pending, Queued
  <2>2. Exited(c)' \/ block[c][1] = "none"
    BY <1>1, <1>2 DEF Exited, BlocksOf
  <2>. QED
    BY <1>2, <2>1, <2>2 DEF HoldInv, GraphSound
<1>5. ASSUME NEW c \in DOMAIN cmds, Needs(c)' PROVE Needs(c) /\ WordsOf(c)'
  <2>1. ~cmds[c].captured /\ Needs(c)
    BY <1>1, <1>5 DEF Needs, HasFlag, ItemOf, Exited, BlocksOf
  <2>2. WordsOf(c)
    BY <2>1, ServedItem
  <2>. QED
    BY <1>1, <2>1, <2>2, WordsFrame
<1>6. HeldWords'
  BY <1>1, <1>5 DEF HeldWords
<1>7. NeededByOne'
  BY <1>1, <1>5 DEF HoldInv, NeededByOne, ItemOf
<1>. QED
  BY <1>3, <1>4, <1>6, <1>7 DEF HoldInv

LEMMA ReplayHold ==
    ASSUME BaseInv, HoldInv, ReplayGraph
    PROVE  HoldInv'
<1>1. /\ UNCHANGED <<cmds, queue, free, flag, ngroups, gpe, graph>> /\ graph = "captured"
      /\ signalled' = signalled \ Captured /\ callbacks' = Captured
  BY ReplayedPlaces DEF ReplayGraph, poolVars
<1>2. \A c \in Captured : ~Pending(c) /\ (Exited(c) \/ block[c][1] = "none")
  BY GraphAtRest DEF ReplayGraph
<1>3. \A c \in DOMAIN cmds : Pending(c)' => Pending(c) /\ c \notin Captured
  BY <1>1, <1>2 DEF Pending, Queued
<1>4. ServedOnce'
  <2>1. ServedOnce
    BY DEF HoldInv
  <2>2. signalled' \cap callbacks' = {} /\ signalled' \subseteq DOMAIN cmds
    BY <1>1, <2>1 DEF ServedOnce
  <2>3. \A c \in DOMAIN cmds : Pending(c)' => c \notin signalled' /\ c \notin callbacks'
    BY <1>1, <1>3, <2>1 DEF ServedOnce
  <2>. QED
    BY <1>1, <2>1, <2>2, <2>3 DEF ServedOnce, Queued, HasFlag, ItemOf
<1>5. ASSUME NEW c \in Captured
      PROVE  /\ c \in DOMAIN cmds /\ c \in Cmds
             /\ \A g \in BlocksOf(c) : block'[c][g] = "launched"
             /\ block'[c][1] = "launched"
  <2>1. c \in DOMAIN cmds
    BY DEF Captured
  <2>2. c \in Cmds /\ 1 \in BlocksOf(c) /\ \A g \in BlocksOf(c) : Launched(c)[g] = "launched"
    BY <2>1, LaunchedPlaces
  <2>. QED
    BY <2>1, <2>2, ReplayedPlaces
<1>6. GraphSound'
  <2>1. Captured' = Captured
    BY <1>1 DEF Captured
  <2>2. \A c \in Captured : block'[c][1] # "none"
    BY <1>5
  <2>. QED
    BY <1>1, <2>1, <2>2 DEF GraphSound
<1>7. ASSUME NEW c \in DOMAIN cmds, Needs(c)' PROVE Needs(c) /\ WordsOf(c)'
  <2>1. CASE c \in Captured
    <3>1. cmds[c].captured /\ cmds[c].kind = "wait" /\ HasFlag(c)
      BY <2>1 DEF Captured, BaseInv, CommandsSound
    <3>2. Needs(c)
      BY <1>1, <3>1 DEF Needs
    <3>3. WordsOf(c)
      BY <3>2, ServedItem
    <3>4. c \notin signalled'
      BY <1>1, <2>1
    <3>5. ASSUME NEW g \in BlocksOf(c) PROVE Word(c, g) \notin {"TERMINATE", "HOST_ABORT", "STARTED_AND_EXIT"}
      <4>1. CASE Exited(c)
        BY <3>1, <3>3, <4>1 DEF WordsOf, WaitWords, Exited
      <4>2. CASE block[c][1] = "none"
        <5>1. c \notin signalled
          BY <2>1, <4>2 DEF HoldInv, GraphSound
        <5>. QED
          BY <3>1, <3>3, <5>1 DEF WordsOf, WaitWords
      <4>. QED
        BY <1>2, <2>1, <4>1, <4>2
    <3>6. ngroups'[ItemOf(c)'] = cmds'[c].groups
      BY <1>1, <3>3 DEF WordsOf, ItemOf
    <3>7. \A g \in BlocksOf(c) : block'[c][g] = "launched"
      BY <1>5, <2>1
    <3>8. PlainWords(c)' /\ ExitWords(c)'
      BY <1>1, <3>1 DEF PlainWords, ExitWords
    <3>9. WaitWords(c)'
      BY <1>1, <3>4, <3>5, <3>7 DEF WaitWords, Word, BlocksOf, ItemOf
    <3>. QED
      BY <3>2, <3>6, <3>8, <3>9 DEF WordsOf
  <2>2. CASE c \notin Captured
    <3>1. ~cmds[c].captured /\ block'[c] = block[c] /\ (c \in signalled' <=> c \in signalled)
      BY <1>1, <2>2, ReplayedPlaces, LaunchedPlaces DEF Captured
    <3>2. Needs(c)
      BY <1>1, <1>7, <3>1 DEF Needs, HasFlag, ItemOf, Exited, BlocksOf
    <3>3. WordsOf(c)
      BY <3>2, ServedItem
    <3>. QED
      BY <1>1, <3>1, <3>2, <3>3, WordsFrame
  <2>. QED
    BY <2>1, <2>2
<1>8. HeldWords'
  BY <1>1, <1>7 DEF HeldWords
<1>9. NeededByOne'
  BY <1>1, <1>7 DEF HoldInv, NeededByOne, ItemOf
<1>. QED
  BY <1>4, <1>6, <1>8, <1>9 DEF HoldInv


LEMMA LaunchHold ==
    ASSUME BaseInv, HoldInv, Launch
    PROVE  HoldInv'
<1>1. /\ UNCHANGED <<cmds, queue, free, flag, ngroups, gpe, graph, signalled, callbacks>>
      /\ block' = [block EXCEPT ![main] = Launched(main)]
  BY DEF Launch, poolVars, graphVars
<1>2. PICK m \in DOMAIN cmds : m = main /\ m \in Cmds /\ Plain(m) /\ \A g \in Groups : block[m][g] = "none"
  BY MainIsLast DEF Launch
<1>3. /\ block'[m] = Launched(m) /\ \A c \in DOMAIN cmds : c # m => block'[c] = block[c]
      /\ 1 \in BlocksOf(m) /\ BlocksOf(m) \subseteq Groups
      /\ \A g \in BlocksOf(m) : Launched(m)[g] = "launched"
  BY <1>1, <1>2, LaunchedPlaces DEF BaseInv, GpeTypeOK
<1>4. ServedOnce'
  BY <1>1 DEF HoldInv, ServedOnce, Pending, Queued, HasFlag, ItemOf
<1>5. GraphSound'
  <2>1. Captured' = Captured /\ \A c \in Captured : c \in DOMAIN cmds /\ c # m
    BY <1>1, <1>2 DEF Captured, Plain
  <2>. SUFFICES ASSUME NEW c \in Captured
                PROVE  /\ Pending(c)' \/ c \in callbacks => block[c][1] # "none" /\ graph # "destroyed"
                       /\ c \in signalled => block[c][1] # "none"
                       /\ graph = "destroyed" => Exited(c)' \/ block[c][1] = "none"
    BY <1>1, <1>3, <2>1 DEF GraphSound
  <2>2. Pending(c)' => Pending(c)
    BY <1>1 DEF Pending, Queued
  <2>3. Exited(c) => Exited(c)'
    BY <1>1, <1>3, <2>1 DEF Exited, BlocksOf
  <2>. QED
    BY <2>2, <2>3 DEF HoldInv, GraphSound
<1>6. ASSUME NEW c \in DOMAIN cmds, Needs(c)' PROVE Needs(c) /\ WordsOf(c)'
  <2>1. CASE c = m
    <3>1. ~Exited(m)
      BY <1>2, <1>3 DEF Exited
    <3>2. Needs(m)
      BY <1>1, <1>2, <1>6, <2>1, <3>1 DEF Needs, Plain, HasFlag, ItemOf
    <3>3. WordsOf(m)
      BY <3>2, ServedItem
    <3>4. \A g \in BlocksOf(m) : block[m][g] = "none" /\ block'[m][g] = "launched"
      BY <1>2, <1>3
    <3>5. PlainWords(m)'
      BY <1>1, <3>3, <3>4 DEF WordsOf, PlainWords, Word, BlocksOf, ItemOf
    <3>6. WaitWords(m)' /\ ExitWords(m)'
      BY <1>1, <3>3, <3>4 DEF WordsOf, WaitWords, ExitWords, Word, BlocksOf, ItemOf
    <3>. QED
      BY <1>1, <2>1, <3>2, <3>3, <3>5, <3>6 DEF WordsOf, ItemOf
  <2>2. CASE c # m
    <3>1. Needs(c)
      BY <1>1, <1>3, <1>6, <2>2 DEF Needs, HasFlag, ItemOf, Exited, BlocksOf
    <3>2. WordsOf(c)
      BY <3>1, ServedItem
    <3>. QED
      BY <1>1, <1>3, <2>2, <3>1, <3>2, WordsFrame
  <2>. QED
    BY <2>1, <2>2
<1>7. HeldWords'
  BY <1>1, <1>6 DEF HeldWords
<1>8. NeededByOne'
  BY <1>1, <1>6 DEF HoldInv, NeededByOne, ItemOf
<1>. QED
  BY <1>4, <1>5, <1>7, <1>8 DEF HoldInv

\* A launch that is not reached leaves command and item as they are.
LEMMA PreLaunchFailsHold ==
    ASSUME HoldInv, PreLaunchFails
    PROVE  HoldInv'
<1>1. /\ UNCHANGED <<cmds, queue, free, flag, ngroups, gpe, graph, signalled, callbacks, block>>
  BY DEF PreLaunchFails, poolVars, graphVars
<1>2. ServedOnce'
  BY <1>1 DEF HoldInv, ServedOnce, Pending, Queued, HasFlag, ItemOf
<1>3. \A c \in DOMAIN cmds : Pending(c)' => Pending(c)
  BY <1>1 DEF Pending, Queued
<1>. QED
  BY <1>1, <1>2, <1>3, HoldFrame

\* A failed launch compromises the protocol, but for a kernel without an item.
LEMMA LaunchFailsHold ==
    ASSUME BaseInv, HoldInv, ~Compromised', LaunchFails
    PROVE  HoldInv'
<1>1. /\ UNCHANGED <<cmds, queue, free, ngroups, gpe, graph, signalled, callbacks, block>>
      /\ main' = None
  BY DEF LaunchFails, graphVars
<1>2. PICK m \in DOMAIN cmds : m = main /\ Plain(m) /\ block[m][1] = "none" /\ m # None
  BY MainIsLast, LaunchedPlaces DEF LaunchFails
<1>3. ~HasFlag(m)
  <2>1. HasFlag(m) => LaunchFailed(m)'
    BY <1>1, <1>2 DEF LaunchFailed, Plain, HasFlag, ItemOf
  <2>. QED
    BY <1>1, <2>1 DEF Compromised
<1>4. flag' = flag
  BY <1>2, <1>3 DEF LaunchFails, HasFlag, ItemOf
<1>5. ServedOnce'
  BY <1>1 DEF HoldInv, ServedOnce, Pending, Queued, HasFlag, ItemOf
<1>6. \A c \in DOMAIN cmds : Pending(c)' => Pending(c)
  BY <1>1 DEF Pending, Queued
<1>. QED
  BY <1>1, <1>4, <1>5, <1>6, HoldFrame

-----------------------------------------------------------------------------
(* The steps of the device.                                                *)

\* What remains to be shown of a step of kernel c is what becomes of its own words.
LEMMA KernelHold ==
    ASSUME BaseInv, HoldInv, NEW c \in Cmds, NEW g \in Groups, KernelStep(c, g),
           Needs(c) => WordsOf(c)'
    PROVE  HoldInv'
<1>1. /\ c \in DOMAIN cmds /\ g \in BlocksOf(c) /\ block[c][g] \in {"launched", "tested", "running"}
      /\ UNCHANGED <<cmds, queue, free, ngroups, gpe, graph, signalled, callbacks>>
      /\ flag' = flag \/ \E v \in FlagValues : WriteFlag(c, g, v)
  BY KernelMoves DEF hostVars, graphVars
<1>2. PICK to \in {"tested", "running", "exited"} : block' = [block EXCEPT ![c][g] = to]
  BY KernelMoves DEF MoveBlock
<1>3. block \in [Cmds -> [Groups -> Places]] /\ flag \in [Items -> [Groups -> FlagValues]]
  BY DEF BaseInv, GpeTypeOK
<1>4. /\ block[c][1] # "none" /\ block'[c][1] # "none" /\ ~Exited(c)
      /\ \A d \in DOMAIN cmds : d \in Cmds /\ (d # c => block'[d] = block[d])
  <2>1. block[c][1] # "none"
    BY <1>1 DEF BaseInv, LaunchedAsOne
  <2>2. \A d \in DOMAIN cmds : d \in Cmds /\ (d # c => block'[d] = block[d]) /\ 1 \in Groups
    BY <1>2, <1>3, LaunchedPlaces
  <2>. QED
    BY <1>1, <1>2, <1>3, <2>1, <2>2 DEF Exited
<1>5. \A i \in Items : i # ItemOf(c) => flag'[i] = flag[i]
  BY <1>1, <1>3 DEF WriteFlag
<1>6. ServedOnce'
  BY <1>1 DEF HoldInv, ServedOnce, Pending, Queued, HasFlag, ItemOf
<1>7. c \in Captured => graph # "destroyed"
  BY <1>4 DEF HoldInv, GraphSound
<1>8. GraphSound'
  <2>1. Captured' = Captured
    BY <1>1 DEF Captured
  <2>. SUFFICES ASSUME NEW d \in Captured
                PROVE  /\ Pending(d)' \/ d \in callbacks => block'[d][1] # "none" /\ graph # "destroyed"
                       /\ d \in signalled => block'[d][1] # "none"
                       /\ graph = "destroyed" => Exited(d)' \/ block'[d][1] = "none"
    BY <1>1, <2>1 DEF GraphSound
  <2>2. Pending(d)' => Pending(d)
    BY <1>1 DEF Pending, Queued
  <2>3. d \in DOMAIN cmds /\ (block[d][1] # "none" <=> block'[d][1] # "none")
    BY <1>4 DEF Captured
  <2>4. d # c => (Exited(d) => Exited(d)')
    BY <1>1, <1>4, <2>3 DEF Exited, BlocksOf
  <2>. QED
    BY <1>7, <2>2, <2>3, <2>4 DEF HoldInv, GraphSound
<1>9. ASSUME NEW d \in DOMAIN cmds, Needs(d)' PROVE Needs(d) /\ WordsOf(d)'
  <2>1. CASE d = c
    <3>1. Needs(c)
      BY <1>1, <1>4, <1>9, <2>1 DEF Needs, HasFlag, ItemOf
    <3>. QED
      BY <2>1, <3>1
  <2>2. CASE d # c
    <3>1. Needs(d)
      BY <1>1, <1>4, <1>9, <2>2 DEF Needs, HasFlag, ItemOf, Exited, BlocksOf
    <3>2. ItemOf(d) \in Items /\ WordsOf(d)
      BY <3>1, ServedItem
    <3>3. ItemOf(d) # ItemOf(c)
      <4>1. HasFlag(c) => Needs(c)
        BY <1>4, <1>7, <1>1 DEF Needs, Captured
      <4>. QED
        BY <1>1, <2>2, <3>1, <3>2, <4>1, Constants DEF HoldInv, NeededByOne, HasFlag
    <3>. QED
      BY <1>1, <1>4, <1>5, <2>2, <3>1, <3>2, <3>3, WordsFrame
  <2>. QED
    BY <2>1, <2>2
<1>10. HeldWords'
  BY <1>1, <1>9 DEF HeldWords
<1>11. NeededByOne'
  BY <1>1, <1>9 DEF HoldInv, NeededByOne, ItemOf
<1>. QED
  BY <1>6, <1>8, <1>10, <1>11 DEF HoldInv


\* Each block only moves on, and leaves its word at UNSET, or at STARTED_AND_EXIT for the
\* thread to reset.
LEMMA KernelStepHold ==
    ASSUME BaseInv, HoldInv, NEW c \in Cmds, NEW g \in Groups, KernelStep(c, g)
    PROVE  HoldInv'
<1>1. /\ c \in DOMAIN cmds /\ g \in BlocksOf(c)
      /\ UNCHANGED <<cmds, free, ngroups, signalled>>
  BY KernelMoves DEF hostVars
<1>2. SUFFICES ASSUME Needs(c) PROVE WordsOf(c)'
  BY KernelHold
<1>3. /\ WordsOf(c) /\ ItemOf(c) \in Items /\ HasFlag(c) /\ g \in Groups /\ BlocksOf(c) \subseteq Groups
      /\ ItemOf(c)' = ItemOf(c) /\ BlocksOf(c)' = BlocksOf(c)
  BY <1>1, <1>2, ServedItem DEF Needs, ItemOf, BlocksOf
<1>4. block \in [Cmds -> [Groups -> Places]] /\ flag \in [Items -> [Groups -> FlagValues]]
  BY DEF BaseInv, GpeTypeOK
\* What a move to "to" and a store of v leave.
<1>5. ASSUME NEW to \in Places, MoveBlock(c, g, to)
      PROVE  block'[c][g] = to /\ \A h \in BlocksOf(c) : h # g => block'[c][h] = block[c][h]
  BY <1>1, <1>3, <1>4, <1>5 DEF MoveBlock
<1>6. ASSUME NEW v \in FlagValues, WriteFlag(c, g, v)
      PROVE  Word(c, g)' = v /\ \A h \in BlocksOf(c) : h # g => Word(c, h)' = Word(c, h)
  BY <1>1, <1>3, <1>4, <1>6 DEF WriteFlag, Word, ItemOf
<1>7. ngroups'[ItemOf(c)'] = cmds'[c].groups
  BY <1>1, <1>3 DEF WordsOf
<1>8. CASE KernelTestHostAbort(c, g)
  <2>1. PICK to \in {"running", "tested"} : MoveBlock(c, g, to)
    BY <1>8 DEF KernelTestHostAbort
  <2>2. /\ flag' = flag /\ cmds[c].kind = "wait" /\ block[c][g] = "launched"
        /\ block'[c][g] = to /\ \A h \in BlocksOf(c) : h # g => block'[c][h] = block[c][h]
    BY <1>5, <1>8, <2>1 DEF KernelTestHostAbort, poolVars, Places
  <2>3. \A h \in BlocksOf(c) : Word(c, h)' = Word(c, h)
    BY <1>3, <2>2 DEF Word
  <2>. QED
    BY <1>1, <1>3, <1>7, <2>2, <2>3 DEF WordsOf, PlainWords, WaitWords, ExitWords
<1>9. CASE KernelStartGpe(c, g)
  <2>1. /\ cmds[c].kind = "wait" /\ block[c][g] \in {"launched", "tested"}
        /\ block'[c][g] = "running" /\ \A h \in BlocksOf(c) : h # g => block'[c][h] = block[c][h]
        /\ Word(c, g)' = "STARTED" /\ \A h \in BlocksOf(c) : h # g => Word(c, h)' = Word(c, h)
    BY <1>5, <1>6, <1>9 DEF KernelStartGpe, Places, FlagValues
  <2>. QED
    BY <1>1, <1>3, <1>7, <2>1 DEF WordsOf, PlainWords, WaitWords, ExitWords
<1>10. CASE KernelWaitGpeTerminate(c, g)
  <2>1. /\ block[c][g] = "running" /\ Word(c, g) \in {"TERMINATE", "HOST_ABORT"}
        /\ block'[c][g] = "exited" /\ \A h \in BlocksOf(c) : h # g => block'[c][h] = block[c][h]
        /\ Word(c, g)' = "UNSET" /\ \A h \in BlocksOf(c) : h # g => Word(c, h)' = Word(c, h)
    BY <1>5, <1>6, <1>10 DEF KernelWaitGpeTerminate, ReleasedFlag, Places, FlagValues, Word
  <2>2. cmds[c].kind = "wait"
    BY <1>1, <1>3, <2>1 DEF BaseInv, PlacesSound
  <2>3. c \in signalled
    BY <1>1, <1>3, <2>1, <2>2 DEF WordsOf, WaitWords
  <2>. QED
    BY <1>1, <1>3, <1>7, <2>1, <2>2, <2>3 DEF WordsOf, PlainWords, WaitWords, ExitWords
<1>11. CASE KernelStartGpeAndExit(c, g)
  <2>1. /\ cmds[c].kind = "exit"
        /\ block'[c][g] = "exited" /\ \A h \in BlocksOf(c) : h # g => block'[c][h] = block[c][h]
        /\ Word(c, g)' = "STARTED_AND_EXIT" /\ \A h \in BlocksOf(c) : h # g => Word(c, h)' = Word(c, h)
    BY <1>5, <1>6, <1>11 DEF KernelStartGpeAndExit, Places, FlagValues
  <2>. QED
    BY <1>1, <1>3, <1>7, <2>1 DEF WordsOf, PlainWords, WaitWords, ExitWords
<1>12. CASE KernelBare(c, g)
  BY <1>1, <1>3, <1>12 DEF KernelBare, BaseInv, CommandsSound
<1>. QED
  BY <1>8, <1>9, <1>10, <1>11, <1>12 DEF KernelStep

-----------------------------------------------------------------------------
(* The step that gives an item away.                                       *)

\* reclaim finds no item that a command still needs, a graph's apart.
LEMMA NotAvailable ==
    ASSUME BaseInv, HoldInv, NEW c \in DOMAIN cmds, Needs(c), ~cmds[c].captured
    PROVE  ItemOf(c) \notin Available
<1>1. WordsOf(c) /\ GroupsOf(ItemOf(c)) = BlocksOf(c) /\ 1 \in BlocksOf(c)
  BY ServedItem
<1>2. PICK g \in BlocksOf(c) : block[c][g] # "exited" \/ c \notin signalled
  BY <1>1 DEF Needs, Exited
<1>3. InUse(ItemOf(c)) /\ ItemOf(c) \notin free
  BY <1>1, <1>2 DEF InUse, WordsOf, PlainWords, Word
<1>. QED
  BY <1>3 DEF Available

\* A command is submitted, with item i or with none; queue and graph follow.
LEMMA SubmitServed ==
    ASSUME BaseInv, HoldInv, NEW s \in mode.shapes, Submit(s) \/ SubmitHost(s)
    PROVE  ServedOnce' /\ GraphSound'
<1>1. PICK n \in Nat : n = Len(cmds) + 1
  BY DEF BaseInv, GpeTypeOK
<1>2. s \in ShapeType
  BY ModeFacts DEF BaseInv, GpeTypeOK
<1>3. PICK i \in Items \cup {NoItem} : cmds' = Append(cmds, Cmd(s, i)) /\ Len(cmds) < MaxCmds
  BY ModeFacts DEF Submit, SubmitHost, Available, BaseInv, GpeTypeOK
<1>4. /\ DOMAIN cmds' = DOMAIN cmds \cup {n} /\ n \notin DOMAIN cmds /\ n \in Cmds
      /\ \A c \in DOMAIN cmds : cmds'[c] = cmds[c]
      /\ cmds'[n] = Cmd(s, i)
  BY <1>1, <1>2, <1>3, Appended DEF BaseInv
<1>5. /\ UNCHANGED <<block, signalled, gpe, callbacks>>
      /\ queue' = queue \/ (queue' = Append(queue, n) /\ ~(s.captured /\ s.kind = "wait"))
      /\ graph' = graph \/ (graph' = "captured" /\ graph # "destroyed")
  BY <1>1 DEF Submit, SubmitHost, deviceVars, graphVars
<1>6. ServedOnce /\ GraphSound /\ queue \in Seq(Int) /\ n # TERMINATE
  BY <1>1 DEF HoldInv, BaseInv, GpeTypeOK, TERMINATE
<1>7. ~Queued(n) /\ ~Pending(n) /\ n \notin signalled /\ n \notin callbacks
  <2>1. ~Queued(n)
    BY <1>4, <1>6 DEF ServedOnce, Queued
  <2>. QED
    BY <1>4, <1>6, <2>1 DEF ServedOnce, Pending, BaseInv, Captured
<1>8. /\ \A c : Queued(c)' => Queued(c) \/ c = n
      /\ queue' = queue => ~Queued(n)'
      /\ \A j, k \in DOMAIN queue' : j # k /\ queue'[j] = queue'[k] => queue'[j] = TERMINATE
      /\ \A k \in DOMAIN queue' : queue'[k] # TERMINATE => queue'[k] \in DOMAIN cmds'
  <2>1. CASE queue' = queue
    BY <1>4, <1>6, <1>7, <2>1 DEF Queued, ServedOnce
  <2>2. CASE queue' = Append(queue, n)
    <3>1. /\ DOMAIN queue = 1 .. Len(queue) /\ DOMAIN queue' = 1 .. (Len(queue) + 1) /\ Len(queue) \in Nat
          /\ \A k \in DOMAIN queue : queue'[k] = queue[k]
          /\ queue'[Len(queue) + 1] = n
      BY <1>6, <2>2
    <3>2. queue' # queue
      BY <3>1
    <3>3. \A k \in DOMAIN queue : queue[k] # n
      BY <1>7 DEF Queued
    <3>. QED
      BY <1>4, <1>6, <3>1, <3>2, <3>3 DEF Queued, ServedOnce
  <2>. QED
    BY <1>5, <2>1, <2>2
<1>9. \A c \in DOMAIN cmds : Pending(c)' => Pending(c)
  BY <1>4, <1>5, <1>8 DEF Pending
<1>10. ServedOnce'
  <2>1. gpe.pc \in PendingPcs => ~Queued(gpe.cmd)'
    BY <1>4, <1>5, <1>6, <1>8 DEF ServedOnce
  <2>2. gpe.pc \in {"start", "drain", "await"} => HasFlag(gpe.cmd)'
    BY <1>4, <1>5, <1>6 DEF ServedOnce, PendingPcs, HasFlag, ItemOf
  <2>3. \A c \in DOMAIN cmds' : Pending(c)' => c \notin signalled /\ c \notin callbacks
    BY <1>4, <1>6, <1>7, <1>9 DEF ServedOnce
  <2>. QED
    BY <1>4, <1>5, <1>6, <1>8, <2>1, <2>2, <2>3 DEF ServedOnce
<1>11. GraphSound'
  <2>1. Captured' \subseteq Captured \cup {n} /\ (n \in Captured' => s.captured)
    BY <1>4 DEF Captured, Cmd
  <2>. SUFFICES ASSUME NEW c \in Captured'
                PROVE  /\ Pending(c)' \/ c \in callbacks => block[c][1] # "none" /\ graph' # "destroyed"
                       /\ c \in signalled => block[c][1] # "none"
                       /\ graph' = "destroyed" => Exited(c)' \/ block[c][1] = "none"
    BY <1>5 DEF GraphSound
  <2>2. CASE c = n
    <3>1. s.captured /\ s.kind = "wait" /\ queue' = queue
      BY <1>5, <2>1, <2>2, ModeFacts DEF BaseInv, GpeTypeOK
    <3>2. ~Pending(n)'
      BY <1>4, <1>5, <1>6, <1>8, <3>1 DEF Pending, ServedOnce
    <3>3. block[n][1] = "none"
      BY <1>4, Constants, GpeAssumption, <1>2 DEF BaseInv, LaunchedAsOne, ShapeType, Groups
    <3>. QED
      BY <1>7, <2>2, <3>2, <3>3
  <2>3. CASE c # n
    <3>1. c \in Captured /\ c \in DOMAIN cmds
      BY <2>1, <2>3 DEF Captured
    <3>2. Exited(c) => Exited(c)'
      BY <1>4, <1>5, <3>1 DEF Exited, BlocksOf
    <3>3. graph' = "destroyed" => graph = "destroyed"
      BY <1>5
    <3>. QED
      BY <1>6, <1>9, <3>1, <3>2, <3>3 DEF GraphSound
  <2>. QED
    BY <2>2, <2>3
<1>. QED
  BY <1>10, <1>11

LEMMA SubmitHold ==
    ASSUME BaseInv, HoldInv, ~Compromised', NEW s \in mode.shapes, Submit(s) \/ SubmitHost(s)
    PROVE  HoldInv'
<1>1. PICK n \in Nat : n = Len(cmds) + 1
  BY DEF BaseInv, GpeTypeOK
<1>2. s \in ShapeType
  BY ModeFacts DEF BaseInv, GpeTypeOK
<1>3. PICK i \in Items \cup {NoItem} :
        /\ cmds' = Append(cmds, Cmd(s, i)) /\ Len(cmds) < MaxCmds
        /\ i # NoItem => /\ i \in Available
                         /\ free' = Available \ {i}
                         /\ flag' = [flag EXCEPT ![i] = [g \in Groups |-> "SCHEDULED"]]
                         /\ ngroups' = [ngroups EXCEPT ![i] = s.groups]
        /\ i = NoItem => UNCHANGED <<flag, ngroups>> /\ free' \subseteq Available \cup free
  <2>1. CASE SubmitHost(s)
    BY <2>1 DEF SubmitHost, poolVars
  <2>2. CASE Submit(s)
    <3>1. Available \subseteq Items
      BY ModeFacts DEF Available, BaseInv, GpeTypeOK
    <3>. QED
      BY <2>2, <3>1, Constants DEF Submit
  <2>. QED
    BY <2>1, <2>2
<1>4. /\ DOMAIN cmds' = DOMAIN cmds \cup {n} /\ n \notin DOMAIN cmds /\ n \in Cmds
      /\ \A c \in DOMAIN cmds : cmds'[c] = cmds[c]
      /\ cmds'[n] = Cmd(s, i)
      /\ \A c \in DOMAIN cmds : c \in Nat /\ c < n
  BY <1>1, <1>2, <1>3, Appended DEF BaseInv, GpeTypeOK
<1>5. /\ UNCHANGED <<block, signalled>>
      /\ graph' = graph \/ (graph' = "captured" /\ graph # "destroyed")
  BY DEF Submit, SubmitHost, deviceVars, graphVars
<1>6. flag \in [Items -> [Groups -> FlagValues]] /\ ngroups \in [Items -> Nat]
  BY DEF BaseInv, GpeTypeOK
\* An older command keeps its item to itself, and its words as they are.
<1>7. ASSUME NEW c \in DOMAIN cmds, Needs(c)' PROVE Needs(c) /\ ItemOf(c) # i /\ WordsOf(c)'
  <2>1. Needs(c) /\ HasFlag(c)
    BY <1>4, <1>5, <1>7 DEF Needs, HasFlag, ItemOf, Exited, BlocksOf
  <2>2. WordsOf(c) /\ ItemOf(c) \in Items
    BY <2>1, ServedItem
  <2>3. ItemOf(c) # i
    <3>1. CASE cmds[c].captured
      <4>1. c \in Captured' /\ HasFlag(c)' /\ ItemOf(c)' = ItemOf(c) /\ n \in DOMAIN cmds' /\ n > c
        BY <1>4, <2>1, <3>1 DEF Captured, HasFlag, ItemOf
      <4>2. ItemOf(n)' = i
        BY <1>4 DEF ItemOf, Cmd
      <4>3. ItemOf(c) = i => Lent'
        BY <2>2, <4>1, <4>2 DEF Lent, IsLent
      <4>. QED
        BY <4>3 DEF Compromised
    <3>2. CASE ~cmds[c].captured
      BY <1>3, <2>1, <2>2, <3>2, NotAvailable, Constants
    <3>. QED
      BY <3>1, <3>2
  <2>4. ItemOf(c) \notin free' \/ cmds[c].captured
    <3>1. CASE ~cmds[c].captured
      <4>1. ItemOf(c) \notin Available /\ ItemOf(c) \notin free
        BY <2>1, <2>2, <3>1, NotAvailable DEF WordsOf, PlainWords
      <4>. QED
        BY <1>3, <4>1
    <3>. QED
      BY <3>1
  <2>5. flag'[ItemOf(c)] = flag[ItemOf(c)] /\ ngroups'[ItemOf(c)] = ngroups[ItemOf(c)]
    BY <1>3, <1>6, <2>2, <2>3
  <2>. QED
    BY <1>4, <1>5, <2>1, <2>2, <2>3, <2>4, <2>5, WordsFrame
<1>8. ASSUME Needs(n)' PROVE i # NoItem /\ WordsOf(n)'
  <2>1. i # NoItem /\ ItemOf(n)' = i /\ BlocksOf(n)' = 1 .. s.groups /\ cmds'[n].groups = s.groups /\ i \in Items
    BY <1>3, <1>4, <1>8 DEF Needs, HasFlag, ItemOf, BlocksOf, Cmd
  <2>2. \A g \in BlocksOf(n)' : g \in Groups /\ Word(n, g)' = "SCHEDULED" /\ block'[n][g] = "none"
    <3>1. \A g \in BlocksOf(n)' : g \in Groups
      BY <1>2, <2>1, Constants DEF ShapeType, Groups
    <3>2. 1 \in Groups /\ \A g \in Groups : block[n][g] = "none"
      BY <1>2, <1>4, Constants DEF BaseInv, LaunchedAsOne, ShapeType, Groups
    <3>3. \A g \in Groups : flag'[i][g] = "SCHEDULED"
      BY <1>3, <1>6, <2>1
    <3>. QED
      BY <1>5, <2>1, <3>1, <3>2, <3>3 DEF Word
  <2>3. n \notin signalled'
    BY <1>4, <1>5 DEF HoldInv, ServedOnce
  <2>4. ngroups'[i] = s.groups /\ i \notin free'
    BY <1>3, <1>6, <2>1
  <2>. QED
    BY <2>1, <2>2, <2>3, <2>4 DEF WordsOf, PlainWords, WaitWords, ExitWords
<1>9. HeldWords'
  BY <1>4, <1>7, <1>8 DEF HeldWords
<1>10. NeededByOne'
  <2>. SUFFICES ASSUME NEW c \in DOMAIN cmds', NEW d \in DOMAIN cmds', c # d, Needs(c)', Needs(d)'
                PROVE  ItemOf(c)' # ItemOf(d)'
    BY DEF NeededByOne
  <2>1. \A e \in DOMAIN cmds : ItemOf(e)' = ItemOf(e)
    BY <1>4 DEF ItemOf
  <2>2. ItemOf(n)' = i
    BY <1>4 DEF ItemOf, Cmd
  <2>. QED
    BY <1>4, <1>7, <2>1, <2>2 DEF HoldInv, NeededByOne
<1>. QED
  BY <1>9, <1>10, SubmitServed DEF HoldInv

\* A submission that fails gets an item that no command needs, a graph's apart.
LEMMA SubmitFailsHold ==
    ASSUME BaseInv, HoldInv, ~Compromised', NEW s \in mode.shapes, SubmitFails(s)
    PROVE  HoldInv'
<1>1. PICK i \in Items :
        /\ i \in Available
        /\ free' = Available \ {i}
        /\ flag' = [flag EXCEPT ![i] = [g \in Groups |-> "SCHEDULED"]]
        /\ ngroups' = [ngroups EXCEPT ![i] = s.groups]
        /\ abandoned' = abandoned \cup {i}
  BY SubmitFailsTakes
<1>2. UNCHANGED <<cmds, queue, signalled, gpe, block, graph, callbacks>>
  BY SubmitFailsTakes DEF graphVars
<1>3. flag \in [Items -> [Groups -> FlagValues]] /\ ngroups \in [Items -> Nat]
  BY DEF BaseInv, GpeTypeOK
<1>4. ServedOnce'
  BY <1>2 DEF HoldInv, ServedOnce, Pending, Queued, HasFlag, ItemOf
<1>5. GraphSound'
  BY <1>2 DEF HoldInv, GraphSound, Pending, Queued, Captured, Exited, BlocksOf
<1>6. ASSUME NEW c \in DOMAIN cmds, Needs(c)' PROVE Needs(c) /\ WordsOf(c)'
  <2>1. Needs(c)
    BY <1>2, <1>6 DEF Needs, HasFlag, ItemOf, Exited, BlocksOf
  <2>2. WordsOf(c) /\ ItemOf(c) \in Items
    BY <2>1, ServedItem
  <2>3. ItemOf(c) # i /\ (ItemOf(c) \notin free' \/ cmds[c].captured)
    <3>1. CASE cmds[c].captured
      <4>1. c \in Captured' /\ ItemOf(c)' = ItemOf(c)
        BY <1>2, <3>1 DEF Captured, ItemOf
      <4>2. ItemOf(c) = i => Lent'
        BY <1>1, <4>1 DEF Lent, IsLent
      <4>. QED
        BY <3>1, <4>2 DEF Compromised
    <3>2. CASE ~cmds[c].captured
      BY <1>1, <2>1, <3>2, NotAvailable
    <3>. QED
      BY <3>1, <3>2
  <2>4. flag'[ItemOf(c)] = flag[ItemOf(c)] /\ ngroups'[ItemOf(c)] = ngroups[ItemOf(c)]
    BY <1>1, <1>3, <2>2, <2>3
  <2>. QED
    BY <1>2, <2>1, <2>2, <2>3, <2>4, WordsFrame
<1>7. HeldWords'
  BY <1>2, <1>6 DEF HeldWords
<1>8. NeededByOne'
  BY <1>2, <1>6 DEF HoldInv, NeededByOne, ItemOf
<1>. QED
  BY <1>4, <1>5, <1>7, <1>8 DEF HoldInv

-----------------------------------------------------------------------------
(* All steps.                                                              *)

LEMMA ConvertingStep == BaseInv /\ Converting /\ [Next]_vars => Converting'
<1>. SUFFICES ASSUME BaseInv, Converting, [Next]_vars PROVE Converting'
  OBVIOUS
<1>1. gpe \in GpeType
  BY DEF BaseInv, GpeTypeOK
<1>2. CASE UNCHANGED <<mode, gpe>> /\ (abort => abort') /\ (timer' = timer \/ timer' = "expired")
  BY <1>2 DEF Converting, TestAbort, enabled
<1>3. CASE gpe'.pc # "convert"
  BY <1>3 DEF Converting
<1>4. CASE GpeThread
  <2>1. CASE Dequeue
    BY <1>1, <1>3, <2>1 DEF Dequeue, Goto, Idle, GpeType
  <2>2. CASE WaitStart \/ RunFunc \/ FuncFails
    BY <1>1, <1>3, <2>2 DEF WaitStart, RunFunc, FuncFails, Goto, GpeType
  <2>3. CASE Signal \/ Drain \/ Convert
    BY <1>1, <1>3, <2>3 DEF Signal, Drain, Convert, EndIteration, Goto, Idle, GpeType
  <2>4. CASE Await
    <3>1. CASE TestAbort
      <4>1. UNCHANGED <<mode, abort, timer>>
        BY <2>4, <3>1 DEF Await
      <4>. QED
        BY <3>1, <4>1 DEF Converting, TestAbort, enabled
    <3>2. CASE ~TestAbort
      BY <1>3, <2>4, <3>2 DEF Await, EndIteration, Idle
    <3>. QED
      BY <3>1, <3>2
  <2>. QED
    BY <1>4, <2>1, <2>2, <2>3, <2>4 DEF GpeThread
<1>5. CASE UserAbort \/ TimeoutExpires \/ Terminate \/ DestroyGraph \/ \E c \in Cmds : CmdCb(c)
  BY <1>2, <1>5 DEF UserAbort, TimeoutExpires, Terminate, DestroyGraph, CmdCb, abortVars
<1>6. CASE \/ Launch \/ PreLaunchFails \/ LaunchFails \/ ReplayGraph
           \/ \E s \in mode.shapes : Submit(s) \/ SubmitHost(s) \/ SubmitFails(s)
  BY <1>2, <1>6 DEF Launch, PreLaunchFails, LaunchFails, ReplayGraph, Submit, SubmitHost, SubmitFails, abortVars
<1>7. CASE \E c \in Cmds, g \in Groups : KernelStep(c, g)
  BY <1>2, <1>7, KernelMoves DEF abortVars
<1>8. CASE UNCHANGED vars
  BY <1>2, <1>8 DEF vars, abortVars
<1>. QED
  BY <1>4, <1>5, <1>6, <1>7, <1>8 DEF Next

\* An abort, and the conversion of words that follows one.
LEMMA AbortCompromises ==
    ASSUME BaseInv, Converting, UserAbort \/ Convert
    PROVE  Compromised'
BY DEF UserAbort, Convert, EndIteration, Converting, At, Compromised

LEMMA HoldStep ==
    ASSUME BaseInv, Converting, HoldInv, ~Compromised', Next
    PROVE  HoldInv'
<1>1. CASE GpeThread
  BY <1>1, DequeueHold, RunHold, SignalHold, DrainHold, AbortCompromises DEF GpeThread
<1>2. CASE Terminate \/ UserAbort \/ TimeoutExpires \/ DestroyGraph \/ \E c \in Cmds : CmdCb(c)
  BY <1>2, TerminateHold, AbortCompromises, TimeoutHold, DestroyHold, CmdCbHold
<1>3. CASE Launch \/ PreLaunchFails \/ LaunchFails \/ ReplayGraph
  BY <1>3, LaunchHold, PreLaunchFailsHold, LaunchFailsHold, ReplayHold
<1>4. CASE \E s \in mode.shapes : Submit(s) \/ SubmitHost(s) \/ SubmitFails(s)
  BY <1>4, SubmitHold, SubmitFailsHold
<1>5. CASE \E c \in Cmds, g \in Groups : KernelStep(c, g)
  BY <1>5, KernelStepHold
<1>. QED
  BY <1>1, <1>2, <1>3, <1>4, <1>5 DEF Next

LEMMA InitGpe == Init => GpeInv
BY InitBase, InitHold DEF GpeInv, Init, Idle, Converting

LEMMA GpeStep == GpeInv /\ [Next]_vars => GpeInv'
<1>. SUFFICES ASSUME GpeInv, [Next]_vars PROVE GpeInv'
  OBVIOUS
<1>1. BaseInv /\ BaseInv' /\ Converting'
  BY BaseStep, ConvertingStep DEF GpeInv
<1>2. CASE Next
  BY <1>1, <1>2, CompromisedStays, HoldStep DEF GpeInv
<1>3. CASE UNCHANGED vars
  <2>1. UNCHANGED <<cmds, main, abort, queue, free, flag, ngroups, block, graph, signalled, callbacks, gpe,
                    abandoned>>
    BY <1>3 DEF vars, abortVars, poolVars, hostVars, deviceVars, failVars, graphVars
  <2>2. CASE Compromised
    <3>1. Compromised'
      BY <2>1, <2>2 DEF Compromised, Lent, IsLent, Captured, LaunchFailed, HasFlag, ItemOf
    <3>. QED
      BY <1>1, <3>1 DEF GpeInv
  <2>3. CASE HoldInv
    <3>1. HoldInv'
      BY <2>1, <2>3, ThreadHold DEF HoldInv, ServedOnce, PendingPcs
    <3>. QED
      BY <1>1, <3>1 DEF GpeInv
  <2>. QED
    BY <2>2, <2>3 DEF GpeInv
<1>. QED
  BY <1>2, <1>3

\* The pool, which looks for its items on the main thread by their words alone, never gives
\* one away that a command still needs, until the protocol is Compromised.
THEOREM ItemsAreExclusive == Spec => []FlagExclusive
<1>1. Spec => []GpeInv
  BY InitGpe, GpeStep, PTL DEF Spec
<1>2. GpeInv => FlagExclusive
  <2>1. \A c \in DOMAIN cmds : Holds(c) => Needs(c)
    BY DEF Holds, Needs
  <2>. QED
    BY <2>1 DEF GpeInv, HoldInv, NeededByOne, FlagExclusive
<1>. QED
  BY <1>1, <1>2, PTL

-----------------------------------------------------------------------------
(* When flags come back.  Without aborts an item that is neither lent nor   *)
(* abandoned is followed through failed launches: it may then have several  *)
(* owners, of which all but the last are over.                              *)

Exempt(i) == i \in abandoned \/ IsLent(i)

\* The thread, past the start of a command, has seen a block of the item's last owner.
ThreadReads ==
    /\ gpe.pc \notin {"await", "convert"}
    /\ gpe.pc \in {"run", "signal"} /\ HasFlag(gpe.cmd) /\ ~Exempt(ItemOf(gpe.cmd)) =>
         Word(gpe.cmd, 1) \in {"STARTED", "STARTED_AND_EXIT"}
    /\ gpe.pc = "drain" /\ HasFlag(gpe.cmd) /\ ~Exempt(ItemOf(gpe.cmd)) =>
         Word(gpe.cmd, 1) = "STARTED_AND_EXIT"

Unused(i) ==
    /\ \A c \in DOMAIN cmds : ItemOf(c) # i
    /\ \A g \in GroupsOf(i) : flag[i][g] = "UNSET"

\* The kernel will not touch its item again.
Over(c) == ~cmds[c].captured /\ c # main /\ (Exited(c) \/ block[c][1] = "none")

AllRead(c, v) == \A g \in BlocksOf(c) : Word(c, g) = v

\* The words of a kernel that waits: the thread releases all blocks together, once the
\* first one has started.
WaitReads(c) ==
    \A g \in BlocksOf(c) :
        /\ block[c][g] \notin {"none", "tested"}
        /\ block[c][g] = "launched" => \/ Word(c, g) \in {"SCHEDULED", "TERMINATE"}
                                       \/ cmds[c].captured /\ Word(c, g) = "UNSET"
        /\ block[c][g] = "running" => Word(c, g) \in {"STARTED", "TERMINATE"}
        /\ block[c][g] = "exited" => Word(c, g) = "UNSET"
        /\ Word(c, g) = "TERMINATE" => block[c][1] \in {"running", "exited"}
        /\ block[c][1] = "launched" \/ Word(c, 1) = "STARTED" => block[c][g] # "exited"
        /\ Word(c, 1) = "STARTED" => Word(c, g) # "TERMINATE"

\* Those of a kernel that exits: drained when it has, and not before.
ExitReads(c) ==
    \/ Exited(c) /\ AllRead(c, "UNSET")
    \/ /\ c \notin signalled
       /\ \A g \in BlocksOf(c) : \/ block[c][g] = "launched" /\ Word(c, g) = "SCHEDULED"
                                 \/ block[c][g] = "exited" /\ Word(c, g) = "STARTED_AND_EXIT"

Reads(c) ==
    /\ ItemOf(c) \in free /\ ~cmds[c].captured => AllRead(c, "UNSET")
    /\ block[c][1] = "none" /\ LaunchFailed(c) => AllRead(c, "UNSET")
    /\ block[c][1] = "none" /\ ~LaunchFailed(c) => AllRead(c, "SCHEDULED") /\ c \notin signalled
    /\ block[c][1] # "none" /\ cmds[c].kind = "wait" => WaitReads(c)
    /\ block[c][1] # "none" /\ cmds[c].kind = "exit" => ExitReads(c)

\* Command c is the last owner of item i.
Current(i, c) ==
    /\ c \in DOMAIN cmds /\ ItemOf(c) = i /\ ngroups[i] = cmds[c].groups
    /\ \A d \in DOMAIN cmds : ItemOf(d) = i /\ d # c => d < c /\ Over(d)
    /\ Reads(c)

ItemSound(i) == Exempt(i) \/ Unused(i) \/ \E c \in DOMAIN cmds : Current(i, c)

\* What the queue, the thread and the graph are about.
ServedSound ==
    /\ signalled \subseteq DOMAIN cmds
    /\ \A k \in DOMAIN queue : queue[k] # TERMINATE => queue[k] \in DOMAIN cmds
    /\ gpe.pc \in PendingPcs => gpe.cmd \in DOMAIN cmds
    /\ gpe.pc \in {"start", "drain"} => HasFlag(gpe.cmd)

GraphRests ==
    /\ replays \in Nat
    /\ \A c \in Captured : block[c][1] = "none" <=> replays = 0
    /\ graph = "destroyed" => \A c \in Captured : Exited(c) \/ block[c][1] = "none"

ItemsSound == ThreadReads /\ \A i \in Items : ItemSound(i)

ComeBackInv == BaseInv /\ ServedSound /\ GraphRests /\ (~enabled => ItemsSound)

\* What the base says of a command.
LEMMA CommandFacts ==
    ASSUME BaseInv, NEW c \in DOMAIN cmds
    PROVE  /\ c \in Cmds /\ c \in Nat /\ c # None /\ cmds[c] \in Command
           /\ 1 \in BlocksOf(c) /\ BlocksOf(c) \subseteq Groups /\ 1 \in Groups
           /\ HasFlag(c) <=> ItemOf(c) \in Items
           /\ HasFlag(c) <=> cmds[c].kind \in {"wait", "exit"}
           /\ cmds[c].captured => cmds[c].kind = "wait"
           /\ block[c] \in [Groups -> Places]
           /\ block[c][1] = "none" => \A g \in Groups : block[c][g] = "none"
           /\ HasFlag(c) => flag[ItemOf(c)] \in [Groups -> FlagValues]
<1>1. c \in Cmds /\ cmds[c] \in Command /\ 1 \in BlocksOf(c) /\ BlocksOf(c) \subseteq Groups /\ 1 \in Groups
  BY LaunchedPlaces
<1>2. c \in Nat /\ c # None
  BY <1>1, Constants DEF Cmds, None
<1>3. HasFlag(c) <=> ItemOf(c) \in Items
  BY <1>1, Constants DEF HasFlag, ItemOf, Command
<1>. QED
  BY <1>1, <1>2, <1>3 DEF BaseInv, GpeTypeOK, CommandsSound, LaunchedAsOne

LEMMA InitComeBack == Init => ComeBackInv
<1>. SUFFICES ASSUME Init PROVE ComeBackInv
  OBVIOUS
<1>1. BaseInv
  BY InitBase
<1>2. DOMAIN cmds = {} /\ DOMAIN queue = {} /\ Captured = {}
  BY DEF Init, Captured
<1>3. ServedSound
  BY <1>2 DEF Init, ServedSound, Idle, PendingPcs
<1>4. GraphRests
  BY <1>2 DEF Init, GraphRests
<1>5. ThreadReads
  BY DEF Init, Idle, ThreadReads
<1>6. ASSUME NEW i \in Items PROVE Unused(i)
  <2>1. ngroups[i] = 1 /\ \A g \in Groups : flag[i][g] = "UNSET"
    BY DEF Init
  <2>2. PICK s \in mode.shapes : TRUE
    BY GpeAssumption DEF Init
  <2>3. 1 \in Groups
    BY <2>2, ModeFacts, GpeAssumption DEF Init, ShapeType, Groups
  <2>. QED
    BY <1>2, <2>1, <2>3 DEF Unused, GroupsOf
<1>. QED
  BY <1>1, <1>3, <1>4, <1>5, <1>6 DEF ComeBackInv, ItemsSound, ItemSound

LEMMA ExemptStays ==
    ASSUME NEW i, \A c \in DOMAIN cmds : c \in DOMAIN cmds' /\ cmds'[c] = cmds[c], Exempt(i),
           abandoned \subseteq abandoned'
    PROVE  Exempt(i)'
BY DEF Exempt, IsLent, Captured, ItemOf

\* An item that a step leaves alone.
LEMMA ItemFrame ==
    ASSUME NEW i \in Items, ItemSound(i), abandoned \subseteq abandoned',
           \A c \in DOMAIN cmds : c \in DOMAIN cmds' /\ cmds'[c] = cmds[c],
           \A d \in DOMAIN cmds' : d \notin DOMAIN cmds => cmds'[d].item # i,
           i \in free' => i \in free \/ \A g \in GroupsOf(i) : flag[i][g] = "UNSET",
           flag'[i] = flag[i], ngroups'[i] = ngroups[i],
           \A c \in DOMAIN cmds : ItemOf(c) = i => /\ block'[c] = block[c]
                                                   /\ c = main' <=> c = main
                                                   /\ c \in signalled' => c \in signalled
    PROVE  ItemSound(i)'
<1>1. CASE Exempt(i)
  BY <1>1, ExemptStays DEF ItemSound
<1>2. CASE Unused(i)
  BY <1>2 DEF ItemSound, Unused, ItemOf, GroupsOf
<1>3. ASSUME NEW c \in DOMAIN cmds, Current(i, c) PROVE Current(i, c)'
  <2>1. /\ c \in DOMAIN cmds' /\ cmds'[c] = cmds[c] /\ ItemOf(c) = i /\ ItemOf(c)' = i
        /\ block'[c] = block[c] /\ (c = main' <=> c = main) /\ (c \in signalled' => c \in signalled)
        /\ BlocksOf(c)' = BlocksOf(c) /\ GroupsOf(i) = BlocksOf(c)
    BY <1>3 DEF Current, ItemOf, BlocksOf, GroupsOf
  <2>2. (LaunchFailed(c)' <=> LaunchFailed(c)) /\ (Exited(c)' <=> Exited(c))
    BY <2>1 DEF LaunchFailed, HasFlag, Exited
  <2>3. \A g : Word(c, g)' = Word(c, g)
    BY <2>1 DEF Word
  <2>4. \A v : AllRead(c, v)' <=> AllRead(c, v)
    BY <2>1, <2>3 DEF AllRead
  <2>5. (WaitReads(c) => WaitReads(c)') /\ (ExitReads(c) => ExitReads(c)')
    BY <2>1, <2>2, <2>3, <2>4 DEF WaitReads, ExitReads
  <2>6. ItemOf(c)' \in free' => ItemOf(c) \in free \/ AllRead(c, "UNSET")
    BY <2>1 DEF AllRead, Word
  <2>7. Reads(c)'
    BY <1>3, <2>1, <2>2, <2>4, <2>5, <2>6 DEF Reads, Current
  <2>8. ASSUME NEW d \in DOMAIN cmds', ItemOf(d)' = i, d # c PROVE d < c /\ Over(d)'
    <3>1. d \in DOMAIN cmds /\ cmds'[d] = cmds[d] /\ ItemOf(d) = i
      BY <2>8 DEF ItemOf
    <3>2. d < c /\ Over(d)
      BY <1>3, <2>8, <3>1 DEF Current
    <3>. QED
      BY <3>1, <3>2 DEF Over, Exited, BlocksOf
  <2>. QED
    BY <1>3, <2>1, <2>7, <2>8 DEF Current
<1>. QED
  BY <1>1, <1>2, <1>3 DEF ItemSound

-----------------------------------------------------------------------------
(* Queue, thread and graph.                                                *)

\* A sequence that an element is appended to.
LEMMA QueueAppended ==
    ASSUME BaseInv, NEW c \in Int, queue' = Append(queue, c)
    PROVE  /\ DOMAIN queue' = DOMAIN queue \cup {Len(queue) + 1}
           /\ \A k \in DOMAIN queue : queue'[k] = queue[k]
           /\ queue'[Len(queue) + 1] = c
BY DEF BaseInv, GpeTypeOK

\* The commands after a submission.
LEMMA SubmitAppends ==
    ASSUME BaseInv, NEW s \in mode.shapes, Submit(s) \/ SubmitHost(s)
    PROVE  \E n \in Nat, i \in Items \cup {NoItem} :
             /\ n = Len(cmds) + 1 /\ n # None
             /\ DOMAIN cmds' = DOMAIN cmds \cup {n} /\ n \notin DOMAIN cmds /\ n \in Cmds
             /\ \A c \in DOMAIN cmds : cmds'[c] = cmds[c] /\ c < n
             /\ cmds'[n] = Cmd(s, i)
             /\ block[n][1] = "none" /\ \A g \in Groups : block[n][g] = "none"
             /\ main = None /\ main' = IF s.captured \/ s.kind = "host" THEN None ELSE n
             /\ queue' \in {queue, Append(queue, n)}
             /\ i = NoItem => UNCHANGED <<flag, ngroups>> /\ free' \in {free, Available}
             /\ i # NoItem => /\ i \in Available /\ s.kind \in {"wait", "exit"}
                              /\ free' = Available \ {i}
                              /\ flag' = [flag EXCEPT ![i] = [g \in Groups |-> "SCHEDULED"]]
                              /\ ngroups' = [ngroups EXCEPT ![i] = s.groups]
             /\ UNCHANGED <<mode, gpe, signalled, block, callbacks, replays, abandoned>>
             /\ IF s.captured THEN graph # "destroyed" /\ replays = 0 /\ graph' = "captured" ELSE graph' = graph
<1>1. PICK n \in Nat : n = Len(cmds) + 1 /\ n # None
  BY DEF BaseInv, GpeTypeOK, None
<1>2. s \in ShapeType /\ (s.captured => s.kind = "wait") /\ Available \subseteq Items
  BY ModeFacts DEF BaseInv, GpeTypeOK, Available
<1>3. PICK i \in Items \cup {NoItem} :
        /\ cmds' = Append(cmds, Cmd(s, i)) /\ Len(cmds) < MaxCmds
        /\ i = NoItem => UNCHANGED <<flag, ngroups>> /\ free' \in {free, Available}
        /\ i # NoItem => /\ i \in Available /\ s.kind \in {"wait", "exit"}
                         /\ free' = Available \ {i}
                         /\ flag' = [flag EXCEPT ![i] = [g \in Groups |-> "SCHEDULED"]]
                         /\ ngroups' = [ngroups EXCEPT ![i] = s.groups]
  <2>1. CASE SubmitHost(s)
    BY <2>1 DEF SubmitHost, poolVars
  <2>2. CASE Submit(s) /\ s.kind = "bare"
    BY <2>2 DEF Submit
  <2>3. CASE Submit(s) /\ s.kind # "bare"
    BY <1>2, <2>3, Constants DEF Submit, ShapeType
  <2>. QED
    BY <2>1, <2>2, <2>3
<1>4. /\ DOMAIN cmds' = DOMAIN cmds \cup {n} /\ n \notin DOMAIN cmds /\ n \in Cmds
      /\ \A c \in DOMAIN cmds : cmds'[c] = cmds[c] /\ c < n
      /\ cmds'[n] = Cmd(s, i)
  BY <1>1, <1>2, <1>3, Appended DEF BaseInv, GpeTypeOK
<1>5. 1 \in Groups
  BY <1>2, Constants DEF ShapeType, Groups
<1>6. block[n][1] = "none" /\ \A g \in Groups : block[n][g] = "none"
  BY <1>4, <1>5 DEF BaseInv, LaunchedAsOne
<1>7. main = None /\ main' = IF s.captured \/ s.kind = "host" THEN None ELSE n
  BY <1>1, <1>2 DEF Submit, SubmitHost, MainIdle
<1>8. queue' \in {queue, Append(queue, n)}
  BY <1>1 DEF Submit, SubmitHost
<1>9. UNCHANGED <<mode, gpe, signalled, block, callbacks, replays, abandoned>>
  BY DEF Submit, SubmitHost, abortVars, deviceVars, failVars, graphVars
<1>10. IF s.captured THEN graph # "destroyed" /\ replays = 0 /\ graph' = "captured" ELSE graph' = graph
  BY <1>2 DEF Submit, SubmitHost, graphVars
<1>. QED
  BY <1>1, <1>3, <1>4, <1>6, <1>7, <1>8, <1>9, <1>10

LEMMA ServedStep ==
    ASSUME BaseInv, ServedSound, Next
    PROVE  ServedSound'
<1>. USE DEF ServedSound
<1>0. gpe \in GpeType /\ queue \in Seq(Int)
  BY DEF BaseInv, GpeTypeOK
<1>1. ASSUME NEW s \in mode.shapes, Submit(s) \/ SubmitHost(s) PROVE ServedSound'
  <2>1. PICK n \in Nat :
             /\ DOMAIN cmds' = DOMAIN cmds \cup {n}
             /\ \A c \in DOMAIN cmds : cmds'[c] = cmds[c]
             /\ queue' \in {queue, Append(queue, n)}
             /\ UNCHANGED <<gpe, signalled>>
    BY <1>1, SubmitAppends
  <2>2. \A k \in DOMAIN queue' : queue'[k] # TERMINATE => queue'[k] \in DOMAIN cmds'
    BY <2>1, QueueAppended
  <2>3. gpe.pc \in {"start", "drain"} => HasFlag(gpe.cmd)'
    BY <2>1 DEF HasFlag, ItemOf, PendingPcs
  <2>. QED
    BY <2>1, <2>2, <2>3
<1>2. CASE Launch \/ PreLaunchFails \/ LaunchFails \/ UserAbort \/ TimeoutExpires \/ DestroyGraph
  BY <1>2 DEF Launch, PreLaunchFails, LaunchFails, UserAbort, TimeoutExpires, DestroyGraph, hostVars, HasFlag,
      ItemOf
<1>12. ASSUME NEW s \in mode.shapes, SubmitFails(s) PROVE ServedSound'
  BY <1>12 DEF SubmitFails, hostVars, HasFlag, ItemOf
<1>3. CASE ReplayGraph
  BY <1>3 DEF ReplayGraph, HasFlag, ItemOf
<1>4. CASE Terminate
  <2>1. TERMINATE \in Int /\ queue' = Append(queue, TERMINATE)
    BY <1>4 DEF Terminate, TERMINATE
  <2>. QED
    BY <1>4, <2>1, QueueAppended DEF Terminate, HasFlag, ItemOf
<1>5. ASSUME NEW c \in Cmds, CmdCb(c) PROVE ServedSound'
  <2>1. c \in Int /\ queue' = Append(queue, c) /\ c \in DOMAIN cmds
    BY <1>5, Constants DEF CmdCb, BaseInv, Captured
  <2>. QED
    BY <1>5, <2>1, QueueAppended DEF CmdCb, HasFlag, ItemOf
<1>6. CASE Dequeue
  <2>1. UNCHANGED <<cmds, signalled>> /\ queue # << >> /\ queue' = Tail(queue)
    BY <1>6 DEF Dequeue
  <2>2. /\ Head(queue) = queue[1] /\ 1 \in DOMAIN queue
        /\ \A k \in DOMAIN queue' : k + 1 \in DOMAIN queue /\ queue'[k] = queue[k + 1]
    BY <1>0, <2>1
  <2>3. CASE Head(queue) = TERMINATE
    BY <1>0, <1>6, <2>1, <2>2, <2>3 DEF Dequeue, Goto, GpeType, PendingPcs
  <2>4. CASE Head(queue) # TERMINATE
    <3>1. /\ gpe'.cmd = Head(queue) /\ Head(queue) \in DOMAIN cmds
          /\ gpe'.pc = IF ItemOf(Head(queue)) = NoItem THEN "run" ELSE "start"
      BY <1>6, <2>2, <2>4 DEF Dequeue, Idle
    <3>. QED
      BY <2>1, <2>2, <3>1 DEF HasFlag, ItemOf
  <2>. QED
    BY <2>3, <2>4
<1>7. CASE WaitStart \/ RunFunc \/ FuncFails
  BY <1>0, <1>7 DEF WaitStart, RunFunc, FuncFails, At, Goto, GpeType, hostVars, PendingPcs
<1>8. CASE Signal
  <2>1. UNCHANGED <<cmds, queue>> /\ gpe.pc = "signal" /\ gpe.cmd \in DOMAIN cmds
    BY <1>8 DEF Signal, At, PendingPcs
  <2>2. signalled' \subseteq signalled \cup {gpe.cmd}
    BY <1>8 DEF Signal
  <2>3. \/ gpe' = Idle
        \/ gpe' = [gpe EXCEPT !.pc = "await"]
        \/ gpe' = [gpe EXCEPT !.pc = "drain"] /\ HasFlag(gpe.cmd)
    BY <1>8 DEF Signal, EndIteration, Goto, HasFlag
  <2>4. gpe'.pc \in PendingPcs => gpe'.pc = "drain" /\ gpe'.cmd = gpe.cmd /\ HasFlag(gpe.cmd)
    BY <1>0, <2>3 DEF Idle, PendingPcs, GpeType
  <2>. QED
    BY <2>1, <2>2, <2>4 DEF HasFlag, ItemOf, PendingPcs
<1>9. CASE Drain
  <2>1. UNCHANGED <<cmds, queue>> /\ signalled' = signalled \cup {gpe.cmd} /\ gpe.cmd \in DOMAIN cmds
    BY <1>9 DEF Drain, At, PendingPcs
  <2>2. gpe'.pc = "idle"
    BY <1>9 DEF Drain, EndIteration, Idle
  <2>. QED
    BY <2>1, <2>2 DEF PendingPcs
<1>10. CASE Await \/ Convert
  <2>1. gpe'.pc \in {"idle", "convert"}
    <3>1. CASE Await /\ TestAbort
      BY <1>0, <3>1 DEF Await, GpeType
    <3>2. CASE Convert \/ (Await /\ ~TestAbort)
      BY <3>2 DEF Await, Convert, EndIteration, Idle
    <3>. QED
      BY <1>10, <3>1, <3>2
  <2>. QED
    BY <1>10, <2>1 DEF Await, Convert, hostVars, PendingPcs
<1>11. ASSUME NEW c \in Cmds, NEW g \in Groups, KernelStep(c, g) PROVE ServedSound'
  BY <1>11, KernelMoves DEF hostVars, HasFlag, ItemOf
<1>. QED
  BY <1>1, <1>2, <1>3, <1>4, <1>5, <1>6, <1>7, <1>8, <1>9, <1>10, <1>11, <1>12 DEF Next, GpeThread

LEMMA GraphStep ==
    ASSUME BaseInv, GraphRests, Next
    PROVE  GraphRests'
<1>. USE DEF GraphRests
<1>1. ASSUME NEW s \in mode.shapes, Submit(s) \/ SubmitHost(s) PROVE GraphRests'
  <2>1. PICK n \in Nat, i \in Items \cup {NoItem} :
             /\ DOMAIN cmds' = DOMAIN cmds \cup {n} /\ n \notin DOMAIN cmds
             /\ \A c \in DOMAIN cmds : cmds'[c] = cmds[c]
             /\ cmds'[n] = Cmd(s, i)
             /\ block[n][1] = "none"
             /\ UNCHANGED <<block, replays>>
             /\ IF s.captured THEN graph # "destroyed" /\ replays = 0 /\ graph' = "captured" ELSE graph' = graph
    BY <1>1, SubmitAppends
  <2>2. \A c \in Captured' : c \in Captured \/ (c = n /\ s.captured)
    BY <2>1 DEF Captured, Cmd
  <2>3. \A c \in Captured : Exited(c) => Exited(c)'
    BY <2>1 DEF Captured, Exited, BlocksOf
  <2>. QED
    BY <2>1, <2>2, <2>3
<1>2. CASE Launch
  <2>1. UNCHANGED <<cmds, graph, replays>> /\ main # None
    BY <1>2 DEF Launch, graphVars
  <2>2. \A c \in Captured : c # main /\ c \in Cmds
    BY <2>1, MainIsLast, LaunchedPlaces DEF Captured, Plain
  <2>3. \A c \in Captured : block'[c] = block[c]
    BY <1>2, <2>2 DEF Launch, BaseInv, GpeTypeOK
  <2>. QED
    BY <2>1, <2>3 DEF Captured, Exited, BlocksOf
<1>3. CASE LaunchFails \/ PreLaunchFails \/ \E s \in mode.shapes : SubmitFails(s)
  <2>1. UNCHANGED <<cmds, block, graph, replays>>
    BY <1>3 DEF LaunchFails, PreLaunchFails, SubmitFails, hostVars, graphVars
  <2>. QED
    BY <2>1 DEF Captured, Exited, BlocksOf
<1>4. CASE ReplayGraph
  <2>1. UNCHANGED <<cmds, graph>> /\ replays' = replays + 1 /\ graph = "captured" /\ Captured' = Captured
    BY <1>4 DEF ReplayGraph, Captured
  <2>2. \A c \in Captured : block'[c][1] # "none"
    BY <1>4, ReplayedPlaces, LaunchedPlaces DEF Captured
  <2>. QED
    BY <2>1, <2>2
<1>5. CASE OtherStep
  <2>1. UNCHANGED <<cmds, block>>
    BY <1>5, OtherFrame DEF deviceVars
  <2>2. UNCHANGED replays /\ (graph' = graph \/ DestroyGraph)
    BY <1>5 DEF OtherStep, Terminate, UserAbort, TimeoutExpires, DestroyGraph, CmdCb, GpeThread, Dequeue,
        WaitStart, RunFunc, FuncFails, Signal, Drain, Await, Convert, graphVars
  <2>3. DestroyGraph => \A c \in Captured : Exited(c) \/ block[c][1] = "none"
    BY DEF DestroyGraph, GraphRunning
  <2>. QED
    BY <2>1, <2>2, <2>3 DEF Captured, Exited, BlocksOf
<1>6. ASSUME NEW c \in Cmds, NEW g \in Groups, KernelStep(c, g) PROVE GraphRests'
  <2>1. /\ c \in DOMAIN cmds /\ g \in BlocksOf(c) /\ block[c][g] \in {"launched", "tested", "running"}
        /\ UNCHANGED <<cmds, graph, replays>>
        /\ \E to \in {"tested", "running", "exited"} : block' = [block EXCEPT ![c][g] = to]
    BY <1>6, KernelMoves DEF hostVars, graphVars, MoveBlock
  <2>2. 1 \in Groups /\ block[c][1] # "none" /\ block \in [Cmds -> [Groups -> Places]]
    BY <2>1, LaunchedPlaces DEF BaseInv, LaunchedAsOne, GpeTypeOK
  <2>3. block'[c][1] # "none" /\ \A d \in Cmds : d # c => block'[d] = block[d]
    BY <2>1, <2>2
  <2>4. c \in Captured => graph # "destroyed"
    BY <2>1, <2>2 DEF Exited
  <2>5. \A d \in Captured : d \in Cmds
    BY LaunchedPlaces DEF Captured
  <2>. QED
    BY <2>1, <2>2, <2>3, <2>4, <2>5 DEF Captured, Exited, BlocksOf
<1>. QED
  BY <1>1, <1>2, <1>3, <1>4, <1>5, <1>6 DEF Next, OtherStep

-----------------------------------------------------------------------------
(* The items, action by action.                                            *)

\* What every step starts from.
Quiet == BaseInv /\ ServedSound /\ GraphRests /\ ~enabled /\ ItemsSound

\* The last owner of an item stays the last.
LEMMA CurrentStays ==
    ASSUME NEW i, NEW c, Current(i, c), UNCHANGED <<cmds, ngroups>>, Reads(c)',
           \A d \in DOMAIN cmds : ItemOf(d) = i /\ d # c => block'[d] = block[d] /\ d # main'
    PROVE  Current(i, c)'
<1>1. ASSUME NEW d \in DOMAIN cmds, ItemOf(d) = i, d # c PROVE d < c /\ Over(d)'
  <2>1. d < c /\ Over(d) /\ block'[d] = block[d] /\ d # main'
    BY <1>1 DEF Current
  <2>. QED
    BY <2>1 DEF Over, Exited, BlocksOf
<1>. QED
  BY <1>1 DEF Current, ItemOf

\* The last owner of an item that is owned and not lent.
LEMMA LastOwner ==
    ASSUME Quiet, NEW d \in DOMAIN cmds, HasFlag(d), ~Exempt(ItemOf(d))
    PROVE  \E c \in DOMAIN cmds :
             /\ Current(ItemOf(d), c) /\ ItemOf(c) = ItemOf(d) /\ HasFlag(c)
             /\ GroupsOf(ItemOf(d)) = BlocksOf(c)
             /\ \A g : Word(c, g) = Word(d, g)
             /\ cmds[c].kind \in {"wait", "exit"}
<1>1. ItemOf(d) \in Items
  BY CommandFacts DEF Quiet
<1>2. ~Unused(ItemOf(d)) /\ ItemSound(ItemOf(d))
  BY <1>1 DEF Quiet, ItemsSound, Unused
<1>3. PICK c \in DOMAIN cmds : Current(ItemOf(d), c)
  BY <1>2 DEF ItemSound
<1>4. ItemOf(c) = ItemOf(d) /\ HasFlag(c) /\ GroupsOf(ItemOf(d)) = BlocksOf(c)
  BY <1>3 DEF Current, HasFlag, GroupsOf, BlocksOf
<1>. QED
  BY <1>3, <1>4, CommandFacts DEF Quiet, Word

\* A step that touches no item and no kernel.
LEMMA SteadyItems ==
    ASSUME Quiet, UNCHANGED <<cmds, main, free, flag, ngroups, block, abandoned>>,
           \A c \in DOMAIN cmds : HasFlag(c) /\ c \in signalled' => c \in signalled
    PROVE  \A i \in Items : ItemSound(i)'
<1>. SUFFICES ASSUME NEW i \in Items PROVE ItemSound(i)'
  OBVIOUS
<1>1. \A c \in DOMAIN cmds : ItemOf(c) = i => HasFlag(c)
  BY Constants DEF HasFlag
<1>2. ItemSound(i)
  BY DEF Quiet, ItemsSound
<1>. QED
  BY <1>1, <1>2, ItemFrame

\* A step that the thread does not take part in, nor its item.
LEMMA SteadyThread ==
    ASSUME Quiet, gpe' = gpe, abandoned \subseteq abandoned', \A c \in DOMAIN cmds : c \in DOMAIN cmds' /\ cmds'[c] = cmds[c],
           gpe.pc \in {"run", "signal", "drain"} /\ HasFlag(gpe.cmd) /\ ~Exempt(ItemOf(gpe.cmd)) =>
               flag'[ItemOf(gpe.cmd)][1] = flag[ItemOf(gpe.cmd)][1]
    PROVE  ThreadReads'
<1>1. gpe.pc \in {"run", "signal", "drain"} => gpe.cmd \in DOMAIN cmds
  BY DEF Quiet, ServedSound, PendingPcs
<1>2. gpe.pc \in {"run", "signal", "drain"} => ItemOf(gpe.cmd)' = ItemOf(gpe.cmd)
  BY <1>1 DEF ItemOf
<1>3. gpe.pc \in {"run", "signal", "drain"} /\ Exempt(ItemOf(gpe.cmd)) => Exempt(ItemOf(gpe.cmd))'
  <2>. SUFFICES ASSUME gpe.pc \in {"run", "signal", "drain"}, Exempt(ItemOf(gpe.cmd))
                PROVE  Exempt(ItemOf(gpe.cmd))'
    OBVIOUS
  <2>1. PICK j : j = ItemOf(gpe.cmd)
    OBVIOUS
  <2>2. Exempt(j)'
    BY <2>1, ExemptStays
  <2>. QED
    BY <1>2, <2>1, <2>2 DEF Exempt, IsLent
<1>4. gpe.pc \in {"run", "signal", "drain"} => (HasFlag(gpe.cmd)' <=> HasFlag(gpe.cmd))
  BY <1>2 DEF HasFlag
<1>5. ThreadReads
  BY DEF Quiet, ItemsSound
<1>6. gpe'.pc = gpe.pc /\ gpe'.cmd = gpe.cmd
  OBVIOUS
<1>7. gpe.pc \in {"run", "signal", "drain"} /\ HasFlag(gpe.cmd)' /\ ~Exempt(ItemOf(gpe.cmd))' =>
        Word(gpe.cmd, 1)' = Word(gpe.cmd, 1) /\ HasFlag(gpe.cmd) /\ ~Exempt(ItemOf(gpe.cmd))
  BY <1>2, <1>3, <1>4 DEF Word
<1>. QED
  BY <1>5, <1>6, <1>7 DEF ThreadReads

\* The steps of the thread and of the main thread that only move a command.
LEMMA MovesItems ==
    ASSUME Quiet, OtherStep, ~Signal, ~Drain
    PROVE  ItemsSound'
<1>0. gpe \in GpeType /\ ThreadReads /\ BaseInv /\ ServedSound
  BY DEF Quiet, ItemsSound, BaseInv, GpeTypeOK
<1>1. UNCHANGED <<cmds, main, free, ngroups, block, abandoned>>
  BY <1>0, OtherFrame DEF deviceVars, failVars
<1>2. ~UserAbort /\ ~Await /\ ~Convert
  BY <1>0 DEF Quiet, UserAbort, Await, Convert, At, ThreadReads
<1>3. CASE Terminate \/ TimeoutExpires \/ DestroyGraph \/ \E c \in Cmds : CmdCb(c)
  <2>1. UNCHANGED <<flag, signalled, gpe>>
    BY <1>3 DEF Terminate, TimeoutExpires, DestroyGraph, CmdCb, poolVars, hostVars
  <2>. QED
    BY <1>1, <2>1, SteadyItems, SteadyThread DEF ItemsSound
<1>4. CASE Dequeue \/ WaitStart \/ RunFunc \/ FuncFails
  <2>1. UNCHANGED <<flag, signalled>>
    BY <1>4 DEF Dequeue, WaitStart, RunFunc, FuncFails, poolVars, hostVars
  <2>2. \A i \in Items : ItemSound(i)'
    BY <1>1, <2>1, SteadyItems
  <2>3. \A i : Exempt(i)' <=> Exempt(i)
    BY <1>1 DEF Exempt, IsLent, Captured, ItemOf
  <2>4. ThreadReads'
    <3>1. CASE Dequeue
      <4>1. CASE gpe'.pc \in {"ended", "start"}
        BY <4>1 DEF ThreadReads
      <4>2. CASE gpe'.pc = "run" /\ ItemOf(gpe'.cmd) = NoItem
        <5>1. ~HasFlag(gpe.cmd)'
          BY <1>1, <4>2 DEF HasFlag, ItemOf
        <5>. QED
          BY <4>2, <5>1 DEF ThreadReads
      <4>3. gpe'.pc \in {"ended", "start"} \/ (gpe'.pc = "run" /\ ItemOf(gpe'.cmd) = NoItem)
        BY <1>0, <3>1 DEF Dequeue, Goto, Idle, GpeType
      <4>. QED
        BY <4>1, <4>2, <4>3
    <3>2. CASE WaitStart
      <4>1. KernelStarted(ItemOf(gpe.cmd)) /\ gpe' = [gpe EXCEPT !.pc = "run"]
        BY <3>2 DEF WaitStart, TestAbort, Quiet, Goto
      <4>2. gpe'.pc = "run" /\ gpe'.cmd = gpe.cmd
        BY <1>0, <4>1 DEF GpeType
      <4>3. Word(gpe.cmd, 1)' = flag[ItemOf(gpe.cmd)][1]
        BY <1>1, <2>1, <4>2 DEF Word, ItemOf
      <4>. QED
        BY <4>1, <4>2, <4>3 DEF ThreadReads, KernelStarted
    <3>3. CASE RunFunc
      <4>1. gpe.pc = "run" /\ gpe'.pc = "signal" /\ gpe'.cmd = gpe.cmd
        BY <1>0, <3>3 DEF RunFunc, At, Goto, GpeType
      <4>2. /\ Word(gpe.cmd, 1)' = Word(gpe.cmd, 1) /\ (HasFlag(gpe.cmd)' <=> HasFlag(gpe.cmd))
            /\ Exempt(ItemOf(gpe.cmd))' <=> Exempt(ItemOf(gpe.cmd))
        BY <1>1, <2>1, <4>1 DEF Word, HasFlag, ItemOf, Exempt, IsLent, Captured
      <4>. QED
        BY <1>0, <4>1, <4>2 DEF ThreadReads
    <3>4. CASE FuncFails
      <4>1. gpe'.pc = "dead"
        BY <1>0, <3>4 DEF FuncFails, Quiet, Goto, GpeType
      <4>. QED
        BY <4>1 DEF ThreadReads
    <3>. QED
      BY <1>4, <3>1, <3>2, <3>3, <3>4
  <2>. QED
    BY <2>2, <2>4 DEF ItemsSound
<1>. QED
  BY <1>2, <1>3, <1>4 DEF OtherStep, GpeThread

\* The thread writes v to every word of its item.
LEMMA SetFlagWords ==
    ASSUME BaseInv, NEW i \in Items, NEW v, SetFlag(i, v)
    PROVE  /\ \A j \in Items : j # i => flag'[j] = flag[j]
           /\ \A g \in GroupsOf(i) : g \in Groups => flag'[i][g] = v
BY DEF SetFlag, BaseInv, GpeTypeOK

LEMMA SignalItems ==
    ASSUME Quiet, Signal
    PROVE  ItemsSound'
<1>0. gpe \in GpeType /\ ThreadReads /\ BaseInv /\ ServedSound
  BY DEF Quiet, ItemsSound, BaseInv, GpeTypeOK
<1>1. /\ UNCHANGED <<cmds, main, free, ngroups, block, abandoned>>
      /\ gpe.pc = "signal" /\ gpe.cmd \in DOMAIN cmds
  BY <1>0 DEF Signal, At, deviceVars, failVars, ServedSound, PendingPcs
<1>2. PICK s \in DOMAIN cmds : s = gpe.cmd
  BY <1>1
<1>3. PICK i : i = ItemOf(s)
  OBVIOUS
<1>4. gpe' = Idle => ThreadReads'
  BY DEF Idle, ThreadReads
<1>5. CASE i = NoItem
  <2>1. gpe' = Idle /\ flag' = flag /\ signalled' = signalled \cup {s}
    BY <1>2, <1>3, <1>5 DEF Signal, EndIteration
  <2>2. ~HasFlag(s)
    BY <1>3, <1>5 DEF HasFlag
  <2>3. \A c \in DOMAIN cmds : HasFlag(c) /\ c \in signalled' => c \in signalled
    BY <2>1, <2>2
  <2>. QED
    BY <1>1, <1>4, <2>1, <2>3, SteadyItems DEF ItemsSound
<1>6. CASE i # NoItem /\ flag[i][1] = "STARTED_AND_EXIT"
  <2>1. gpe' = [gpe EXCEPT !.pc = "drain"] /\ UNCHANGED <<flag, signalled>>
    BY <1>2, <1>3, <1>6 DEF Signal, Goto
  <2>2. gpe'.pc = "drain" /\ gpe'.cmd = s
    BY <1>0, <1>2, <2>1 DEF GpeType
  <2>3. Word(gpe.cmd, 1)' = "STARTED_AND_EXIT"
    BY <1>1, <1>3, <1>6, <2>1, <2>2 DEF Word, ItemOf
  <2>4. ThreadReads'
    BY <2>2, <2>3 DEF ThreadReads
  <2>. QED
    BY <1>1, <2>1, <2>4, SteadyItems DEF ItemsSound
<1>7. CASE i # NoItem /\ flag[i][1] # "STARTED_AND_EXIT"
  <2>1. SetFlag(i, "TERMINATE") /\ gpe' = Idle /\ signalled' = signalled \cup {s}
    BY <1>2, <1>3, <1>7 DEF Signal, EndIteration, Quiet, TestAbort
  <2>2. HasFlag(s) /\ i \in Items
    BY <1>0, <1>3, <1>7, CommandFacts DEF HasFlag
  <2>3. /\ \A j \in Items : j # i => flag'[j] = flag[j]
        /\ \A g \in GroupsOf(i) : g \in Groups => flag'[i][g] = "TERMINATE"
    BY <1>0, <2>1, <2>2, SetFlagWords
  <2>4. ASSUME NEW j \in Items, j # i PROVE ItemSound(j)'
    <3>1. \A c \in DOMAIN cmds : ItemOf(c) = j => c # s
      BY <1>3, <2>4
    <3>2. ItemSound(j)
      BY DEF Quiet, ItemsSound
    <3>. QED
      BY <1>1, <2>1, <2>3, <2>4, <3>1, <3>2, ItemFrame
  <2>5. ASSUME ~Exempt(i) PROVE ItemSound(i)'
    <3>1. Word(s, 1) = "STARTED"
      BY <1>0, <1>1, <1>2, <1>3, <1>7, <2>2, <2>5 DEF ThreadReads, Word
    <3>2. PICK c \in DOMAIN cmds :
             /\ Current(i, c) /\ ItemOf(c) = i
             /\ GroupsOf(i) = BlocksOf(c)
             /\ \A g : Word(c, g) = Word(s, g)
             /\ cmds[c].kind \in {"wait", "exit"}
      BY <1>3, <2>2, <2>5, LastOwner
    <3>3. 1 \in BlocksOf(c) /\ BlocksOf(c) \subseteq Groups /\ Word(c, 1) = "STARTED" /\ Reads(c)
      BY <1>0, <3>1, <3>2, CommandFacts DEF Current
    <3>4. /\ ~(i \in free /\ ~cmds[c].captured) /\ block[c][1] # "none"
      BY <3>2, <3>3 DEF Reads, AllRead
    <3>5. cmds[c].kind = "wait" /\ WaitReads(c)
      BY <3>2, <3>3, <3>4 DEF Reads, ExitReads, AllRead
    <3>6. block[c][1] = "running"
      <4>1. block[c] \in [Groups -> Places] /\ 1 \in Groups
        BY <1>0, CommandFacts
      <4>. QED
        BY <3>3, <3>5, <4>1 DEF WaitReads, Places
    <3>7. /\ cmds'[c] = cmds[c] /\ block'[c] = block[c] /\ BlocksOf(c)' = BlocksOf(c) /\ ItemOf(c)' = i
          /\ \A g \in BlocksOf(c) : Word(c, g)' = "TERMINATE"
      BY <1>1, <2>3, <3>2, <3>3 DEF BlocksOf, ItemOf, Word
    <3>8. WaitReads(c)'
      BY <3>3, <3>5, <3>6, <3>7 DEF WaitReads
    <3>9. Reads(c)'
      BY <1>1, <3>4, <3>5, <3>7, <3>8 DEF Reads
    <3>10. Current(i, c)'
      <4>1. \A d \in DOMAIN cmds : ItemOf(d) = i /\ d # c => block'[d] = block[d] /\ d # main'
        BY <1>1, <3>2 DEF Current, Over
      <4>. QED
        BY <1>1, <3>2, <3>9, <4>1, CurrentStays
    <3>. QED
      BY <1>1, <3>10 DEF ItemSound
  <2>6. ASSUME Exempt(i) PROVE ItemSound(i)'
    BY <1>1, <2>6, ExemptStays DEF ItemSound
  <2>. QED
    BY <1>4, <2>1, <2>4, <2>5, <2>6 DEF ItemsSound
<1>. QED
  BY <1>5, <1>6, <1>7

LEMMA DrainItems ==
    ASSUME Quiet, Drain
    PROVE  ItemsSound'
<1>0. gpe \in GpeType /\ ThreadReads /\ BaseInv /\ ServedSound
  BY DEF Quiet, ItemsSound, BaseInv, GpeTypeOK
<1>1. /\ UNCHANGED <<cmds, main, free, ngroups, block, abandoned>>
      /\ gpe.pc = "drain" /\ gpe.cmd \in DOMAIN cmds /\ HasFlag(gpe.cmd)
  BY <1>0 DEF Drain, At, deviceVars, failVars, ServedSound, PendingPcs
<1>2. PICK s \in DOMAIN cmds : s = gpe.cmd
  BY <1>1
<1>3. PICK i : i = ItemOf(s)
  OBVIOUS
<1>4. SetFlag(i, "UNSET") /\ gpe' = Idle /\ signalled' = signalled \cup {s} /\ DrainReady(i)
  BY <1>2, <1>3 DEF Drain, DrainFlag, EndIteration
<1>5. HasFlag(s) /\ i \in Items
  BY <1>0, <1>1, <1>2, <1>3, CommandFacts
<1>6. /\ \A j \in Items : j # i => flag'[j] = flag[j]
      /\ \A g \in GroupsOf(i) : g \in Groups => flag'[i][g] = "UNSET"
  BY <1>0, <1>4, <1>5, SetFlagWords
<1>7. ASSUME NEW j \in Items, j # i PROVE ItemSound(j)'
  <2>1. \A c \in DOMAIN cmds : ItemOf(c) = j => c # s
    BY <1>3, <1>7
  <2>2. ItemSound(j)
    BY DEF Quiet, ItemsSound
  <2>. QED
    BY <1>1, <1>4, <1>6, <1>7, <2>1, <2>2, ItemFrame
<1>8. ASSUME ~Exempt(i) PROVE ItemSound(i)'
  <2>1. PICK c \in DOMAIN cmds :
           /\ Current(i, c) /\ ItemOf(c) = i
           /\ GroupsOf(i) = BlocksOf(c)
           /\ cmds[c].kind \in {"wait", "exit"}
    BY <1>3, <1>5, <1>8, LastOwner
  <2>2. /\ 1 \in BlocksOf(c) /\ BlocksOf(c) \subseteq Groups /\ Reads(c)
        /\ \A g \in BlocksOf(c) : Word(c, g) = "STARTED_AND_EXIT"
        /\ block[c] \in [Groups -> Places]
    BY <1>0, <1>4, <2>1, CommandFacts DEF Current, DrainReady, Word
  <2>3. block[c][1] # "none"
    BY <2>1, <2>2 DEF Reads, AllRead
  <2>4. cmds[c].kind = "exit" /\ ExitReads(c)
    <3>1. ~WaitReads(c)
      BY <2>2 DEF WaitReads, Places
    <3>. QED
      BY <2>1, <2>2, <2>3, <3>1 DEF Reads
  <2>5. Exited(c)
    BY <2>2, <2>4 DEF ExitReads, AllRead, Exited
  <2>6. /\ cmds'[c] = cmds[c] /\ block'[c] = block[c] /\ BlocksOf(c)' = BlocksOf(c) /\ ItemOf(c)' = i
        /\ \A g \in BlocksOf(c) : Word(c, g)' = "UNSET"
    BY <1>1, <1>6, <2>1, <2>2 DEF BlocksOf, ItemOf, Word
  <2>7. ExitReads(c)' /\ AllRead(c, "UNSET")'
    BY <2>5, <2>6 DEF ExitReads, AllRead, Exited
  <2>8. Reads(c)'
    BY <2>3, <2>4, <2>6, <2>7 DEF Reads
  <2>9. \A d \in DOMAIN cmds : ItemOf(d) = i /\ d # c => block'[d] = block[d] /\ d # main'
    BY <1>1, <2>1 DEF Current, Over
  <2>10. Current(i, c)'
    BY <1>1, <2>1, <2>8, <2>9, CurrentStays
  <2>. QED
    BY <1>1, <2>10 DEF ItemSound
<1>9. ASSUME Exempt(i) PROVE ItemSound(i)'
  BY <1>1, <1>9, ExemptStays DEF ItemSound
<1>10. ThreadReads'
  BY <1>4 DEF Idle, ThreadReads
<1>. QED
  BY <1>7, <1>8, <1>9, <1>10 DEF ItemsSound

\* The kernel that submit is about to launch is the last owner of its item.
LEMMA MainOwns ==
    ASSUME Quiet, main # None, HasFlag(main), ~Exempt(ItemOf(main))
    PROVE  /\ Current(ItemOf(main), main) /\ AllRead(main, "SCHEDULED") /\ main \notin signalled
           /\ ItemOf(main) \notin free /\ ItemOf(main) \in Items
           /\ GroupsOf(ItemOf(main)) = BlocksOf(main)
<1>1. BaseInv
  BY DEF Quiet
<1>2. /\ main \in DOMAIN cmds /\ \A c \in DOMAIN cmds : c \in Nat /\ c <= main
      /\ ~cmds[main].captured /\ block[main][1] = "none"
  BY <1>1, MainIsLast, CommandFacts DEF Plain
<1>3. PICK c \in DOMAIN cmds : Current(ItemOf(main), c) /\ GroupsOf(ItemOf(main)) = BlocksOf(c)
  BY <1>2, LastOwner
<1>4. c = main
  <2>1. c # main => main < c
    BY <1>2, <1>3 DEF Current
  <2>. QED
    BY <1>2, <2>1
<1>5. Reads(main) /\ ~LaunchFailed(main)
  BY <1>3, <1>4 DEF Current, LaunchFailed
<1>6. AllRead(main, "SCHEDULED") /\ main \notin signalled /\ 1 \in BlocksOf(main) /\ ItemOf(main) \in Items
  BY <1>1, <1>2, <1>5, CommandFacts DEF Reads
<1>. QED
  BY <1>2, <1>3, <1>4, <1>5, <1>6 DEF Reads, AllRead

LEMMA LaunchItems ==
    ASSUME Quiet, Launch
    PROVE  ItemsSound'
<1>0. BaseInv /\ main # None
  BY DEF Quiet, Launch
<1>1. PICK c \in DOMAIN cmds : c = main /\ c \in Cmds
  BY <1>0, MainIsLast
<1>2. /\ UNCHANGED <<cmds, free, flag, ngroups, signalled, gpe, abandoned>> /\ main' = None
      /\ block'[c] = Launched(c)
      /\ \A d \in Cmds : d # c => block'[d] = block[d]
  <2>1. block' = [block EXCEPT ![c] = Launched(c)] /\ block \in [Cmds -> [Groups -> Places]]
    BY <1>0, <1>1 DEF Launch, BaseInv, GpeTypeOK
  <2>. QED
    BY <1>1, <2>1 DEF Launch, poolVars
<1>3. \A d \in DOMAIN cmds : d \in Cmds /\ d # None
  BY <1>0, CommandFacts
<1>4. ASSUME NEW i \in Items, ItemOf(c) # i PROVE ItemSound(i)'
  <2>1. ItemSound(i)
    BY DEF Quiet, ItemsSound
  <2>2. \A d \in DOMAIN cmds : ItemOf(d) = i => block'[d] = block[d] /\ (d = main' <=> d = main)
    BY <1>1, <1>2, <1>3, <1>4
  <2>. QED
    BY <1>2, <2>1, <2>2, ItemFrame
<1>5. ASSUME NEW i \in Items, ItemOf(c) = i, ~Exempt(i) PROVE ItemSound(i)'
  <2>1. HasFlag(c)
    BY <1>5, Constants DEF HasFlag
  <2>2. Current(i, c) /\ AllRead(c, "SCHEDULED") /\ c \notin signalled /\ i \notin free
    BY <1>0, <1>1, <1>5, <2>1, MainOwns
  <2>3. 1 \in BlocksOf(c) /\ \A g \in BlocksOf(c) : Launched(c)[g] = "launched"
    BY <1>0, LaunchedPlaces
  <2>4. /\ cmds'[c] = cmds[c] /\ BlocksOf(c)' = BlocksOf(c) /\ ItemOf(c)' = i
        /\ \A g \in BlocksOf(c) : Word(c, g)' = "SCHEDULED" /\ block'[c][g] = "launched"
    BY <1>2, <1>5, <2>2, <2>3 DEF BlocksOf, ItemOf, Word, AllRead
  <2>5. WaitReads(c)'
    BY <2>3, <2>4 DEF WaitReads
  <2>6. ExitReads(c)'
    BY <1>2, <2>2, <2>4 DEF ExitReads
  <2>7. Reads(c)'
    BY <1>2, <2>2, <2>3, <2>4, <2>5, <2>6 DEF Reads
  <2>8. \A d \in DOMAIN cmds : ItemOf(d) = i /\ d # c => block'[d] = block[d] /\ d # main'
    BY <1>2, <1>3
  <2>9. Current(i, c)'
    BY <1>2, <2>2, <2>7, <2>8, CurrentStays
  <2>. QED
    BY <1>2, <2>9 DEF ItemSound
<1>6. ASSUME NEW i \in Items, Exempt(i) PROVE ItemSound(i)'
  BY <1>2, <1>6, ExemptStays DEF ItemSound
<1>7. ThreadReads'
  BY <1>2, SteadyThread
<1>. QED
  BY <1>4, <1>5, <1>6, <1>7 DEF ItemsSound

LEMMA LaunchFailsItems ==
    ASSUME Quiet, LaunchFails
    PROVE  ItemsSound'
<1>0. BaseInv /\ main # None /\ ThreadReads /\ ServedSound
  BY DEF Quiet, LaunchFails, ItemsSound
<1>1. PICK c \in DOMAIN cmds : c = main /\ ~cmds[c].captured /\ block[c][1] = "none"
  BY <1>0, MainIsLast, CommandFacts DEF Plain
<1>2. /\ UNCHANGED <<cmds, free, ngroups, signalled, gpe, block, abandoned>> /\ main' = None
      /\ IF ItemOf(c) # NoItem THEN SetFlag(ItemOf(c), "UNSET") ELSE flag' = flag
  BY <1>1 DEF LaunchFails, ItemOf
<1>3. \A d \in DOMAIN cmds : d \in Cmds /\ d # None
  BY <1>0, CommandFacts
<1>4. HasFlag(c) =>
        /\ ItemOf(c) \in Items /\ SetFlag(ItemOf(c), "UNSET")
        /\ \A j \in Items : j # ItemOf(c) => flag'[j] = flag[j]
        /\ \A g \in GroupsOf(ItemOf(c)) : g \in Groups => flag'[ItemOf(c)][g] = "UNSET"
  <2>1. HasFlag(c) => ItemOf(c) \in Items /\ SetFlag(ItemOf(c), "UNSET")
    BY <1>0, <1>2, CommandFacts DEF HasFlag
  <2>. QED
    BY <1>0, <2>1, SetFlagWords
<1>5. ASSUME NEW i \in Items, ItemOf(c) # i PROVE ItemSound(i)' /\ flag'[i] = flag[i]
  <2>1. ItemSound(i)
    BY DEF Quiet, ItemsSound
  <2>2. \A d \in DOMAIN cmds : ItemOf(d) = i => d # c /\ (d = main' <=> d = main)
    BY <1>1, <1>2, <1>3, <1>5
  <2>3. flag'[i] = flag[i]
    BY <1>2, <1>4, <1>5 DEF HasFlag
  <2>. QED
    BY <1>2, <2>1, <2>2, <2>3, ItemFrame
<1>6. ASSUME NEW i \in Items, ItemOf(c) = i, ~Exempt(i)
      PROVE  /\ ItemSound(i)'
             /\ AllRead(c, "SCHEDULED")
  <2>1. HasFlag(c)
    BY <1>6, Constants DEF HasFlag
  <2>2. Current(i, c) /\ AllRead(c, "SCHEDULED") /\ GroupsOf(i) = BlocksOf(c)
    BY <1>0, <1>1, <1>6, <2>1, MainOwns
  <2>3. BlocksOf(c) \subseteq Groups
    BY <1>0, LaunchedPlaces
  <2>4. /\ cmds'[c] = cmds[c] /\ BlocksOf(c)' = BlocksOf(c) /\ ItemOf(c)' = i
        /\ AllRead(c, "UNSET")'
    BY <1>2, <1>4, <1>6, <2>1, <2>2, <2>3 DEF BlocksOf, ItemOf, Word, AllRead
  <2>5. LaunchFailed(c)' /\ block'[c][1] = "none"
    BY <1>1, <1>2, <1>3, <2>1, <2>4 DEF LaunchFailed, HasFlag, ItemOf
  <2>6. Reads(c)'
    BY <2>4, <2>5 DEF Reads
  <2>7. \A d \in DOMAIN cmds : ItemOf(d) = i /\ d # c => block'[d] = block[d] /\ d # main'
    BY <1>2, <1>3
  <2>8. Current(i, c)'
    BY <1>2, <2>2, <2>6, <2>7, CurrentStays
  <2>. QED
    BY <1>2, <2>2, <2>8 DEF ItemSound
<1>7. ASSUME NEW i \in Items, Exempt(i) PROVE ItemSound(i)'
  BY <1>2, <1>7, ExemptStays DEF ItemSound
<1>8. ThreadReads'
  <2>1. ASSUME gpe.pc \in {"run", "signal", "drain"}, HasFlag(gpe.cmd), ~Exempt(ItemOf(gpe.cmd))
        PROVE  flag'[ItemOf(gpe.cmd)][1] = flag[ItemOf(gpe.cmd)][1]
    <3>1. gpe.cmd \in DOMAIN cmds
      BY <1>0, <2>1 DEF ServedSound, PendingPcs
    <3>2. ItemOf(gpe.cmd) \in Items
      BY <1>0, <2>1, <3>1, CommandFacts
    <3>3. flag[ItemOf(gpe.cmd)][1] \in {"STARTED", "STARTED_AND_EXIT"}
      BY <1>0, <2>1 DEF ThreadReads, Word
    <3>4. ItemOf(gpe.cmd) # ItemOf(c)
      <4>1. 1 \in BlocksOf(c)
        BY <1>0, CommandFacts
      <4>. QED
        BY <1>6, <2>1, <3>2, <3>3, <4>1 DEF AllRead, Word
    <3>. QED
      BY <1>5, <3>2, <3>4
  <2>. QED
    BY <1>2, <2>1, SteadyThread
<1>. QED
  BY <1>5, <1>6, <1>7, <1>8 DEF ItemsSound

\* The item of a command that will have no kernel is abandoned.
LEMMA PreLaunchFailsItems ==
    ASSUME Quiet, PreLaunchFails
    PROVE  ItemsSound'
<1>0. BaseInv /\ main # None
  BY DEF Quiet, PreLaunchFails
<1>1. PICK c \in DOMAIN cmds : c = main
  BY <1>0, MainIsLast
<1>2. /\ UNCHANGED <<cmds, free, flag, ngroups, signalled, gpe, block>> /\ main' = None
      /\ abandoned' = abandoned \cup ({ItemOf(c)} \ {NoItem})
  BY <1>1 DEF PreLaunchFails, poolVars, ItemOf
<1>3. ASSUME NEW i \in Items, ItemOf(c) # i PROVE ItemSound(i)'
  <2>1. ItemSound(i)
    BY DEF Quiet, ItemsSound
  <2>2. \A d \in DOMAIN cmds : ItemOf(d) = i => (d = main' <=> d = main)
    BY <1>0, <1>1, <1>2, <1>3, CommandFacts
  <2>. QED
    BY <1>2, <2>1, <2>2, ItemFrame
<1>4. ASSUME NEW i \in Items, ItemOf(c) = i PROVE ItemSound(i)'
  BY <1>2, <1>4, Constants DEF ItemSound, Exempt
<1>5. ThreadReads'
  BY <1>2, SteadyThread
<1>. QED
  BY <1>3, <1>4, <1>5 DEF ItemsSound

LEMMA ReplayItems ==
    ASSUME Quiet, ReplayGraph
    PROVE  ItemsSound'
<1>0. BaseInv
  BY DEF Quiet
<1>1. /\ UNCHANGED <<cmds, main, free, flag, ngroups, gpe, abandoned>> /\ main = None
      /\ signalled' = signalled \ Captured
      /\ \A c \in Captured : block'[c] = Launched(c)
      /\ \A c \in Cmds : c \notin Captured => block'[c] = block[c]
      /\ \A c \in Captured : Exited(c) \/ block[c][1] = "none"
  <2>1. signalled' = signalled \ Captured /\ ~GraphRunning /\ UNCHANGED abandoned
    BY DEF ReplayGraph, failVars
  <2>. QED
    BY <1>0, <2>1, ReplayedPlaces DEF poolVars, GraphRunning
<1>2. \A d \in DOMAIN cmds : d \in Cmds /\ d # None
  BY <1>0, CommandFacts
<1>3. ASSUME NEW i \in Items, \A c \in Captured : ItemOf(c) # i PROVE ItemSound(i)'
  <2>1. ItemSound(i)
    BY DEF Quiet, ItemsSound
  <2>2. \A d \in DOMAIN cmds : ItemOf(d) = i => /\ block'[d] = block[d]
                                                /\ d \in signalled' => d \in signalled
    BY <1>1, <1>2, <1>3 DEF Captured
  <2>. QED
    BY <1>1, <2>1, <2>2, ItemFrame
<1>4. ASSUME NEW i \in Items, ~Exempt(i), NEW b \in Captured, ItemOf(b) = i PROVE ItemSound(i)'
  <2>1. b \in DOMAIN cmds /\ HasFlag(b)
    BY <1>4, Constants DEF HasFlag, Captured
  <2>2. PICK c \in DOMAIN cmds : Current(i, c) /\ ItemOf(c) = i /\ HasFlag(c)
    BY <1>4, <2>1, LastOwner
  <2>3. c = b
    BY <1>4, <2>1, <2>2 DEF Current, Over, Captured
  <2>4. /\ cmds[c].captured /\ cmds[c].kind = "wait" /\ c \in Captured /\ 1 \in BlocksOf(c)
        /\ Reads(c)
    BY <1>0, <1>4, <2>2, <2>3, CommandFacts DEF Captured, Current
  <2>5. \A g \in BlocksOf(c) : Word(c, g) \in {"SCHEDULED", "UNSET"}
    <3>1. CASE block[c][1] = "none"
      <4>1. ~LaunchFailed(c)
        BY <2>4 DEF LaunchFailed
      <4>. QED
        BY <2>4, <3>1, <4>1 DEF Reads, AllRead
    <3>2. CASE block[c][1] # "none"
      <4>1. Exited(c) /\ WaitReads(c)
        BY <1>1, <2>4, <3>2 DEF Reads
      <4>. QED
        BY <4>1 DEF WaitReads, Exited
    <3>. QED
      BY <3>1, <3>2
  <2>6. /\ cmds'[c] = cmds[c] /\ BlocksOf(c)' = BlocksOf(c) /\ ItemOf(c)' = i
        /\ \A g \in BlocksOf(c) : Word(c, g)' = Word(c, g) /\ block'[c][g] = "launched"
    BY <1>0, <1>1, <2>2, <2>4, LaunchedPlaces DEF BlocksOf, ItemOf, Word
  <2>7. WaitReads(c)'
    BY <2>4, <2>5, <2>6 DEF WaitReads
  <2>8. Reads(c)'
    BY <2>4, <2>6, <2>7 DEF Reads
  <2>9. \A d \in DOMAIN cmds : ItemOf(d) = i /\ d # c => block'[d] = block[d] /\ d # main'
    BY <1>1, <1>2, <2>2 DEF Current, Over, Captured
  <2>10. Current(i, c)'
    BY <1>1, <2>2, <2>8, <2>9, CurrentStays
  <2>. QED
    BY <1>1, <2>10 DEF ItemSound
<1>5. ASSUME NEW i \in Items, Exempt(i) PROVE ItemSound(i)'
  BY <1>1, <1>5, ExemptStays DEF ItemSound
<1>6. ThreadReads'
  BY <1>1, SteadyThread
<1>. QED
  BY <1>3, <1>4, <1>5, <1>6 DEF ItemsSound

\* An item that submit takes, unless a graph owns it: its words are read as free, and its
\* owners are over.
LEMMA TakenItem ==
    ASSUME Quiet, main = None, NEW i \in Available, ~Exempt(i), \A c \in Captured : ItemOf(c) # i,
           NEW d \in DOMAIN cmds, ItemOf(d) = i
    PROVE  Over(d) /\ Word(d, 1) = "UNSET"
<1>0. BaseInv /\ i \in Items /\ HasFlag(d)
  BY ModeFacts, Constants DEF Quiet, BaseInv, GpeTypeOK, Available, HasFlag
<1>1. PICK c \in DOMAIN cmds :
         /\ Current(i, c) /\ ItemOf(c) = i
         /\ GroupsOf(i) = BlocksOf(c)
         /\ \A g : Word(c, g) = Word(d, g)
         /\ cmds[c].kind \in {"wait", "exit"}
  BY <1>0, LastOwner
<1>2. /\ 1 \in BlocksOf(c) /\ c # None /\ ~cmds[c].captured /\ Reads(c) /\ block[c] \in [Groups -> Places]
      /\ BlocksOf(c) \subseteq Groups
  BY <1>0, <1>1, CommandFacts DEF Captured, Current
<1>3. AllRead(c, "UNSET")
  <2>1. CASE i \in free
    BY <1>1, <1>2, <2>1 DEF Reads
  <2>2. CASE ~InUse(i)
    BY <1>1, <2>2 DEF InUse, AllRead, Word
  <2>. QED
    BY <2>1, <2>2 DEF Available
<1>4. Over(c)
  <2>1. CASE block[c][1] # "none" /\ cmds[c].kind = "wait"
    BY <1>2, <1>3, <2>1 DEF Reads, WaitReads, AllRead, Over, Exited, Places
  <2>2. CASE block[c][1] # "none" /\ cmds[c].kind = "exit"
    BY <1>2, <1>3, <2>2 DEF Reads, ExitReads, AllRead, Over, Exited
  <2>3. CASE block[c][1] = "none"
    BY <1>2, <2>3 DEF Over
  <2>. QED
    BY <1>1, <2>1, <2>2, <2>3
<1>. QED
  BY <1>1, <1>2, <1>3, <1>4 DEF Current, AllRead

LEMMA SubmitItems ==
    ASSUME Quiet, NEW s \in mode.shapes, Submit(s) \/ SubmitHost(s)
    PROVE  ItemsSound'
<1>0. BaseInv /\ ServedSound /\ ThreadReads
  BY DEF Quiet, ItemsSound
<1>1. PICK n \in Nat, i \in Items \cup {NoItem} :
             /\ n # None
             /\ DOMAIN cmds' = DOMAIN cmds \cup {n} /\ n \notin DOMAIN cmds
             /\ \A c \in DOMAIN cmds : cmds'[c] = cmds[c] /\ c < n
             /\ cmds'[n] = Cmd(s, i)
             /\ block[n][1] = "none"
             /\ main = None /\ main' = IF s.captured \/ s.kind = "host" THEN None ELSE n
             /\ i = NoItem => UNCHANGED <<flag, ngroups>> /\ free' \in {free, Available}
             /\ i # NoItem => /\ i \in Available /\ s.kind \in {"wait", "exit"}
                              /\ free' = Available \ {i}
                              /\ flag' = [flag EXCEPT ![i] = [g \in Groups |-> "SCHEDULED"]]
                              /\ ngroups' = [ngroups EXCEPT ![i] = s.groups]
             /\ UNCHANGED <<gpe, signalled, block, abandoned>>
  BY <1>0, SubmitAppends
<1>2. \A d \in DOMAIN cmds : d # None /\ d # n
  BY <1>0, <1>1, CommandFacts
<1>3. flag \in [Items -> [Groups -> FlagValues]] /\ ngroups \in [Items -> Nat] /\ s.groups \in 1 .. MaxGroups
  BY <1>0, ModeFacts DEF BaseInv, GpeTypeOK, ShapeType
<1>4. ASSUME NEW j \in Items, j # i PROVE ItemSound(j)' /\ flag'[j] = flag[j]
  <2>1. flag'[j] = flag[j] /\ ngroups'[j] = ngroups[j]
    BY <1>1, <1>3, <1>4
  <2>2. j \in free' => j \in free \/ \A g \in GroupsOf(j) : flag[j][g] = "UNSET"
    BY <1>1 DEF Available, InUse
  <2>3. \A d \in DOMAIN cmds' : d \notin DOMAIN cmds => cmds'[d].item # j
    BY <1>1, <1>4 DEF Cmd
  <2>4. ItemSound(j)
    BY DEF Quiet, ItemsSound
  <2>. QED
    BY <1>1, <1>2, <2>1, <2>2, <2>3, <2>4, ItemFrame
<1>5. \A d \in DOMAIN cmds : ItemOf(d)' = ItemOf(d) /\ (d \in Captured => d \in Captured')
  BY <1>1 DEF ItemOf, Captured
<1>6. ItemOf(n)' = i /\ n \in DOMAIN cmds'
  BY <1>1 DEF ItemOf, Cmd
<1>7. ASSUME NEW c \in Captured, ItemOf(c) = i PROVE Exempt(i)'
  <2>1. c \in DOMAIN cmds /\ n > c
    BY <1>1 DEF Captured
  <2>. QED
    BY <1>5, <1>6, <1>7, <2>1 DEF Exempt, IsLent
<1>8. ASSUME Exempt(i) PROVE Exempt(i)'
  BY <1>1, <1>8, ExemptStays
<1>9. ASSUME i \in Items, ~Exempt(i)' PROVE Current(i, n)'
  <2>1. i \in Available /\ ngroups'[i] = s.groups /\ \A g \in Groups : flag'[i][g] = "SCHEDULED"
    BY <1>1, <1>3, <1>9, Constants
  <2>2. \A d \in DOMAIN cmds : ItemOf(d) = i => Over(d)
    BY <1>1, <1>7, <1>8, <1>9, <2>1, TakenItem
  <2>3. ASSUME NEW d \in DOMAIN cmds', ItemOf(d)' = i, d # n PROVE d < n /\ Over(d)'
    <3>1. d \in DOMAIN cmds /\ ItemOf(d) = i /\ Over(d) /\ cmds'[d] = cmds[d] /\ d < n
      BY <1>1, <1>5, <2>2, <2>3
    <3>2. d # main'
      BY <1>1, <1>2, <3>1
    <3>. QED
      BY <1>1, <3>1, <3>2 DEF Over, Exited, BlocksOf
  <2>4. BlocksOf(n)' = 1 .. s.groups /\ cmds'[n].groups = s.groups
    BY <1>1 DEF BlocksOf, Cmd
  <2>5. AllRead(n, "SCHEDULED")'
    <3>1. \A g \in 1 .. s.groups : g \in Groups
      BY <1>3, Constants DEF Groups
    <3>. QED
      BY <1>6, <2>1, <2>4, <3>1 DEF AllRead, Word
  <2>6. n \notin signalled'
    BY <1>0, <1>1 DEF ServedSound
  <2>7. ~LaunchFailed(n)'
    BY <1>1, <1>9, Constants DEF LaunchFailed, Cmd
  <2>8. i \notin free'
    BY <1>1, <1>9, Constants
  <2>9. Reads(n)'
    BY <1>1, <1>6, <2>5, <2>6, <2>7, <2>8 DEF Reads
  <2>. QED
    BY <1>6, <2>1, <2>3, <2>4, <2>9 DEF Current
<1>10. ThreadReads'
  <2>1. gpe.pc \in {"run", "signal", "drain"} => gpe.cmd \in DOMAIN cmds
    BY <1>0 DEF ServedSound, PendingPcs
  <2>2. CASE gpe.pc \in {"run", "signal", "drain"} /\ ItemOf(gpe.cmd) = i /\ i \in Items
    <3>1. ItemOf(gpe.cmd)' = i
      BY <1>1, <1>5, <2>1, <2>2
    <3>2. CASE Exempt(i)'
      <4>1. Exempt(ItemOf(gpe.cmd))'
        BY <3>1, <3>2 DEF Exempt, IsLent
      <4>. QED
        BY <1>0, <1>1, <4>1 DEF ThreadReads
    <3>3. CASE ~Exempt(i)'
      <4>1. Word(gpe.cmd, 1) = "UNSET" /\ ~Exempt(i)
        BY <1>1, <1>7, <1>8, <2>1, <2>2, <3>3, TakenItem, Constants
      <4>. QED
        BY <1>0, <2>2, <4>1, Constants DEF ThreadReads, HasFlag
    <3>. QED
      BY <3>2, <3>3
  <2>3. CASE ~(gpe.pc \in {"run", "signal", "drain"} /\ ItemOf(gpe.cmd) = i /\ i \in Items)
    <3>1. ASSUME gpe.pc \in {"run", "signal", "drain"}, HasFlag(gpe.cmd), ~Exempt(ItemOf(gpe.cmd))
          PROVE  flag'[ItemOf(gpe.cmd)][1] = flag[ItemOf(gpe.cmd)][1]
      <4>1. ItemOf(gpe.cmd) \in Items
        BY <1>0, <2>1, <3>1, CommandFacts
      <4>. QED
        BY <1>4, <2>3, <3>1, <4>1
    <3>. QED
      BY <1>1, <3>1, SteadyThread
  <2>. QED
    BY <2>2, <2>3
<1>. QED
  BY <1>4, <1>6, <1>9, <1>10 DEF ItemsSound, ItemSound

LEMMA SubmitFailsItems ==
    ASSUME Quiet, NEW s \in mode.shapes, SubmitFails(s)
    PROVE  ItemsSound'
<1>0. BaseInv /\ ServedSound /\ ThreadReads
  BY DEF Quiet, ItemsSound
<1>1. PICK i \in Items :
        /\ free' = Available \ {i}
        /\ flag' = [flag EXCEPT ![i] = [g \in Groups |-> "SCHEDULED"]]
        /\ ngroups' = [ngroups EXCEPT ![i] = s.groups]
        /\ abandoned' = abandoned \cup {i}
  BY <1>0, SubmitFailsTakes
<1>2. UNCHANGED <<cmds, main, signalled, gpe, block>>
  BY <1>0, SubmitFailsTakes
<1>3. flag \in [Items -> [Groups -> FlagValues]] /\ ngroups \in [Items -> Nat]
  BY <1>0 DEF BaseInv, GpeTypeOK
<1>4. ASSUME NEW j \in Items, j # i PROVE ItemSound(j)' /\ flag'[j] = flag[j]
  <2>1. flag'[j] = flag[j] /\ ngroups'[j] = ngroups[j]
    BY <1>1, <1>3, <1>4
  <2>2. j \in free' => j \in free \/ \A g \in GroupsOf(j) : flag[j][g] = "UNSET"
    BY <1>1 DEF Available, InUse
  <2>3. ItemSound(j)
    BY DEF Quiet, ItemsSound
  <2>. QED
    BY <1>1, <1>2, <2>1, <2>2, <2>3, ItemFrame
<1>5. Exempt(i)'
  BY <1>1 DEF Exempt
<1>6. ThreadReads'
  <2>1. CASE gpe.pc \in {"run", "signal", "drain"} /\ ItemOf(gpe.cmd) = i
    <3>1. Exempt(ItemOf(gpe.cmd))'
      BY <1>1, <1>2, <2>1 DEF Exempt, ItemOf
    <3>. QED
      BY <1>0, <1>2, <3>1 DEF ThreadReads
  <2>2. CASE ~(gpe.pc \in {"run", "signal", "drain"} /\ ItemOf(gpe.cmd) = i)
    <3>1. ASSUME gpe.pc \in {"run", "signal", "drain"}, HasFlag(gpe.cmd), ~Exempt(ItemOf(gpe.cmd))
          PROVE  flag'[ItemOf(gpe.cmd)][1] = flag[ItemOf(gpe.cmd)][1]
      <4>1. ItemOf(gpe.cmd) \in Items
        BY <1>0, <3>1, CommandFacts DEF ServedSound, PendingPcs
      <4>. QED
        BY <1>4, <2>2, <3>1, <4>1
    <3>. QED
      BY <1>1, <1>2, <3>1, SteadyThread
  <2>. QED
    BY <2>1, <2>2
<1>. QED
  BY <1>4, <1>5, <1>6 DEF ItemsSound, ItemSound

\* A block that moves is one of its item's last owner.
LEMMA MovingOwns ==
    ASSUME Quiet, NEW c \in DOMAIN cmds, HasFlag(c), ~Exempt(ItemOf(c)),
           NEW g \in BlocksOf(c), block[c][g] \in {"launched", "running"}
    PROVE  Current(ItemOf(c), c) /\ block[c][1] # "none"
<1>1. BaseInv
  BY DEF Quiet
<1>2. block[c][1] # "none"
  BY <1>1, CommandFacts
<1>3. PICK d \in DOMAIN cmds : Current(ItemOf(c), d)
  BY LastOwner
<1>4. d = c
  BY <1>2, <1>3 DEF Current, Over, Exited
<1>. QED
  BY <1>2, <1>3, <1>4

\* Block g of kernel c moves to a place and writes v to its word.
BlockWrites(c, g, to, v) ==
    /\ block' = [block EXCEPT ![c][g] = to]
    /\ WriteFlag(c, g, v)
    /\ UNCHANGED <<cmds, main, free, ngroups, signalled, gpe, abandoned>>

LEMMA WritesFacts ==
    ASSUME BaseInv, NEW c \in DOMAIN cmds, HasFlag(c), NEW g \in BlocksOf(c), NEW to, NEW v,
           BlockWrites(c, g, to, v)
    PROVE  /\ c \in Cmds /\ ItemOf(c) \in Items /\ 1 \in BlocksOf(c)
           /\ cmds'[c] = cmds[c] /\ BlocksOf(c)' = BlocksOf(c) /\ ItemOf(c)' = ItemOf(c)
           /\ block'[c][g] = to /\ Word(c, g)' = v
           /\ \A h \in BlocksOf(c) : h # g => block'[c][h] = block[c][h] /\ Word(c, h)' = Word(c, h)
           /\ \A d \in DOMAIN cmds : d # c => block'[d] = block[d]
           /\ \A j \in Items : j # ItemOf(c) => flag'[j] = flag[j]
<1>1. /\ c \in Cmds /\ ItemOf(c) \in Items /\ BlocksOf(c) \subseteq Groups /\ 1 \in BlocksOf(c)
  BY CommandFacts
<1>2. \A d \in DOMAIN cmds : d \in Cmds
  BY CommandFacts
<1>3. block \in [Cmds -> [Groups -> Places]] /\ flag \in [Items -> [Groups -> FlagValues]]
  BY DEF BaseInv, GpeTypeOK
<1>4. block' = [block EXCEPT ![c][g] = to] /\ flag' = [flag EXCEPT ![ItemOf(c)][g] = v] /\ cmds' = cmds
  BY DEF BlockWrites, WriteFlag
<1>5. BlocksOf(c)' = BlocksOf(c) /\ ItemOf(c)' = ItemOf(c)
  BY <1>4 DEF BlocksOf, ItemOf
<1>. QED
  BY <1>1, <1>2, <1>3, <1>4, <1>5 DEF Word

\* It leaves the items sound when the words of its own kernel are.
LEMMA WritesItems ==
    ASSUME Quiet, NEW c \in DOMAIN cmds, HasFlag(c), NEW g \in BlocksOf(c), NEW to, NEW v,
           BlockWrites(c, g, to, v), block[c][g] \in {"launched", "running"},
           v \in {"STARTED", "STARTED_AND_EXIT", "UNSET"},
           ~Exempt(ItemOf(c)) =>
               /\ Reads(c)'
               /\ v = "UNSET" => Word(c, g) = "TERMINATE"
               /\ v = "STARTED" => Word(c, g) # "STARTED_AND_EXIT"
    PROVE  ItemsSound'
<1>0. BaseInv /\ ServedSound /\ ThreadReads
  BY DEF Quiet, ItemsSound
<1>1. PICK i \in Items : i = ItemOf(c)
  BY <1>0, CommandFacts
<1>2. UNCHANGED <<cmds, main, free, ngroups, signalled, gpe, abandoned>>
  BY DEF BlockWrites
<1>3. /\ \A d \in DOMAIN cmds : d # c => block'[d] = block[d]
      /\ \A j \in Items : j # i => flag'[j] = flag[j]
      /\ Word(c, g)' = v
      /\ \A h \in BlocksOf(c) : h # g => Word(c, h)' = Word(c, h)
      /\ ItemOf(c)' = i /\ 1 \in BlocksOf(c)
  BY <1>0, <1>1, WritesFacts
<1>4. ASSUME NEW j \in Items, j # i PROVE ItemSound(j)'
  <2>1. ItemSound(j)
    BY DEF Quiet, ItemsSound
  <2>2. \A d \in DOMAIN cmds : ItemOf(d) = j => block'[d] = block[d]
    BY <1>1, <1>3, <1>4
  <2>. QED
    BY <1>2, <1>3, <1>4, <2>1, <2>2, ItemFrame
<1>5. ASSUME ~Exempt(i) PROVE ItemSound(i)'
  <2>1. Current(i, c)
    BY <1>1, <1>5, MovingOwns
  <2>2. \A d \in DOMAIN cmds : ItemOf(d) = i /\ d # c => block'[d] = block[d] /\ d # main'
    BY <1>2, <1>3, <2>1 DEF Current, Over
  <2>3. Current(i, c)'
    BY <1>1, <1>2, <1>5, <2>1, <2>2, CurrentStays
  <2>. QED
    BY <1>2, <2>3 DEF ItemSound
<1>6. ASSUME Exempt(i) PROVE ItemSound(i)'
  BY <1>2, <1>6, ExemptStays DEF ItemSound
<1>7. ThreadReads'
  <2>1. gpe.pc \in {"run", "signal", "drain"} => gpe.cmd \in DOMAIN cmds
    BY <1>0 DEF ServedSound, PendingPcs
  <2>2. CASE /\ gpe.pc \in {"run", "signal", "drain"} /\ HasFlag(gpe.cmd) /\ ~Exempt(ItemOf(gpe.cmd))
             /\ ItemOf(gpe.cmd) = i /\ g = 1
    <3>1. Word(c, 1) = Word(gpe.cmd, 1) /\ Word(gpe.cmd, 1)' = v
      BY <1>1, <1>2, <1>3, <2>2 DEF Word, ItemOf
    <3>2. /\ Word(gpe.cmd, 1) \in {"STARTED", "STARTED_AND_EXIT"}
          /\ gpe.pc = "drain" => Word(gpe.cmd, 1) = "STARTED_AND_EXIT"
      BY <1>0, <2>2 DEF ThreadReads
    <3>3. v # "UNSET" /\ (gpe.pc = "drain" => v = "STARTED_AND_EXIT")
      BY <1>1, <2>2, <3>1, <3>2
    <3>. QED
      BY <1>0, <1>2, <3>1, <3>3 DEF ThreadReads
  <2>3. CASE ~(/\ gpe.pc \in {"run", "signal", "drain"} /\ HasFlag(gpe.cmd) /\ ~Exempt(ItemOf(gpe.cmd))
               /\ ItemOf(gpe.cmd) = i /\ g = 1)
    <3>1. ASSUME gpe.pc \in {"run", "signal", "drain"}, HasFlag(gpe.cmd), ~Exempt(ItemOf(gpe.cmd))
          PROVE  flag'[ItemOf(gpe.cmd)][1] = flag[ItemOf(gpe.cmd)][1]
      <4>1. ItemOf(gpe.cmd) \in Items
        BY <1>0, <2>1, <3>1, CommandFacts
      <4>2. CASE ItemOf(gpe.cmd) # i
        BY <1>3, <4>1, <4>2
      <4>3. CASE ItemOf(gpe.cmd) = i /\ g # 1
        BY <1>1, <1>3, <4>3 DEF Word
      <4>. QED
        BY <2>3, <3>1, <4>2, <4>3
    <3>. QED
      BY <1>2, <3>1, SteadyThread
  <2>. QED
    BY <2>2, <2>3
<1>. QED
  BY <1>4, <1>5, <1>6, <1>7 DEF ItemsSound

LEMMA StartItems ==
    ASSUME Quiet, NEW c \in Cmds, NEW g \in Groups, KernelStartGpe(c, g)
    PROVE  ItemsSound'
<1>0. BaseInv /\ ~enabled
  BY DEF Quiet
<1>1. /\ c \in DOMAIN cmds /\ g \in BlocksOf(c) /\ cmds[c].kind = "wait" /\ block[c][g] = "launched"
      /\ BlockWrites(c, g, "running", "STARTED")
  BY <1>0 DEF KernelStartGpe, CanRun, BlockWrites, MoveBlock, hostVars, failVars
<1>2. HasFlag(c)
  BY <1>0, <1>1, CommandFacts
<1>3. ASSUME ~Exempt(ItemOf(c)) PROVE Reads(c)' /\ Word(c, g) # "STARTED_AND_EXIT"
  <2>1. Current(ItemOf(c), c) /\ block[c][1] # "none"
    BY <1>1, <1>2, <1>3, MovingOwns
  <2>2. Reads(c) /\ WaitReads(c)
    BY <1>1, <2>1 DEF Current, Reads
  <2>3. /\ 1 \in BlocksOf(c) /\ cmds'[c] = cmds[c] /\ BlocksOf(c)' = BlocksOf(c) /\ ItemOf(c)' = ItemOf(c)
        /\ block'[c][g] = "running" /\ Word(c, g)' = "STARTED"
        /\ \A h \in BlocksOf(c) : h # g => block'[c][h] = block[c][h] /\ Word(c, h)' = Word(c, h)
    BY <1>0, <1>1, <1>2, WritesFacts
  <2>4. /\ Word(c, g) \in {"SCHEDULED", "TERMINATE"} \/ (cmds[c].captured /\ Word(c, g) = "UNSET")
        /\ ~(ItemOf(c) \in free /\ ~cmds[c].captured)
    BY <1>1, <2>2 DEF WaitReads, Reads, AllRead
  <2>5. block'[c][1] # "none"
    BY <2>1, <2>3
  <2>6. WaitReads(c)'
    <3>1. ASSUME NEW h \in BlocksOf(c)
          PROVE  /\ block'[c][h] \notin {"none", "tested"}
                 /\ block'[c][h] = "launched" => \/ Word(c, h)' \in {"SCHEDULED", "TERMINATE"}
                                                 \/ cmds[c].captured /\ Word(c, h)' = "UNSET"
                 /\ block'[c][h] = "running" => Word(c, h)' \in {"STARTED", "TERMINATE"}
                 /\ block'[c][h] = "exited" => Word(c, h)' = "UNSET"
      BY <2>2, <2>3 DEF WaitReads
    <3>2. ASSUME NEW h \in BlocksOf(c)
          PROVE  /\ Word(c, h)' = "TERMINATE" => block'[c][1] \in {"running", "exited"}
                 /\ block'[c][1] = "launched" \/ Word(c, 1)' = "STARTED" => block'[c][h] # "exited"
                 /\ Word(c, 1)' = "STARTED" => Word(c, h)' # "TERMINATE"
      BY <1>1, <2>2, <2>3 DEF WaitReads
    <3>. QED
      BY <2>3, <3>1, <3>2 DEF WaitReads
  <2>7. free' = free
    BY <1>1 DEF BlockWrites
  <2>. QED
    BY <1>1, <2>3, <2>4, <2>5, <2>6, <2>7 DEF Reads
<1>. QED
  BY <1>1, <1>2, <1>3, WritesItems

LEMMA ReleaseItems ==
    ASSUME Quiet, NEW c \in Cmds, NEW g \in Groups, KernelWaitGpeTerminate(c, g)
    PROVE  ItemsSound'
<1>0. BaseInv /\ ~enabled
  BY DEF Quiet
<1>1. /\ c \in DOMAIN cmds /\ g \in BlocksOf(c) /\ block[c][g] = "running" /\ Word(c, g) = "TERMINATE"
      /\ BlockWrites(c, g, "exited", "UNSET")
  BY <1>0 DEF KernelWaitGpeTerminate, ReleasedFlag, BlockWrites, MoveBlock, hostVars, failVars, Word
<1>2. cmds[c].kind = "wait" /\ HasFlag(c)
  BY <1>0, <1>1, CommandFacts DEF BaseInv, PlacesSound
<1>3. ASSUME ~Exempt(ItemOf(c)) PROVE Reads(c)'
  <2>1. Current(ItemOf(c), c) /\ block[c][1] # "none"
    BY <1>1, <1>2, <1>3, MovingOwns
  <2>2. Reads(c) /\ WaitReads(c)
    BY <1>2, <2>1 DEF Current, Reads
  <2>3. /\ 1 \in BlocksOf(c) /\ cmds'[c] = cmds[c] /\ BlocksOf(c)' = BlocksOf(c) /\ ItemOf(c)' = ItemOf(c)
        /\ block'[c][g] = "exited" /\ Word(c, g)' = "UNSET"
        /\ \A h \in BlocksOf(c) : h # g => block'[c][h] = block[c][h] /\ Word(c, h)' = Word(c, h)
    BY <1>0, <1>1, <1>2, WritesFacts
  <2>4. /\ ~(ItemOf(c) \in free /\ ~cmds[c].captured)
        /\ block[c][1] \in {"running", "exited"} /\ Word(c, 1) # "STARTED"
    BY <1>1, <2>2 DEF WaitReads, Reads, AllRead
  <2>5. block'[c][1] \in {"running", "exited"} /\ Word(c, 1)' # "STARTED"
    BY <2>3, <2>4
  <2>6. WaitReads(c)'
    BY <2>2, <2>3, <2>5 DEF WaitReads
  <2>7. free' = free
    BY <1>1 DEF BlockWrites
  <2>. QED
    BY <1>2, <2>3, <2>4, <2>5, <2>6, <2>7 DEF Reads
<1>. QED
  BY <1>1, <1>2, <1>3, WritesItems

LEMMA ExitItems ==
    ASSUME Quiet, NEW c \in Cmds, NEW g \in Groups, KernelStartGpeAndExit(c, g)
    PROVE  ItemsSound'
<1>0. BaseInv /\ ~enabled
  BY DEF Quiet
<1>1. /\ c \in DOMAIN cmds /\ g \in BlocksOf(c) /\ cmds[c].kind = "exit" /\ block[c][g] = "launched"
      /\ BlockWrites(c, g, "exited", "STARTED_AND_EXIT")
  BY DEF KernelStartGpeAndExit, CanRun, BlockWrites, MoveBlock, hostVars, failVars
<1>2. HasFlag(c)
  BY <1>0, <1>1, CommandFacts
<1>3. ASSUME ~Exempt(ItemOf(c)) PROVE Reads(c)'
  <2>1. Current(ItemOf(c), c) /\ block[c][1] # "none"
    BY <1>1, <1>2, <1>3, MovingOwns
  <2>2. Reads(c) /\ ExitReads(c)
    BY <1>1, <2>1 DEF Current, Reads
  <2>3. /\ 1 \in BlocksOf(c) /\ cmds'[c] = cmds[c] /\ BlocksOf(c)' = BlocksOf(c) /\ ItemOf(c)' = ItemOf(c)
        /\ block'[c][g] = "exited" /\ Word(c, g)' = "STARTED_AND_EXIT"
        /\ \A h \in BlocksOf(c) : h # g => block'[c][h] = block[c][h] /\ Word(c, h)' = Word(c, h)
    BY <1>0, <1>1, <1>2, WritesFacts
  <2>4. /\ c \notin signalled /\ Word(c, g) = "SCHEDULED"
        /\ \A h \in BlocksOf(c) : \/ block[c][h] = "launched" /\ Word(c, h) = "SCHEDULED"
                                  \/ block[c][h] = "exited" /\ Word(c, h) = "STARTED_AND_EXIT"
    BY <1>1, <2>2 DEF ExitReads, Exited
  <2>5. ~(ItemOf(c) \in free /\ ~cmds[c].captured)
    BY <1>1, <2>2, <2>4 DEF Reads, AllRead
  <2>6. UNCHANGED <<free, signalled>> /\ block'[c][1] # "none"
    BY <1>1, <2>1, <2>3 DEF BlockWrites
  <2>7. ExitReads(c)'
    BY <2>3, <2>4, <2>6 DEF ExitReads
  <2>. QED
    BY <1>1, <2>3, <2>5, <2>6, <2>7 DEF Reads
<1>. QED
  BY <1>1, <1>2, <1>3, WritesItems

LEMMA BareItems ==
    ASSUME Quiet, NEW c \in Cmds, NEW g \in Groups, KernelBare(c, g)
    PROVE  ItemsSound'
<1>0. BaseInv
  BY DEF Quiet
<1>1. /\ c \in DOMAIN cmds /\ cmds[c].kind = "bare"
      /\ UNCHANGED <<cmds, main, free, flag, ngroups, signalled, gpe, abandoned>>
      /\ \E to : block' = [block EXCEPT ![c][g] = to]
  BY DEF KernelBare, CanRun, MoveBlock, hostVars, poolVars, failVars
<1>2. ItemOf(c) \notin Items
  BY <1>0, <1>1, CommandFacts
<1>3. \A d \in DOMAIN cmds : d # c => block'[d] = block[d]
  BY <1>0, <1>1, CommandFacts DEF BaseInv, GpeTypeOK
<1>4. ASSUME NEW i \in Items PROVE ItemSound(i)'
  <2>1. ItemSound(i)
    BY DEF Quiet, ItemsSound
  <2>2. \A d \in DOMAIN cmds : ItemOf(d) = i => block'[d] = block[d]
    BY <1>2, <1>3
  <2>. QED
    BY <1>1, <2>1, <2>2, ItemFrame
<1>. QED
  BY <1>1, <1>4, SteadyThread DEF ItemsSound

LEMMA ItemsStep ==
    ASSUME Quiet, Next
    PROVE  ItemsSound'
<1>1. ASSUME NEW c \in Cmds, NEW g \in Groups, KernelStep(c, g) PROVE ItemsSound'
  <2>1. ~KernelTestHostAbort(c, g)
    BY DEF Quiet, KernelTestHostAbort
  <2>. QED
    BY <1>1, <2>1, StartItems, ReleaseItems, ExitItems, BareItems DEF KernelStep
<1>2. CASE OtherStep
  <2>1. CASE ~Signal /\ ~Drain
    BY <1>2, <2>1, MovesItems
  <2>. QED
    BY <2>1, SignalItems, DrainItems
<1>. QED
  BY <1>1, <1>2, SubmitItems, SubmitFailsItems, LaunchItems, PreLaunchFailsItems, LaunchFailsItems,
     ReplayItems DEF Next, OtherStep

LEMMA ComeBackStep == ComeBackInv /\ [Next]_vars => ComeBackInv'
<1>. SUFFICES ASSUME ComeBackInv, [Next]_vars PROVE ComeBackInv'
  OBVIOUS
<1>1. BaseInv' /\ mode' = mode
  <2>1. CASE UNCHANGED vars
    BY <2>1, BaseStep DEF ComeBackInv, vars, abortVars
  <2>2. CASE Next
    <3>0. BaseInv
      BY DEF ComeBackInv
    <3>1. ASSUME NEW s \in mode.shapes, Submit(s) \/ SubmitHost(s) PROVE mode' = mode
      BY <3>0, <3>1, SubmitAppends
    <3>2. ASSUME Launch \/ PreLaunchFails \/ LaunchFails PROVE mode' = mode
      BY <3>2 DEF Launch, PreLaunchFails, LaunchFails, abortVars
    <3>3. ASSUME ReplayGraph PROVE mode' = mode
      BY <3>0, <3>3, ReplayedPlaces DEF abortVars
    <3>4. ASSUME OtherStep PROVE mode' = mode
      BY <3>0, <3>4, OtherFrame
    <3>5. ASSUME NEW c \in Cmds, NEW g \in Groups, KernelStep(c, g) PROVE mode' = mode
      BY <3>0, <3>5, KernelMoves DEF abortVars
    <3>6. ASSUME NEW s \in mode.shapes, SubmitFails(s) PROVE mode' = mode
      BY <3>0, <3>6, SubmitFailsTakes DEF abortVars
    <3>7. mode' = mode
      BY <2>2, <3>1, <3>2, <3>3, <3>4, <3>5, <3>6 DEF Next, OtherStep
    <3>. QED
      BY <3>0, <2>2, <3>7, BaseStep
  <2>. QED
    BY <2>1, <2>2
<1>2. CASE Next
  <2>1. ServedSound' /\ GraphRests'
    BY <1>2, ServedStep, GraphStep DEF ComeBackInv
  <2>2. ~enabled' => ItemsSound'
    BY <1>1, <1>2, ItemsStep DEF ComeBackInv, Quiet, enabled
  <2>. QED
    BY <1>1, <2>1, <2>2 DEF ComeBackInv
<1>3. CASE UNCHANGED vars
  <2>. USE <1>3 DEF vars, abortVars, poolVars, hostVars, deviceVars, failVars, graphVars
  <2>1. ServedSound'
    BY DEF ComeBackInv, ServedSound, HasFlag, ItemOf
  <2>2. GraphRests'
    BY DEF ComeBackInv, GraphRests, Captured, Exited, BlocksOf
  <2>3. ~enabled' => ItemsSound'
    <3>. SUFFICES ASSUME ~enabled PROVE ItemsSound'
      BY DEF enabled
    <3>1. Quiet
      BY DEF ComeBackInv, Quiet
    <3>2. ThreadReads'
      BY <3>1, SteadyThread
    <3>3. \A i \in Items : ItemSound(i)'
      BY <3>1, SteadyItems
    <3>. QED
      BY <3>2, <3>3 DEF ItemsSound
  <2>. QED
    BY <1>1, <2>1, <2>2, <2>3 DEF ComeBackInv
<1>. QED
  BY <1>2, <1>3

\* Without aborts every word of the pool's items that still reads in use has a command to
\* answer for it: whichever way kernels end, and however launches and algorithms fail, an
\* item comes back to the pool, unless a graph lent it or a submit that failed with an
\* error other than the launch's left it behind.
THEOREM FlagsAlwaysComeBack == Spec => []FlagsComeBack
<1>1. Spec => []ComeBackInv
  BY InitComeBack, ComeBackStep, PTL DEF Spec
<1>2. ComeBackInv => FlagsComeBack
  <2>. SUFFICES ASSUME ComeBackInv, ~enabled, NEW i \in mode.pool \ free, InUse(i), ~Exempt(i)
                PROVE  \E c \in DOMAIN cmds : ItemOf(c) = i /\ (Holds(c) \/ (cmds[c].captured /\ replays = 0))
    BY DEF FlagsComeBack, Exempt
  <2>0. BaseInv /\ GraphRests /\ i \in Items
    BY ModeFacts DEF ComeBackInv, BaseInv, GpeTypeOK
  <2>1. ~Unused(i) /\ ItemSound(i)
    BY <2>0 DEF ComeBackInv, ItemsSound, Unused, InUse
  <2>2. PICK c \in DOMAIN cmds : Current(i, c)
    BY <2>1 DEF ItemSound
  <2>3. /\ ItemOf(c) = i /\ HasFlag(c) /\ Reads(c) /\ cmds[c].kind \in {"wait", "exit"}
        /\ 1 \in BlocksOf(c) /\ GroupsOf(i) = BlocksOf(c)
        /\ cmds[c].captured => cmds[c].kind = "wait"
    BY <2>0, <2>2, CommandFacts DEF Current, HasFlag, GroupsOf, BlocksOf
  <2>4. ~AllRead(c, "UNSET")
    BY <2>3 DEF InUse, AllRead, Word
  <2>5. ~LaunchFailed(c)
    BY <2>3, <2>4 DEF Reads, LaunchFailed
  <2>6. CASE block[c][1] = "none" /\ cmds[c].captured
    BY <2>0, <2>3, <2>6 DEF GraphRests, Captured
  <2>7. CASE block[c][1] = "none" /\ ~cmds[c].captured
    BY <2>3, <2>5, <2>7 DEF Reads, Holds
  <2>8. CASE block[c][1] # "none" /\ cmds[c].kind = "wait"
    <3>1. ~Exited(c)
      BY <2>3, <2>4, <2>8 DEF Reads, WaitReads, Exited, AllRead
    <3>2. cmds[c].captured => graph # "destroyed"
      BY <2>0, <2>8, <3>1 DEF GraphRests, Captured
    <3>. QED
      BY <2>3, <2>5, <3>1, <3>2 DEF Holds
  <2>9. CASE block[c][1] # "none" /\ cmds[c].kind = "exit"
    <3>1. c \notin signalled /\ ~cmds[c].captured
      BY <2>3, <2>4, <2>9 DEF Reads, ExitReads
    <3>. QED
      BY <2>3, <2>5, <3>1 DEF Holds
  <2>. QED
    BY <2>3, <2>6, <2>7, <2>8, <2>9
<1>. QED
  BY <1>1, <1>2, PTL

=============================================================================
