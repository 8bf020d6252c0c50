---------------------------- MODULE WorkLifetime ----------------------------
(***************************************************************************)
(* Who keeps a work, and with it the communicator and two CUDA events,     *)
(* alive.  A TorchWorkNCCLX holds a shared_ptr to its TorchCommNCCLX; the  *)
(* communicator's queue and its table of captured graphs hold works: cycles *)
(* that the watchdog, finalize and CUDA's clean-up callback have to break. *)
(* Windows hold the communicator too.  Events go round between works and   *)
(* the communicator's pool.                                                *)
(*                                                                         *)
(* Threads: the program's, which issues, finalizes and lets go; the        *)
(* watchdog, which collects; CUDA's, which runs graphCleanupCallback.      *)
(***************************************************************************)
EXTENDS Naturals, FiniteSets

CONSTANTS
    Streams,            \* streams a work can be enqueued on
    WindowStream,       \* op_stream_ of the window, one of them
    MaxWorks,           \* bound: works created
    MaxEventPoolSize,   \* configs_.max_event_pool_size_
    Graphs              \* the graphs the program may capture

Works == 1 .. MaxWorks
Events == 1 .. 2 * MaxWorks
NoWork == 0
NoEvents == <<0, 0>>
NoGraph == "no graph"

ASSUME LifetimeAssumption ==
    /\ WindowStream \in Streams
    /\ NoGraph \notin Graphs
    /\ MaxWorks \in Nat /\ MaxEventPoolSize \in Nat
    /\ IsFiniteSet(Graphs)

\* What may hold a work: the operation that creates it, the program, the queue, the
\* table of its graph.
Holders == {"op", "program", "queue", "graph"}

VARIABLES
    initState,   \* init_state_
    finalizing,  \* finalize: "no", "drained" or "failed" once the queue is cleared
    watchdog,    \* the watchdog has not been joined
    nccl,        \* nccl_comm_: "live", "aborted" or "destroyed"
    handle,      \* the program holds the communicator
    window,      \* "none", "open" or "freed"
    op,          \* the operation in progress: "idle", "created" or "recorded"
    current,     \* its work
    issued,      \* works created so far
    holders,     \* per work: what holds a reference to it
    place,       \* per work: its stream
    gpu,         \* per work: "none", "queued", "done", "failed" or "captured"
    ev,          \* per work: start_event_ and end_event_
    within,      \* per work: the graph it was captured into
    graph,       \* per graph: "none", "capturing", "alive", "destroyed" or "cleaned"
    made,        \* events created so far
    pool,        \* event_pool_
    gone,        \* events destroyed
    recorded,    \* per event: the last work that recorded it
    unhooked,    \* history: captured graphs whose clean-up callback was not registered
    late,        \* history: works created after finalize
    outlived     \* history: works that existed when finalize emptied the pool

commVars == <<initState, finalizing, watchdog, nccl>>
ownerVars == <<handle, window>>
workVars == <<op, current, issued, place, gpu, ev, within>>
eventVars == <<made, pool, gone, recorded>>
historyVars == <<unhooked, late, outlived>>
vars == <<commVars, ownerVars, workVars, holders, graph, eventVars, historyVars>>

Init ==
    /\ initState = "INITIALIZED"
    /\ finalizing = "no"
    /\ watchdog = TRUE
    /\ nccl = "live"
    /\ handle = TRUE
    /\ window = "none"
    /\ op = "idle"
    /\ current = NoWork
    /\ issued = 0
    /\ holders = [w \in Works |-> {}]
    /\ place = [w \in Works |-> WindowStream]
    /\ gpu = [w \in Works |-> "none"]
    /\ ev = [w \in Works |-> NoEvents]
    /\ within = [w \in Works |-> NoGraph]
    /\ graph = [g \in Graphs |-> "none"]
    /\ made = 0
    /\ pool = {}
    /\ gone = {}
    /\ recorded = [e \in Events |-> NoWork]
    /\ unhooked = {}
    /\ late = {}
    /\ outlived = {}

-----------------------------------------------------------------------------
(* References.                                                              *)

Held(w) == holders[w] # {}
Existing == {w \in Works : Held(w)}

\* The communicator exists as long as something has a shared_ptr to it.
CommExists == handle \/ window = "open" \/ Existing # {}

EventsOf(ws) == UNION {{ev[w][1], ev[w][2]} : w \in ws}

\* returnEvent for each of es: into the pool while there is room, else destroyed.
ReturnEvents(es) ==
    LET room == MaxEventPoolSize - Cardinality(pool)
        some == IF Cardinality(es) <= room THEN Cardinality(es) ELSE room
    IN \E kept \in {k \in SUBSET es : Cardinality(k) = some} :
           /\ pool' = pool \cup kept
           /\ gone' = gone \cup (es \ kept)

\* One kind of reference to each of ws is dropped; a work that loses its last one is
\* destroyed (~TorchWorkNCCLX).
Release(ws, kind) ==
    /\ holders' = [w \in Works |-> IF w \in ws THEN holders[w] \ {kind} ELSE holders[w]]
    /\ ReturnEvents(EventsOf({w \in Existing : holders'[w] = {}}))

-----------------------------------------------------------------------------
(* Operations: of the communicator, which checks that it is initialized, and *)
(* of a window, which does not.                                              *)

Capturing == {g \in Graphs : graph[g] = "capturing"}

\* What becomes of graph g when the program drops it: CUDA's callback comes later, from
\* another thread, if a work was captured and the callback registered.
Dropped(g) ==
    IF g \notin unhooked /\ \E w \in Works : within[w] = g THEN "destroyed" ELSE "cleaned"

\* A program that meets an exception in a capture ends it, and drops the graph unlaunched.
Unwound == [g \in Graphs |-> IF graph[g] = "capturing" THEN Dropped(g) ELSE graph[g]]

\* Fault: the event stays in the pool.
Got_Peek(p, m) == IF p # {} THEN {<<e, p, m>> : e \in p} ELSE {<<m + 1, p, m + 1>>}

\* getEvent, with pool p after m events were created: the event, the pool, the count.
Got(p, m) == IF p # {} THEN {<<e, p \ {e}, m>> : e \in p} ELSE {<<m + 1, p, m + 1>>}

\* createWork: the constructor takes two events.
CreateWork(s) ==
    LET w == issued + 1 IN
    /\ op = "idle" /\ finalizing = "no" /\ issued < MaxWorks
    /\ IF s = WindowStream THEN window = "open" ELSE handle /\ initState = "INITIALIZED"
    /\ op' = "created"
    /\ current' = w
    /\ issued' = w
    /\ holders' = [holders EXCEPT ![w] = {"op"}]
    /\ place' = [place EXCEPT ![w] = s]
    /\ \E x \in Got(pool, made) : \E y \in Got(x[2], x[3]) :
        /\ ev' = [ev EXCEPT ![w] = <<x[1], y[1]>>]
        /\ pool' = y[2]
        /\ made' = y[3]
    /\ late' = IF initState = "FINALIZED" THEN late \cup {w} ELSE late
    /\ UNCHANGED <<commVars, ownerVars, gpu, within, graph, gone, recorded, unhooked, outlived>>

\* recordStart, the NCCL call, recordEnd.
Issue ==
    /\ op = "created"
    /\ op' = "recorded"
    /\ recorded' = [e \in Events |-> IF e \in EventsOf({current}) THEN current ELSE recorded[e]]
    /\ gpu' = [gpu EXCEPT ![current] = IF Capturing # {} THEN "captured" ELSE "queued"]
    /\ UNCHANGED <<commVars, ownerVars, current, issued, place, ev, within, holders, graph,
                   made, pool, gone, historyVars>>

\* The NCCL call fails after recordStart: the operation throws and drops its work.
IssueFails ==
    /\ op = "created" /\ place[current] # WindowStream
    /\ op' = "idle"
    /\ current' = NoWork
    /\ recorded' = [recorded EXCEPT ![ev[current][1]] = current]
    /\ graph' = Unwound
    /\ Release({current}, "op")
    /\ UNCHANGED <<commVars, ownerVars, issued, place, gpu, ev, within, made, historyVars>>

\* Fault: a captured work is not kept.
KeptBy_NoGraph(w) == IF gpu[w] = "captured" THEN {} ELSE {"queue"}

\* What enqueueWork adds the work to.
KeptBy(w) == IF gpu[w] = "captured" THEN {"graph"} ELSE {"queue"}

\* enqueueWork, and the return of the work to the program.
Enqueue ==
    /\ op = "recorded"
    /\ op' = "idle"
    /\ current' = NoWork
    /\ holders' = [holders EXCEPT ![current] = {"program"} \cup KeptBy(current)]
    /\ within' = [within EXCEPT ![current] = IF gpu[current] = "captured"
                                             THEN CHOOSE g \in Capturing : TRUE ELSE NoGraph]
    /\ UNCHANGED <<commVars, ownerVars, issued, place, gpu, ev, graph, eventVars, historyVars>>

\* cudaStreamGetCaptureInfo fails: enqueueWork throws before it has kept the work.
EnqueueFails ==
    /\ op = "recorded" /\ gpu[current] = "captured"
    /\ op' = "idle"
    /\ current' = NoWork
    /\ graph' = Unwound
    /\ Release({current}, "op")
    /\ UNCHANGED <<commVars, ownerVars, issued, place, gpu, ev, within, made, recorded, historyVars>>

\* cudaUserObjectCreate or cudaGraphRetainUserObject fails for the first work of a graph:
\* enqueueWork throws with the work in the table, and no callback will take it out; the
\* program has no work, and its capture may go on.
EnqueueUnhooked ==
    /\ op = "recorded" /\ gpu[current] = "captured"
    /\ op' = "idle"
    /\ current' = NoWork
    /\ holders' = [holders EXCEPT ![current] = KeptBy(current)]
    /\ LET g == CHOOSE c \in Capturing : TRUE IN
        /\ \A w \in Works : within[w] # g
        /\ within' = [within EXCEPT ![current] = g]
        /\ unhooked' = unhooked \cup {g}
    /\ UNCHANGED <<commVars, ownerVars, issued, place, gpu, ev, graph, eventVars, late, outlived>>

\* The GPU: a stream's works end in order, or an event reports an error.
GpuFinish(w) ==
    /\ gpu[w] = "queued"
    /\ \/ /\ \A v \in 1 .. w - 1 : place[v] = place[w] => gpu[v] # "queued"
          /\ gpu' = [gpu EXCEPT ![w] = "done"]
       \/ gpu' = [gpu EXCEPT ![w] = "failed"]
    /\ UNCHANGED <<commVars, ownerVars, op, current, issued, place, ev, within, holders, graph,
                   eventVars, historyVars>>

-----------------------------------------------------------------------------
(* Letting go.                                                              *)

Queued(s) == {w \in Works : place[w] = s /\ "queue" \in holders[w]}
AllQueued == UNION {Queued(s) : s \in Streams}
Heads == {w \in AllQueued : \A v \in Queued(place[w]) : w <= v}

\* garbageCollectLocked pops a completed head, on the watchdog's thread or on the
\* program's at the start of an operation; finalize's own rounds are below.
GarbageCollect(w) ==
    /\ watchdog
    /\ w \in Heads /\ gpu[w] = "done"
    /\ Release({w}, "queue")
    /\ UNCHANGED <<commVars, ownerVars, workVars, graph, made, recorded, historyVars>>

\* The program drops its reference to a work.
DropWork(w) ==
    /\ "program" \in holders[w]
    /\ Release({w}, "program")
    /\ UNCHANGED <<commVars, ownerVars, workVars, graph, made, recorded, historyVars>>

\* Outside an operation the program may drop the communicator, once it is finalized.
DropComm ==
    /\ op = "idle" /\ finalizing = "no"
    /\ handle /\ initState = "FINALIZED"
    /\ handle' = FALSE
    /\ UNCHANGED <<commVars, window, workVars, holders, graph, eventVars, historyVars>>

\* window_allocate.
OpenWindow ==
    /\ op = "idle" /\ handle /\ initState = "INITIALIZED" /\ window = "none"
    /\ window' = "open"
    /\ UNCHANGED <<commVars, handle, workVars, holders, graph, eventVars, historyVars>>

\* ~TorchCommWindowNCCLX synchronizes its streams first.
FreeWindow ==
    /\ op = "idle" /\ window = "open"
    /\ \A w \in Works : place[w] = WindowStream => gpu[w] # "queued"
    /\ window' = "freed"
    /\ UNCHANGED <<commVars, handle, workVars, holders, graph, eventVars, historyVars>>

-----------------------------------------------------------------------------
(* Graphs.                                                                  *)

CaptureBegin(g) ==
    /\ op = "idle" /\ initState = "INITIALIZED"
    /\ graph[g] = "none" /\ Capturing = {}
    /\ graph' = [graph EXCEPT ![g] = "capturing"]
    /\ UNCHANGED <<commVars, ownerVars, workVars, holders, eventVars, historyVars>>

CaptureEnd(g) ==
    /\ op = "idle" /\ graph[g] = "capturing"
    /\ graph' = [graph EXCEPT ![g] = "alive"]
    /\ UNCHANGED <<commVars, ownerVars, workVars, holders, eventVars, historyVars>>

\* A launch records the events of the captured works again.
Replay(g) ==
    /\ graph[g] = "alive" /\ nccl = "live"
    /\ recorded' = [e \in Events |->
           IF \E w \in Works : within[w] = g /\ e \in EventsOf({w})
           THEN CHOOSE w \in Works : within[w] = g /\ e \in EventsOf({w}) ELSE recorded[e]]
    /\ UNCHANGED <<commVars, ownerVars, workVars, holders, graph, made, pool, gone, historyVars>>

\* The program destroys the graph.
DestroyGraph(g) ==
    /\ graph[g] = "alive"
    /\ graph' = [graph EXCEPT ![g] = Dropped(g)]
    /\ UNCHANGED <<commVars, ownerVars, workVars, holders, eventVars, historyVars>>

\* graphCleanupCallback, which reaches the communicator through a plain pointer.
GraphCleanupCallback(g) ==
    /\ graph[g] = "destroyed"
    /\ graph' = [graph EXCEPT ![g] = "cleaned"]
    /\ Release({w \in Works : within[w] = g}, "graph")
    /\ UNCHANGED <<commVars, ownerVars, workVars, made, recorded, historyVars>>

-----------------------------------------------------------------------------
(* finalize.                                                                *)

FinalizeBegin ==
    /\ op = "idle" /\ handle /\ initState = "INITIALIZED" /\ Capturing = {}
    /\ initState' = "FINALIZED"
    /\ finalizing' = "joining"
    /\ UNCHANGED <<watchdog, nccl, ownerVars, workVars, holders, graph, eventVars, historyVars>>

\* Where the rounds of finalize stop on stream s: at its first work that is not done.
Stops(s) == {w \in Queued(s) : gpu[w] # "done" /\ \A v \in Queued(s) : v < w => gpu[v] = "done"}

\* Fault: the queue is cleared when it was drained, and kept when a work has failed.
Cleared_IfDrained(status) == IF status = "drained" THEN AllQueued ELSE {}

\* What stream_work_queues_.clear() drops.
Cleared(status) == AllQueued

\* The watchdog is joined, and TorchWorkNCCLXQueue::finalize collects until a round
\* ends with a completed or a failed status; then it drops whatever is left.
FinalizeQueue ==
    /\ finalizing = "joining"
    /\ watchdog' = FALSE
    /\ LET failed == \E s \in Streams : \E w \in Stops(s) : gpu[w] = "failed"
           emptied == AllQueued = {} \/ \E s \in Streams : Queued(s) # {} /\ Stops(s) = {}
       IN  /\ failed \/ emptied
           /\ finalizing' = IF failed THEN "failed" ELSE "drained"
           /\ Release(Cleared(finalizing'), "queue")
    /\ UNCHANGED <<initState, nccl, ownerVars, workVars, graph, made, recorded, historyVars>>

\* The events finalize destroys.
Drained == pool

\* finalize throws; or it destroys the events of the pool, and then the NCCL communicator
\* unless a CUDA call of the clean-up between the two fails.
FinalizeSettle ==
    /\ finalizing \in {"drained", "failed"}
    /\ finalizing' = "no"
    /\ IF finalizing = "failed"
       THEN /\ nccl' = "aborted"
            /\ UNCHANGED <<pool, gone, outlived>>
       ELSE /\ nccl' \in {"destroyed", "live"}
            /\ pool' = pool \ Drained
            /\ gone' = gone \cup Drained
            /\ outlived' = Existing
    /\ UNCHANGED <<initState, watchdog, ownerVars, workVars, holders, graph, made, recorded,
                   unhooked, late>>

-----------------------------------------------------------------------------
Next ==
    \/ \E s \in Streams : CreateWork(s)
    \/ Issue \/ IssueFails \/ Enqueue \/ EnqueueFails \/ EnqueueUnhooked
    \/ \E w \in Works : GpuFinish(w) \/ GarbageCollect(w) \/ DropWork(w)
    \/ DropComm \/ OpenWindow \/ FreeWindow
    \/ \E g \in Graphs : CaptureBegin(g) \/ CaptureEnd(g) \/ Replay(g) \/ DestroyGraph(g)
                            \/ GraphCleanupCallback(g)
    \/ FinalizeBegin \/ FinalizeQueue \/ FinalizeSettle

Spec == Init /\ [][Next]_vars

-----------------------------------------------------------------------------
(* Properties.                                                              *)

\* The variables keep the types the code gives them; a work creates at most two events.
LifetimeTypeOK ==
    /\ initState \in {"INITIALIZED", "FINALIZED"}
    /\ finalizing \in {"no", "joining", "drained", "failed"}
    /\ nccl \in {"live", "aborted", "destroyed"}
    /\ watchdog \in BOOLEAN /\ handle \in BOOLEAN /\ window \in {"none", "open", "freed"}
    /\ op \in {"idle", "created", "recorded"}
    /\ current \in 0 .. MaxWorks /\ issued \in 0 .. MaxWorks
    /\ holders \in [Works -> SUBSET Holders] /\ place \in [Works -> Streams]
    /\ gpu \in [Works -> {"none", "queued", "done", "failed", "captured"}]
    /\ ev \in [Works -> Nat \X Nat]
    /\ within \in [Works -> Graphs \cup {NoGraph}]
    /\ graph \in [Graphs -> {"none", "capturing", "alive", "destroyed", "cleaned"}]
    /\ made \in Nat /\ made <= 2 * issued
    /\ pool \subseteq Events /\ gone \subseteq Events
    /\ recorded \in [Events -> 0 .. MaxWorks]
    /\ unhooked \subseteq Graphs /\ late \subseteq Works /\ outlived \subseteq Works

\* An event is at one place: destroyed, in the pool, or with one work, at one of its
\* two ends.  Works come and go on three threads, through a pool with a limit.
EventsConserved ==
    /\ pool \cap gone = {}
    /\ \A w \in Existing :
        /\ ev[w][1] # ev[w][2]
        /\ EventsOf({w}) \cap (pool \cup gone) = {}
        /\ \A v \in Existing \ {w} : EventsOf({w}) \cap EventsOf({v}) = {}
    /\ 1 .. made = pool \cup gone \cup EventsOf(Existing)

\* The events checkStatus queries, and those wait() waits for, were recorded last by
\* the work itself: events are reused, and a graph records those of its works again
\* at every launch.
StatusIsOwn ==
    \A w \in Existing : w # current => \A e \in EventsOf({w}) : recorded[e] = w

\* When CUDA calls back about a graph, the communicator its data points to exists.
CleanupHasComm ==
    \A g \in Graphs :
        graph[g] = "destroyed" \/ (graph[g] = "alive" /\ \E w \in Works : within[w] = g)
            => CommExists

\* The program has let go of everything, and CUDA's callbacks have run.
LetGo ==
    /\ ~handle /\ window # "open"
    /\ \A w \in Works : "program" \notin holders[w]
    /\ \A g \in Graphs : graph[g] \in {"none", "cleaned"}

\* "finalize MUST return without holding references to any work object, otherwise it
\* may leak": the cycle of communicator and works is broken however finalize ends.  Two
\* kinds of works do leak: those a window enqueued after finalize, which nothing
\* collects, and those of a graph whose clean-up callback could not be registered.
NoLeak == LetGo => \A w \in Existing : w \in late \/ within[w] \in unhooked

\* Once finalize has destroyed the NCCL communicator, the events that are not destroyed
\* are those of works that outlived it or came after it: they are with such a work, or
\* went back to a pool that nothing empties any more.
EventsFreed == nccl = "destroyed" => (1 .. made) \ gone \subseteq EventsOf(outlived \cup late)
=============================================================================
