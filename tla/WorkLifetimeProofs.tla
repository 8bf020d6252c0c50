-------------------------- MODULE WorkLifetimeProofs --------------------------
(***************************************************************************)
(* Proofs about the lifetime of works, events and the communicator, for    *)
(* any number of streams, works, graphs and pooled events: events are      *)
(* conserved and carry the record of their own work, a graph's callback    *)
(* finds the communicator, and whatever way finalize ends, nothing leaks.  *)
(***************************************************************************)
EXTENDS WorkLifetime, FiniteSetTheorems, TLAPS

Types ==
    /\ initState \in {"INITIALIZED", "FINALIZED"}
    /\ finalizing \in {"no", "joining", "drained", "failed"}
    /\ nccl \in {"live", "aborted", "destroyed"}
    /\ watchdog \in BOOLEAN /\ handle \in BOOLEAN /\ window \in {"none", "open", "freed"}
    /\ op \in {"idle", "created", "recorded"}
    /\ current \in 0 .. MaxWorks /\ issued \in 0 .. MaxWorks
    /\ holders \in [Works -> SUBSET Holders] /\ place \in [Works -> Streams]
    /\ gpu \in [Works -> {"none", "queued", "done", "failed", "captured"}]
    /\ ev \in [Works -> Nat \X Nat]
    /\ within \in [Works -> Graphs \cup {NoGraph}]
    /\ graph \in [Graphs -> {"none", "capturing", "alive", "destroyed", "cleaned"}]
    /\ made \in Nat /\ made <= 2 * issued
    /\ recorded \in [Events -> 0 .. MaxWorks]
    /\ unhooked \subseteq Graphs /\ late \subseteq Works /\ outlived \subseteq Works

\* The operation in progress is the only holder of its work, and holds no other.
OpInv ==
    /\ op = "idle" <=> current = NoWork
    /\ op # "idle" => /\ current \in 1 .. issued
                      /\ holders[current] = {"op"}
                      /\ within[current] = NoGraph
    /\ \A w \in Works : "op" \in holders[w] => op # "idle" /\ w = current
    /\ \A w \in Works : w > issued =>
        /\ holders[w] = {} /\ within[w] = NoGraph
        /\ w \notin late /\ w \notin outlived
    /\ op = "recorded" /\ gpu[current] = "captured" => Capturing # {}

\* A graph holds the works captured into it until its callback has run: for ever if the
\* callback was not registered.
GraphInv ==
    /\ \A w \in Works :
        "graph" \in holders[w] <=>
            /\ within[w] \in Graphs
            /\ \/ graph[within[w]] \in {"capturing", "alive", "destroyed"}
               \/ within[w] \in unhooked
    /\ \A w \in Works : within[w] \in Graphs => graph[within[w]] # "none"
    /\ \A g \in Graphs :
        graph[g] = "destroyed" => g \notin unhooked /\ \E w \in Works : within[w] = g

\* The program holds the communicator until finalize is over; but for late works the
\* queue holds nothing after that.
CommInv ==
    /\ initState = "INITIALIZED" => handle /\ finalizing = "no" /\ late = {} /\ nccl = "live"
    /\ finalizing # "no" => handle /\ initState = "FINALIZED" /\ op = "idle" /\ nccl = "live"
    /\ op # "idle" /\ current \notin late => initState = "INITIALIZED"
    /\ \A w \in Works :
        "queue" \in holders[w] /\ w \notin late =>
            initState = "INITIALIZED" \/ finalizing = "joining"

\* When the NCCL communicator is destroyed, the works left are late or outlived it, and
\* the pool has events of such works.
FreedInv ==
    nccl = "destroyed" => /\ Existing \subseteq outlived \cup late
                          /\ pool \subseteq EventsOf(outlived \cup late)

\* EventsConserved, event by event.
EventInv ==
    /\ pool \subseteq 1 .. made /\ gone \subseteq 1 .. made
    /\ \A e \in pool : e \notin gone
    /\ \A w \in Works : Held(w) =>
        /\ ev[w][1] \in 1 .. made /\ ev[w][2] \in 1 .. made /\ ev[w][1] # ev[w][2]
        /\ ev[w][1] \notin pool /\ ev[w][1] \notin gone
        /\ ev[w][2] \notin pool /\ ev[w][2] \notin gone
    /\ \A v, w \in Works : Held(v) /\ Held(w) /\ v # w =>
        /\ ev[v][1] # ev[w][1] /\ ev[v][1] # ev[w][2]
        /\ ev[v][2] # ev[w][1] /\ ev[v][2] # ev[w][2]
    /\ \A e \in 1 .. made :
        e \in pool \/ e \in gone \/ \E w \in Works : Held(w) /\ (e = ev[w][1] \/ e = ev[w][2])

\* StatusIsOwn, and the operation that has recorded its events.
RecordInv ==
    \A w \in Works : Held(w) /\ (w # current \/ op = "recorded") =>
        recorded[ev[w][1]] = w /\ recorded[ev[w][2]] = w

LifetimeInv == Types /\ OpInv /\ GraphInv /\ CommInv /\ FreedInv /\ EventInv /\ RecordInv

LEMMA InitLifetimeInv == Init => LifetimeInv
<1>. SUFFICES ASSUME Init PROVE LifetimeInv
  OBVIOUS
<1>1. Types
  BY LifetimeAssumption DEF Init, Types, NoEvents, NoWork
<1>2. OpInv /\ GraphInv
  BY LifetimeAssumption DEF Init, OpInv, GraphInv, NoWork
<1>3. CommInv /\ FreedInv
  BY DEF Init, CommInv, FreedInv
<1>4. EventInv /\ RecordInv
  BY DEF Init, EventInv, RecordInv, Held
<1>. QED
  BY <1>1, <1>2, <1>3, <1>4 DEF LifetimeInv

-----------------------------------------------------------------------------
(* The helpers.                                                             *)

\* getEvent takes an event out of the pool, or makes one.
LEMMA GotFacts ==
    ASSUME NEW p, NEW m \in Nat, NEW x \in Got(p, m)
    PROVE  \/ x[1] \in p /\ x[2] = p \ {x[1]} /\ x[3] = m
           \/ p = {} /\ x[1] = m + 1 /\ x[2] = {} /\ x[3] = m + 1
BY DEF Got

\* Two calls of it: two different events, neither with a work before.
LEMMA CreatedEvents ==
    ASSUME Types, EventInv, NEW x \in Got(pool, made), NEW y \in Got(x[2], x[3])
    PROVE  /\ x[1] # y[1] /\ y[3] \in Nat /\ y[3] >= made /\ y[3] <= made + 2
           /\ x[1] \in 1 .. y[3] /\ y[1] \in 1 .. y[3]
           /\ y[2] = pool \ {x[1], y[1]}
           /\ \A e \in 1 .. made : e = x[1] \/ e = y[1] => e \in pool
           /\ \A e \in 1 .. y[3] : e \in 1 .. made \/ e = x[1] \/ e = y[1]
<1>1. pool \subseteq 1 .. made /\ made \in Nat
  BY DEF Types, EventInv
<1>2. \/ x[1] \in pool /\ x[2] = pool \ {x[1]} /\ x[3] = made
      \/ pool = {} /\ x[1] = made + 1 /\ x[2] = {} /\ x[3] = made + 1
  BY <1>1, GotFacts
<1>3. x[3] \in Nat
  BY <1>1, <1>2
<1>4. \/ y[1] \in x[2] /\ y[2] = x[2] \ {y[1]} /\ y[3] = x[3]
      \/ x[2] = {} /\ y[1] = x[3] + 1 /\ y[2] = {} /\ y[3] = x[3] + 1
  BY <1>3, GotFacts
<1>5. CASE x[1] \in pool /\ x[2] = pool \ {x[1]} /\ x[3] = made
  <2>1. CASE y[1] \in x[2] /\ y[2] = x[2] \ {y[1]} /\ y[3] = x[3]
    <3>1. y[2] = pool \ {x[1], y[1]} /\ x[1] # y[1]
      BY <1>5, <2>1
    <3>2. x[1] \in 1 .. y[3] /\ y[1] \in 1 .. y[3] /\ y[1] \in pool /\ y[3] = made
      BY <1>1, <1>5, <2>1
    <3>. QED
      BY <1>1, <1>5, <3>1, <3>2
  <2>2. CASE x[2] = {} /\ y[1] = x[3] + 1 /\ y[2] = {} /\ y[3] = x[3] + 1
    <3>1. pool = {x[1]} /\ y[2] = pool \ {x[1], y[1]}
      BY <1>5, <2>2
    <3>2. x[1] \in 1 .. made /\ y[1] = made + 1 /\ y[3] = made + 1
      BY <1>1, <1>5, <2>2
    <3>. QED
      BY <1>1, <3>1, <3>2
  <2>. QED
    BY <1>4, <2>1, <2>2
<1>6. CASE pool = {} /\ x[1] = made + 1 /\ x[2] = {} /\ x[3] = made + 1
  BY <1>1, <1>4, <1>6
<1>. QED
  BY <1>2, <1>5, <1>6

LEMMA EventsOfOne ==
    ASSUME NEW w, NEW e
    PROVE  e \in EventsOf({w}) <=> e = ev[w][1] \/ e = ev[w][2]
BY DEF EventsOf

\* The events that come back in a step: of the works that lose their last holder.
Returned == EventsOf({w \in Existing : holders'[w] = {}})

LEMMA ReturnedEvents ==
    \A e : e \in Returned <=>
        \E w \in Works : Held(w) /\ holders'[w] = {} /\ (e = ev[w][1] \/ e = ev[w][2])
BY DEF Returned, EventsOf, Existing

\* What a release does to the holders.
LEMMA Released ==
    ASSUME Types, NEW ws, NEW kind, Release(ws, kind)
    PROVE  /\ holders' \in [Works -> SUBSET Holders]
           /\ \A w \in Works : holders'[w] = IF w \in ws THEN holders[w] \ {kind} ELSE holders[w]
           /\ \E kept \in SUBSET Returned :
                pool' = pool \cup kept /\ gone' = gone \cup (Returned \ kept)
<1>1. holders' = [w \in Works |-> IF w \in ws THEN holders[w] \ {kind} ELSE holders[w]]
  BY DEF Release
<1>2. holders' \in [Works -> SUBSET Holders]
  BY <1>1 DEF Types
<1>3. \E kept \in SUBSET Returned :
        pool' = pool \cup kept /\ gone' = gone \cup (Returned \ kept)
  BY Zenon DEF Release, ReturnEvents, Returned
<1>. QED
  BY <1>1, <1>2, <1>3

\* A release conserves events: those of a work that ends go to the pool or away.
LEMMA ReleaseEvents ==
    ASSUME Types, EventInv, NEW ws, NEW kind, Release(ws, kind), ev' = ev, made' = made
    PROVE  EventInv'
<1>1. PICK kept \in SUBSET Returned :
        pool' = pool \cup kept /\ gone' = gone \cup (Returned \ kept)
  BY Released
<1>2. \A w \in Works : Held(w)' => Held(w)
  BY Released DEF Held
<1>3. \A w \in Works : Held(w)' <=> holders'[w] # {}
  BY DEF Held
<1>4. Returned \subseteq 1 .. made /\ \A e \in Returned : e \notin pool /\ e \notin gone
  BY ReturnedEvents DEF EventInv
<1>5. pool' \subseteq 1 .. made' /\ gone' \subseteq 1 .. made' /\ \A e \in pool' : e \notin gone'
  BY <1>1, <1>4 DEF EventInv
<1>6. ASSUME NEW w \in Works, Held(w)'
      PROVE  /\ ev'[w][1] \in 1 .. made' /\ ev'[w][2] \in 1 .. made' /\ ev'[w][1] # ev'[w][2]
             /\ ev'[w][1] \notin pool' /\ ev'[w][1] \notin gone'
             /\ ev'[w][2] \notin pool' /\ ev'[w][2] \notin gone'
  <2>1. Held(w) /\ holders'[w] # {}
    BY <1>2, <1>3, <1>6
  <2>2. ASSUME NEW e \in Returned PROVE e # ev[w][1] /\ e # ev[w][2]
    <3>1. PICK v \in Works : Held(v) /\ holders'[v] = {} /\ (e = ev[v][1] \/ e = ev[v][2])
      BY ReturnedEvents
    <3>2. v # w
      BY <2>1, <3>1
    <3>. QED
      BY <2>1, <3>1, <3>2 DEF EventInv
  <2>. QED
    BY <1>1, <2>1, <2>2 DEF EventInv
<1>7. \A v, w \in Works : Held(v)' /\ Held(w)' /\ v # w =>
        /\ ev'[v][1] # ev'[w][1] /\ ev'[v][1] # ev'[w][2]
        /\ ev'[v][2] # ev'[w][1] /\ ev'[v][2] # ev'[w][2]
  BY <1>2 DEF EventInv
<1>8. ASSUME NEW e \in 1 .. made'
      PROVE  e \in pool' \/ e \in gone'
                \/ \E w \in Works : Held(w)' /\ (e = ev'[w][1] \/ e = ev'[w][2])
  BY <1>1, <1>3, ReturnedEvents DEF EventInv
<1>. QED
  BY <1>5, <1>6, <1>7, <1>8 DEF EventInv

\* A release forgets nothing about the events of the works that stay.
LEMMA ReleaseRecords ==
    ASSUME Types, RecordInv, NEW ws, NEW kind, Release(ws, kind),
           ev' = ev, recorded' = recorded, current' = current, op' = op
    PROVE  RecordInv'
<1>1. \A w \in Works : Held(w)' => Held(w)
  BY Released DEF Held
<1>. QED
  BY <1>1 DEF RecordInv

\* The actions that release a reference, as one.
Releases ==
    \/ (IssueFails \/ EnqueueFails) /\ Release({current}, "op")
    \/ \E w \in Works : GarbageCollect(w) /\ Release({w}, "queue")
    \/ \E w \in Works : DropWork(w) /\ Release({w}, "program")
    \/ \E g \in Graphs : GraphCleanupCallback(g) /\ Release({w \in Works : within[w] = g}, "graph")
    \/ FinalizeQueue /\ Release(AllQueued, "queue")

LEMMA ReleasingActions ==
    ASSUME IssueFails \/ EnqueueFails \/ (\E w \in Works : GarbageCollect(w) \/ DropWork(w))
               \/ (\E g \in Graphs : GraphCleanupCallback(g)) \/ FinalizeQueue
    PROVE  Releases
BY Zenon DEF Releases, IssueFails, EnqueueFails, GarbageCollect, DropWork, GraphCleanupCallback, FinalizeQueue,
    Cleared

\* The steps, by what they do to the works.
LEMMA Steps ==
    ASSUME [Next]_vars
    PROVE  \/ \E s \in Streams : CreateWork(s)
           \/ Issue \/ Enqueue \/ EnqueueUnhooked \/ Releases
           \/ \E w \in Works : GpuFinish(w)
           \/ DropComm \/ OpenWindow \/ FreeWindow
           \/ \E g \in Graphs : CaptureBegin(g) \/ CaptureEnd(g) \/ Replay(g) \/ DestroyGraph(g)
           \/ FinalizeBegin \/ FinalizeSettle \/ UNCHANGED vars
BY ReleasingActions DEF Next

\* What a step that releases a reference leaves alone.
LEMMA ReleasesFrame ==
    ASSUME Releases
    PROVE  /\ ev' = ev /\ made' = made /\ handle' = handle /\ window' = window
           /\ issued' = issued /\ place' = place /\ gpu' = gpu /\ within' = within
           /\ initState' = initState /\ nccl' = nccl
           /\ unhooked' = unhooked /\ late' = late /\ outlived' = outlived
           /\ \/ op' = op /\ current' = current
              \/ op' = "idle" /\ current' = NoWork
<1>1. CASE IssueFails \/ EnqueueFails
  BY <1>1, Zenon DEF IssueFails, EnqueueFails, commVars, ownerVars, historyVars
<1>2. ASSUME NEW w \in Works, GarbageCollect(w) \/ DropWork(w)
      PROVE  /\ UNCHANGED <<commVars, ownerVars, workVars, historyVars, made>>
  BY <1>2, Zenon DEF GarbageCollect, DropWork
<1>3. ASSUME NEW g \in Graphs, GraphCleanupCallback(g)
      PROVE  /\ UNCHANGED <<commVars, ownerVars, workVars, historyVars, made>>
  BY <1>3, Zenon DEF GraphCleanupCallback
<1>4. CASE FinalizeQueue
  BY <1>4, Zenon DEF FinalizeQueue, ownerVars, workVars, historyVars
<1>5. CASE UNCHANGED <<commVars, ownerVars, workVars, historyVars, made>>
  BY <1>5, Zenon DEF commVars, ownerVars, workVars, historyVars
<1>. QED
  BY <1>1, <1>2, <1>3, <1>4, <1>5, Zenon DEF Releases

-----------------------------------------------------------------------------
(* Each part of the invariant is kept.                                      *)

LEMMA TypesStep ==
    ASSUME LifetimeInv, [Next]_vars
    PROVE  Types'
<1>. USE DEF LifetimeInv
<1>1. ASSUME NEW s \in Streams, CreateWork(s) PROVE Types'
  <2>1. PICK x \in Got(pool, made) : \E y \in Got(x[2], x[3]) :
          /\ ev' = [ev EXCEPT ![issued + 1] = <<x[1], y[1]>>] /\ made' = y[3]
    BY <1>1 DEF CreateWork
  <2>2. PICK y \in Got(x[2], x[3]) :
          /\ ev' = [ev EXCEPT ![issued + 1] = <<x[1], y[1]>>] /\ made' = y[3]
    BY <2>1
  <2>3. /\ y[3] \in Nat /\ y[3] <= made + 2
        /\ x[1] \in 1 .. y[3] /\ y[1] \in 1 .. y[3]
    BY CreatedEvents
  <2>4. issued + 1 \in Works /\ issued' = issued + 1 /\ current' = issued + 1
    BY <1>1, LifetimeAssumption DEF CreateWork, Works, Types
  <2>5. ev' \in [Works -> Nat \X Nat] /\ made' \in Nat /\ made' <= 2 * issued'
    BY <2>2, <2>3, <2>4 DEF Types
  <2>6. holders' \in [Works -> SUBSET Holders] /\ place' \in [Works -> Streams]
    BY <1>1, <2>4 DEF CreateWork, Types, Holders
  <2>7. late' \subseteq Works
    BY <1>1, <2>4 DEF CreateWork, Types
  <2>8. /\ op' = "created"
        /\ UNCHANGED <<initState, finalizing, watchdog, nccl, handle, window, gpu, within, graph,
                       recorded, unhooked, outlived>>
    BY <1>1, Zenon DEF CreateWork, commVars, ownerVars
  <2>9. issued' \in 0 .. MaxWorks /\ current' \in 0 .. MaxWorks
    BY <2>4, LifetimeAssumption DEF Works
  <2>. QED
    BY <2>5, <2>6, <2>7, <2>8, <2>9 DEF Types
<1>2. CASE Issue
  <2>1. op # "idle" /\ current \in 0 .. MaxWorks
    BY <1>2 DEF Issue, Types
  <2>2. gpu' \in [Works -> {"none", "queued", "done", "failed", "captured"}]
    BY <1>2 DEF Issue, Types
  <2>3. recorded' \in [Events -> 0 .. MaxWorks]
    BY <1>2, <2>1 DEF Issue, Types
  <2>. QED
    BY <1>2, <2>2, <2>3 DEF Issue, Types, commVars, ownerVars, historyVars
<1>3. CASE Enqueue
  <2>1. holders' \in [Works -> SUBSET Holders]
    BY <1>3 DEF Enqueue, Types, Holders, KeptBy
  <2>2. within' \in [Works -> Graphs \cup {NoGraph}]
    <3>1. op = "recorded" /\ (gpu[current] = "captured" => Capturing # {})
      BY <1>3 DEF Enqueue, OpInv
    <3>. DEFINE g == IF gpu[current] = "captured" THEN CHOOSE c \in Capturing : TRUE ELSE NoGraph
    <3>2. g \in Graphs \cup {NoGraph}
      BY <3>1 DEF Capturing
    <3>3. within' = [within EXCEPT ![current] = g]
      BY <1>3 DEF Enqueue
    <3>. QED
      BY <3>2, <3>3 DEF Types
  <2>. QED
    BY <1>3, <2>1, <2>2, LifetimeAssumption
       DEF Enqueue, Types, commVars, ownerVars, eventVars, historyVars, NoWork
<1>11. CASE EnqueueUnhooked
  <2>1. holders' \in [Works -> SUBSET Holders]
    BY <1>11 DEF EnqueueUnhooked, Types, Holders, KeptBy
  <2>2. PICK g : /\ g = CHOOSE c \in Capturing : TRUE
                 /\ within' = [within EXCEPT ![current] = g] /\ unhooked' = unhooked \cup {g}
    BY <1>11, Zenon DEF EnqueueUnhooked
  <2>3. g \in Graphs
    <3>1. Capturing # {}
      BY <1>11 DEF EnqueueUnhooked, OpInv
    <3>. QED
      BY <2>2, <3>1 DEF Capturing
  <2>4. within' \in [Works -> Graphs \cup {NoGraph}] /\ unhooked' \subseteq Graphs
    BY <2>2, <2>3 DEF Types
  <2>5. /\ op' = "idle" /\ current' = NoWork
        /\ UNCHANGED <<commVars, ownerVars, issued, place, gpu, ev, graph, eventVars, late,
                       outlived>>
    BY <1>11, Zenon DEF EnqueueUnhooked
  <2>. QED
    BY <2>1, <2>4, <2>5, LifetimeAssumption DEF Types, commVars, ownerVars, eventVars, NoWork
<1>4. CASE Releases
  <2>1. holders' \in [Works -> SUBSET Holders]
    BY <1>4, Released, Zenon DEF Releases
  <2>2. op' \in {"idle", "created", "recorded"} /\ current' \in 0 .. MaxWorks
    BY <1>4, ReleasesFrame, LifetimeAssumption DEF Types, NoWork
  <2>3. /\ finalizing' \in {"no", "joining", "drained", "failed"} /\ watchdog' \in BOOLEAN
        /\ graph' \in [Graphs -> {"none", "capturing", "alive", "destroyed", "cleaned"}]
    BY <1>4
       DEF Releases, IssueFails, EnqueueFails, Unwound, Dropped, GarbageCollect, DropWork,
           GraphCleanupCallback, FinalizeQueue, Types, commVars
  <2>4. recorded' \in [Events -> 0 .. MaxWorks]
    BY <1>4
       DEF Releases, IssueFails, EnqueueFails, GarbageCollect, DropWork, GraphCleanupCallback,
           FinalizeQueue, Types
  <2>. QED
    BY <1>4, <2>1, <2>2, <2>3, <2>4, ReleasesFrame DEF Types
<1>5. ASSUME NEW w \in Works, GpuFinish(w) PROVE Types'
  BY <1>5 DEF GpuFinish, Types, commVars, ownerVars, eventVars, historyVars
<1>6. CASE DropComm \/ OpenWindow \/ FreeWindow \/ FinalizeBegin
  BY <1>6 DEF DropComm, OpenWindow, FreeWindow, FinalizeBegin, Types, commVars, ownerVars,
      workVars, eventVars, historyVars
<1>7. ASSUME NEW g \in Graphs, CaptureBegin(g) \/ CaptureEnd(g) \/ DestroyGraph(g) PROVE Types'
  BY <1>7 DEF CaptureBegin, CaptureEnd, DestroyGraph, Dropped, Types, commVars, ownerVars, workVars,
      eventVars, historyVars
<1>8. ASSUME NEW g \in Graphs, Replay(g) PROVE Types'
  <2>1. recorded' \in [Events -> 0 .. MaxWorks]
    <3>1. ASSUME NEW e \in Events
          PROVE  (IF \E w \in Works : within[w] = g /\ e \in EventsOf({w})
                  THEN CHOOSE w \in Works : within[w] = g /\ e \in EventsOf({w})
                  ELSE recorded[e]) \in 0 .. MaxWorks
      <4>1. CASE \E w \in Works : within[w] = g /\ e \in EventsOf({w})
        <5>1. (CHOOSE w \in Works : within[w] = g /\ e \in EventsOf({w})) \in Works
          BY <4>1
        <5>2. Works \subseteq 0 .. MaxWorks
          BY LifetimeAssumption DEF Works
        <5>. QED
          BY <4>1, <5>1, <5>2, Zenon
      <4>2. CASE ~ \E w \in Works : within[w] = g /\ e \in EventsOf({w})
        BY <4>2 DEF Types
      <4>. QED
        BY <4>1, <4>2
    <3>. QED
      BY <1>8, <3>1 DEF Replay
  <2>. QED
    BY <1>8, <2>1 DEF Replay, Types, commVars, ownerVars, workVars, historyVars
<1>9. CASE FinalizeSettle
  <2>1. outlived' \subseteq Works
    BY <1>9 DEF FinalizeSettle, Types, Existing
  <2>. QED
    BY <1>9, <2>1 DEF FinalizeSettle, Types, ownerVars, workVars, historyVars
<1>10. CASE UNCHANGED vars
  BY <1>10 DEF Types, vars, commVars, ownerVars, workVars, eventVars, historyVars
<1>. QED
  BY <1>1, <1>2, <1>3, <1>4, <1>5, <1>6, <1>7, <1>8, <1>9, <1>10, <1>11, Steps

LEMMA OpInvStep ==
    ASSUME LifetimeInv, [Next]_vars
    PROVE  OpInv'
<1>. USE DEF LifetimeInv
<1>1. ASSUME NEW s \in Streams, CreateWork(s) PROVE OpInv'
  <2>1. /\ op = "idle" /\ op' = "created"
        /\ issued + 1 \in Works /\ issued' = issued + 1 /\ current' = issued + 1
        /\ holders' = [holders EXCEPT ![issued + 1] = {"op"}]
        /\ late' \subseteq late \cup {issued + 1}
        /\ UNCHANGED <<within, gpu, graph, outlived>>
    BY <1>1, LifetimeAssumption DEF CreateWork, Works, Types
  <2>2. \A w \in Works : "op" \notin holders[w]
    BY <2>1 DEF OpInv
  <2>3. within[issued + 1] = NoGraph
    BY <2>1 DEF OpInv, Types
  <2>4. issued \in Nat /\ issued + 1 # NoWork
    BY LifetimeAssumption DEF Types, NoWork
  <2>5. \A w \in Works : "op" \in holders'[w] => w = current'
    BY <2>1, <2>2 DEF Types
  <2>6. \A w \in Works : w > issued' =>
            holders'[w] = {} /\ within'[w] = NoGraph /\ w \notin late' /\ w \notin outlived'
    BY <2>1, <2>4 DEF OpInv, Types, Works
  <2>7. current' \in 1 .. issued' /\ holders'[current'] = {"op"} /\ within'[current'] = NoGraph
    BY <2>1, <2>3, <2>4 DEF Types
  <2>. QED
    BY <2>1, <2>4, <2>5, <2>6, <2>7 DEF OpInv
<1>2. CASE Issue
  <2>1. op = "created" /\ op' = "recorded" /\ UNCHANGED <<current, issued, holders, within, graph, late, outlived>>
    BY <1>2, Zenon DEF Issue, historyVars
  <2>2. current \in Works
    BY <2>1, LifetimeAssumption DEF OpInv, Types, Works
  <2>3. gpu'[current] = "captured" => Capturing # {}
    BY <1>2, <2>2 DEF Issue, Types
  <2>4. Capturing' = Capturing
    BY <2>1 DEF Capturing
  <2>. QED
    BY <2>1, <2>3, <2>4 DEF OpInv
<1>3. CASE Enqueue \/ EnqueueUnhooked
  <2>1. /\ op = "recorded" /\ op' = "idle" /\ current' = NoWork /\ issued' = issued
        /\ \E more \in SUBSET {"program"} :
              holders' = [holders EXCEPT ![current] = more \cup KeptBy(current)]
        /\ \E g : within' = [within EXCEPT ![current] = g]
        /\ UNCHANGED <<late, outlived>>
    <3>1. {} \cup KeptBy(current) = KeptBy(current)
      OBVIOUS
    <3>2. CASE Enqueue
      BY <3>2, Zenon DEF Enqueue, historyVars
    <3>3. CASE EnqueueUnhooked
      <4>1. holders' = [holders EXCEPT ![current] = {} \cup KeptBy(current)]
        BY <3>1, <3>3 DEF EnqueueUnhooked
      <4>2. {} \in SUBSET {"program"}
        OBVIOUS
      <4>. QED
        BY <3>3, <4>1, <4>2, Zenon DEF EnqueueUnhooked
    <3>. QED
      BY <1>3, <3>2, <3>3
  <2>2. current \in 1 .. issued /\ current \in Works
    BY <2>1, LifetimeAssumption DEF OpInv, Types, Works
  <2>3. \A w \in Works : "op" \notin holders'[w]
    BY <2>1 DEF OpInv, Types, KeptBy
  <2>4. \A w \in Works : w > issued => w # current
    BY <2>2 DEF Types
  <2>5. \A w \in Works : w > issued =>
            holders'[w] = {} /\ within'[w] = NoGraph /\ w \notin late' /\ w \notin outlived'
    BY <2>1, <2>4 DEF OpInv, Types
  <2>. QED
    BY <2>1, <2>3, <2>5 DEF OpInv
<1>4. CASE (IssueFails \/ EnqueueFails) /\ Release({current}, "op")
  <2>1. /\ op # "idle" /\ op' = "idle" /\ current' = NoWork
        /\ UNCHANGED <<issued, within, late, outlived>>
    BY <1>4 DEF IssueFails, EnqueueFails, historyVars
  <2>2. current \in 1 .. issued /\ current \in Works
    BY <2>1, LifetimeAssumption DEF OpInv, Types, Works
  <2>3. \A w \in Works : holders'[w] = IF w \in {current} THEN holders[w] \ {"op"} ELSE holders[w]
    BY <1>4, Released
  <2>4. \A w \in Works : "op" \notin holders'[w]
    BY <2>1, <2>3 DEF OpInv
  <2>5. \A w \in Works : w > issued =>
            holders'[w] = {} /\ within'[w] = NoGraph /\ w \notin late' /\ w \notin outlived'
    BY <2>1, <2>3 DEF OpInv
  <2>. QED
    BY <2>1, <2>4, <2>5 DEF OpInv
<1>5. ASSUME NEW ws, NEW kind \in {"queue", "program", "graph"}, Release(ws, kind),
             UNCHANGED <<op, current, issued, within, gpu, late, outlived>>,
             Capturing' = Capturing
      PROVE  OpInv'
  <2>1. \A w \in Works : holders'[w] = IF w \in ws THEN holders[w] \ {kind} ELSE holders[w]
    BY <1>5, Released
  <2>2. ASSUME op # "idle" PROVE current \in Works /\ holders'[current] = {"op"}
    <3>1. current \in Works /\ holders[current] = {"op"}
      BY <2>2, LifetimeAssumption DEF OpInv, Types, Works
    <3>2. {"op"} \ {kind} = {"op"}
      OBVIOUS
    <3>. QED
      BY <2>1, <3>1, <3>2
  <2>. QED
    BY <1>5, <2>1, <2>2 DEF OpInv
<1>6. CASE Releases
  <2>1. ASSUME NEW w \in Works, GarbageCollect(w) \/ DropWork(w)
        PROVE  UNCHANGED <<op, current, issued, within, gpu, late, outlived>> /\ Capturing' = Capturing
    BY <2>1 DEF GarbageCollect, DropWork, workVars, historyVars, Capturing
  <2>2. ASSUME NEW g \in Graphs, GraphCleanupCallback(g)
        PROVE  UNCHANGED <<op, current, issued, within, gpu, late, outlived>> /\ Capturing' = Capturing
    BY <2>2 DEF GraphCleanupCallback, workVars, historyVars, Capturing, Types
  <2>3. ASSUME FinalizeQueue
        PROVE  UNCHANGED <<op, current, issued, within, gpu, late, outlived>> /\ Capturing' = Capturing
    <3>1. UNCHANGED <<workVars, graph, historyVars>>
      BY <2>3, Zenon DEF FinalizeQueue
    <3>. QED
      BY <3>1 DEF workVars, historyVars, Capturing
  <2>. QED
    BY <1>4, <1>5, <1>6, <2>1, <2>2, <2>3 DEF Releases
<1>7. ASSUME NEW w \in Works, GpuFinish(w) PROVE OpInv'
  <2>1. UNCHANGED <<op, current, issued, within, holders, graph, late, outlived>>
    BY <1>7, Zenon DEF GpuFinish, historyVars
  <2>2. op # "idle" => current \in Works
    BY LifetimeAssumption DEF OpInv, Types, Works
  <2>3. \A v \in Works : gpu'[v] = "captured" => gpu[v] = "captured"
    BY <1>7 DEF GpuFinish, Types
  <2>4. Capturing' = Capturing
    BY <2>1 DEF Capturing
  <2>. QED
    BY <2>1, <2>2, <2>3, <2>4 DEF OpInv
<1>8. CASE DropComm \/ OpenWindow \/ FreeWindow \/ FinalizeBegin \/ FinalizeSettle \/ UNCHANGED vars
  <2>1. UNCHANGED <<workVars, holders, graph>>
    BY <1>8, Zenon DEF DropComm, OpenWindow, FreeWindow, FinalizeBegin, FinalizeSettle, vars
  <2>2. Capturing' = Capturing /\ UNCHANGED <<op, current, issued, within, gpu, holders>>
    BY <2>1 DEF Capturing, workVars
  <2>3. /\ late' = late
        /\ outlived' = outlived \/ outlived' = Existing
    BY <1>8 DEF DropComm, OpenWindow, FreeWindow, FinalizeBegin, FinalizeSettle, historyVars, vars
  <2>4. \A w \in Works : holders[w] = {} => w \notin Existing
    BY DEF Existing, Held
  <2>. QED
    BY <2>2, <2>3, <2>4 DEF OpInv
<1>9. ASSUME NEW g \in Graphs, CaptureBegin(g) \/ CaptureEnd(g) \/ Replay(g) \/ DestroyGraph(g)
      PROVE  OpInv'
  <2>1. UNCHANGED <<workVars, holders, historyVars>>
    BY <1>9, Zenon DEF CaptureBegin, CaptureEnd, Replay, DestroyGraph
  <2>2. op # "idle" => Capturing' = Capturing
    BY <1>9 DEF CaptureBegin, CaptureEnd, Replay, DestroyGraph, Dropped, Capturing, Types
  <2>. QED
    BY <2>1, <2>2 DEF OpInv, workVars, historyVars
<1>. QED
  BY <1>1, <1>2, <1>3, <1>6, <1>7, <1>8, <1>9, Steps

LEMMA GraphInvStep ==
    ASSUME LifetimeInv, [Next]_vars
    PROVE  GraphInv'
<1>. USE DEF LifetimeInv
<1>1. ASSUME NEW s \in Streams, CreateWork(s) PROVE GraphInv'
  <2>1. /\ issued + 1 \in Works /\ within[issued + 1] = NoGraph
        /\ holders' = [holders EXCEPT ![issued + 1] = {"op"}]
        /\ UNCHANGED <<within, graph, unhooked>>
    BY <1>1, LifetimeAssumption DEF CreateWork, Works, Types, OpInv
  <2>. QED
    BY <2>1, LifetimeAssumption DEF GraphInv, Types
<1>2. CASE Issue
  <2>1. UNCHANGED <<holders, within, graph, unhooked>>
    BY <1>2, Zenon DEF Issue, historyVars
  <2>. QED
    BY <2>1 DEF GraphInv
<1>3. CASE Enqueue
  <2>. DEFINE g == IF gpu[current] = "captured" THEN CHOOSE c \in Capturing : TRUE ELSE NoGraph
  <2>1. /\ op = "recorded" /\ graph' = graph /\ unhooked' = unhooked
        /\ holders' = [holders EXCEPT ![current] = {"program"} \cup KeptBy(current)]
        /\ within' = [within EXCEPT ![current] = g]
    BY <1>3, Zenon DEF Enqueue, historyVars
  <2>2. current \in Works /\ within[current] = NoGraph
    BY <2>1, LifetimeAssumption DEF OpInv, Types, Works
  <2>3. gpu[current] = "captured" => g \in Capturing
    BY <2>1 DEF OpInv
  <2>4. gpu[current] # "captured" => g = NoGraph
    OBVIOUS
  <2>. HIDE DEF g
  <2>5. \A w \in Works : "graph" \in holders'[w] <=>
            /\ within'[w] \in Graphs
            /\ \/ graph'[within'[w]] \in {"capturing", "alive", "destroyed"}
               \/ within'[w] \in unhooked'
    BY <2>1, <2>2, <2>3, <2>4, LifetimeAssumption DEF GraphInv, Types, KeptBy, Capturing
  <2>6. \A w \in Works : within'[w] \in Graphs => graph'[within'[w]] # "none"
    BY <2>1, <2>2, <2>3, <2>4, LifetimeAssumption DEF GraphInv, Types, Capturing
  <2>7. \A c \in Graphs :
            graph'[c] = "destroyed" => c \notin unhooked' /\ \E w \in Works : within'[w] = c
    BY <2>1, <2>2, LifetimeAssumption DEF GraphInv, Types
  <2>. QED
    BY <2>5, <2>6, <2>7 DEF GraphInv
<1>10. CASE EnqueueUnhooked
  <2>1. PICK g : /\ g = CHOOSE c \in Capturing : TRUE
                 /\ \A w \in Works : within[w] # g
                 /\ within' = [within EXCEPT ![current] = g] /\ unhooked' = unhooked \cup {g}
    BY <1>10, Zenon DEF EnqueueUnhooked
  <2>2. g \in Graphs /\ graph[g] = "capturing"
    <3>1. Capturing # {}
      BY <1>10 DEF EnqueueUnhooked, OpInv
    <3>. QED
      BY <2>1, <3>1 DEF Capturing
  <2>3. current \in Works /\ within[current] = NoGraph
    BY <1>10, LifetimeAssumption DEF EnqueueUnhooked, OpInv, Types, Works
  <2>4. graph' = graph /\ holders' = [holders EXCEPT ![current] = {"graph"}]
    BY <1>10 DEF EnqueueUnhooked, KeptBy
  <2>5. \A w \in Works : w # current => holders'[w] = holders[w] /\ within'[w] = within[w]
    BY <2>1, <2>4 DEF Types
  <2>6. holders'[current] = {"graph"} /\ within'[current] = g
    BY <2>1, <2>3, <2>4 DEF Types
  <2>7. ASSUME NEW w \in Works
        PROVE  /\ "graph" \in holders'[w] <=>
                    /\ within'[w] \in Graphs
                    /\ \/ graph'[within'[w]] \in {"capturing", "alive", "destroyed"}
                       \/ within'[w] \in unhooked'
               /\ within'[w] \in Graphs => graph'[within'[w]] # "none"
    <3>1. CASE w = current
      BY <2>2, <2>4, <2>6, <3>1
    <3>2. CASE w # current
      BY <2>1, <2>4, <2>5, <3>2 DEF GraphInv
    <3>. QED
      BY <3>1, <3>2
  <2>8. ASSUME NEW c \in Graphs, graph'[c] = "destroyed"
        PROVE  c \notin unhooked' /\ \E w \in Works : within'[w] = c
    <3>1. c # g /\ graph[c] = "destroyed"
      BY <2>2, <2>4, <2>8
    <3>2. PICK w \in Works : within[w] = c
      BY <3>1 DEF GraphInv
    <3>3. w # current
      BY <2>3, <3>2, LifetimeAssumption
    <3>. QED
      BY <2>1, <2>5, <3>1, <3>2, <3>3 DEF GraphInv
  <2>. QED
    BY <2>7, <2>8 DEF GraphInv
<1>4. ASSUME NEW ws, NEW kind \in {"op", "queue", "program"}, Release(ws, kind),
             UNCHANGED <<within, graph, unhooked>>
      PROVE  GraphInv'
  <2>1. \A w \in Works : holders'[w] = IF w \in ws THEN holders[w] \ {kind} ELSE holders[w]
    BY <1>4, Released
  <2>2. \A w \in Works : "graph" \in holders'[w] <=> "graph" \in holders[w]
    BY <2>1
  <2>. QED
    BY <1>4, <2>2 DEF GraphInv
<1>5. ASSUME NEW g \in Graphs, GraphCleanupCallback(g),
             Release({w \in Works : within[w] = g}, "graph")
      PROVE  GraphInv'
  <2>1. \A w \in Works : holders'[w] = IF w \in {v \in Works : within[v] = g}
                                      THEN holders[w] \ {"graph"} ELSE holders[w]
    BY <1>5, Released
  <2>2. /\ graph[g] = "destroyed" /\ graph' = [graph EXCEPT ![g] = "cleaned"]
        /\ within' = within /\ unhooked' = unhooked
    BY <1>5 DEF GraphCleanupCallback, workVars, historyVars
  <2>3. \A w \in Works : "graph" \in holders'[w] <=> "graph" \in holders[w] /\ within[w] # g
    BY <2>1
  <2>4. \A h \in Graphs : graph'[h] = IF h = g THEN "cleaned" ELSE graph[h]
    BY <2>2 DEF Types
  <2>. QED
    BY <2>2, <2>3, <2>4 DEF GraphInv
<1>6. CASE Releases
  <2>1. CASE (IssueFails \/ EnqueueFails) /\ Release({current}, "op")
    <3>1. within' = within /\ unhooked' = unhooked /\ graph' = Unwound
      BY <2>1 DEF IssueFails, EnqueueFails, historyVars
    <3>2. \A w \in Works : holders'[w] = IF w \in {current} THEN holders[w] \ {"op"} ELSE holders[w]
      BY <2>1, Released
    <3>3. \A w \in Works : "graph" \in holders'[w] <=> "graph" \in holders[w]
      BY <3>2
    <3>4. \A g \in Graphs : graph'[g] = IF graph[g] = "capturing" THEN Dropped(g) ELSE graph[g]
      BY <3>1 DEF Unwound
    <3>. QED
      BY <3>1, <3>3, <3>4 DEF GraphInv, Dropped
  <2>2. ASSUME NEW w \in Works, GarbageCollect(w), Release({w}, "queue") PROVE GraphInv'
    BY <1>4, <2>2 DEF GarbageCollect, workVars, historyVars
  <2>3. ASSUME NEW w \in Works, DropWork(w), Release({w}, "program") PROVE GraphInv'
    BY <1>4, <2>3 DEF DropWork, workVars, historyVars
  <2>4. CASE FinalizeQueue /\ Release(AllQueued, "queue")
    <3>1. UNCHANGED <<within, graph, unhooked>>
      BY <2>4, Zenon DEF FinalizeQueue, workVars, historyVars
    <3>. QED
      BY <1>4, <2>4, <3>1
  <2>. QED
    BY <1>5, <1>6, <2>1, <2>2, <2>3, <2>4, Zenon DEF Releases
<1>7. ASSUME NEW w \in Works, GpuFinish(w) PROVE GraphInv'
  <2>1. UNCHANGED <<within, holders, graph, unhooked>>
    BY <1>7, Zenon DEF GpuFinish, historyVars
  <2>. QED
    BY <2>1 DEF GraphInv
<1>8. CASE DropComm \/ OpenWindow \/ FreeWindow \/ FinalizeBegin \/ FinalizeSettle \/ UNCHANGED vars
  <2>1. UNCHANGED <<workVars, holders, graph, unhooked>>
    BY <1>8, Zenon DEF DropComm, OpenWindow, FreeWindow, FinalizeBegin, FinalizeSettle,
        historyVars, vars
  <2>. QED
    BY <2>1 DEF GraphInv, workVars
<1>9. ASSUME NEW g \in Graphs, CaptureBegin(g) \/ CaptureEnd(g) \/ Replay(g) \/ DestroyGraph(g)
      PROVE  GraphInv'
  <2>1. within' = within /\ holders' = holders /\ unhooked' = unhooked
    BY <1>9, Zenon DEF CaptureBegin, CaptureEnd, Replay, DestroyGraph, workVars, historyVars
  <2>2. CASE CaptureBegin(g)
    BY <2>1, <2>2 DEF CaptureBegin, GraphInv, Types
  <2>3. CASE CaptureEnd(g)
    BY <2>1, <2>3 DEF CaptureEnd, GraphInv, Types
  <2>4. CASE Replay(g)
    BY <2>1, <2>4 DEF Replay, GraphInv
  <2>5. CASE DestroyGraph(g)
    BY <2>1, <2>5 DEF DestroyGraph, Dropped, GraphInv, Types
  <2>. QED
    BY <1>9, <2>2, <2>3, <2>4, <2>5
<1>. QED
  BY <1>1, <1>2, <1>3, <1>6, <1>7, <1>8, <1>9, <1>10, Steps

LEMMA CommInvStep ==
    ASSUME LifetimeInv, [Next]_vars
    PROVE  CommInv'
<1>. USE DEF LifetimeInv
<1>1. ASSUME NEW s \in Streams, CreateWork(s) PROVE CommInv'
  <2>1. /\ finalizing = "no" /\ op = "idle" /\ op' = "created"
        /\ issued + 1 \in Works /\ current' = issued + 1
        /\ holders' = [holders EXCEPT ![issued + 1] = {"op"}]
        /\ late' = IF initState = "FINALIZED" THEN late \cup {issued + 1} ELSE late
        /\ UNCHANGED <<initState, finalizing, nccl, handle>>
    BY <1>1, LifetimeAssumption DEF CreateWork, Works, Types, commVars, ownerVars
  <2>2. initState = "INITIALIZED" \/ late' # {}
    BY <2>1 DEF Types
  <2>3. \A w \in Works : "queue" \in holders'[w] => "queue" \in holders[w]
    BY <2>1 DEF Types
  <2>. QED
    BY <2>1, <2>2, <2>3 DEF CommInv, Types
<1>2. CASE Issue
  <2>1. /\ op = "created" /\ op' = "recorded" /\ current' = current
        /\ UNCHANGED <<commVars, ownerVars, holders, historyVars>>
    BY <1>2, Zenon DEF Issue
  <2>. QED
    BY <2>1 DEF CommInv, commVars, ownerVars, historyVars
<1>3. CASE Enqueue \/ EnqueueUnhooked
  <2>1. /\ op = "recorded" /\ op' = "idle"
        /\ \/ holders' = [holders EXCEPT ![current] = {"program"} \cup KeptBy(current)]
           \/ holders' = [holders EXCEPT ![current] = {"graph"}]
        /\ UNCHANGED <<commVars, ownerVars, late>>
    BY <1>3 DEF Enqueue, EnqueueUnhooked, KeptBy, historyVars
  <2>2. \A w \in Works : "queue" \in holders'[w] => w = current \/ "queue" \in holders[w]
    BY <2>1 DEF Types
  <2>. QED
    BY <2>1, <2>2 DEF CommInv, commVars, ownerVars
<1>4. CASE Releases
  <2>1. PICK ws, kind : Release(ws, kind)
    BY <1>4, Zenon DEF Releases
  <2>2. \A w \in Works : holders'[w] \subseteq holders[w]
    BY <2>1, Released
  <2>4. \/ finalizing' = finalizing
        \/ /\ finalizing = "joining" /\ finalizing' \in {"drained", "failed"}
           /\ Release(AllQueued, "queue")
    BY <1>4 DEF Releases, IssueFails, EnqueueFails, GarbageCollect, DropWork,
        GraphCleanupCallback, FinalizeQueue, commVars
  <2>5. ASSUME Release(AllQueued, "queue") PROVE \A w \in Works : "queue" \notin holders'[w]
    <3>1. \A w \in Works : holders'[w] = IF w \in AllQueued THEN holders[w] \ {"queue"}
                                        ELSE holders[w]
      BY <2>5, Released
    <3>2. \A w \in Works : "queue" \in holders[w] => w \in AllQueued
      BY DEF AllQueued, Queued, Types
    <3>. QED
      BY <3>1, <3>2
  <2>6. (op' = op /\ current' = current) \/ op' = "idle"
    BY <1>4, ReleasesFrame
  <2>7. UNCHANGED <<initState, nccl, handle, late>>
    BY <1>4, ReleasesFrame
  <2>8. CASE finalizing' = finalizing
    BY <2>2, <2>6, <2>7, <2>8 DEF CommInv
  <2>9. CASE finalizing = "joining" /\ finalizing' \in {"drained", "failed"}
             /\ Release(AllQueued, "queue")
    BY <2>2, <2>5, <2>6, <2>7, <2>9 DEF CommInv
  <2>. QED
    BY <2>4, <2>8, <2>9
<1>5. CASE (\E w \in Works : GpuFinish(w)) \/ OpenWindow \/ FreeWindow \/ UNCHANGED vars
           \/ \E g \in Graphs : CaptureBegin(g) \/ CaptureEnd(g) \/ Replay(g) \/ DestroyGraph(g)
  <2>1. UNCHANGED <<commVars, handle, op, current, holders, historyVars>>
    BY <1>5, Zenon DEF GpuFinish, OpenWindow, FreeWindow, CaptureBegin, CaptureEnd, Replay,
        DestroyGraph, vars, ownerVars, workVars
  <2>. QED
    BY <2>1 DEF CommInv, commVars, historyVars
<1>6. CASE DropComm \/ FinalizeBegin \/ FinalizeSettle
  <2>1. UNCHANGED <<op, current, holders, late>>
    BY <1>6, Zenon DEF DropComm, FinalizeBegin, FinalizeSettle, workVars, historyVars
  <2>3. CASE DropComm
    BY <2>1, <2>3 DEF DropComm, CommInv, commVars
  <2>4. CASE FinalizeBegin
    BY <2>1, <2>4 DEF FinalizeBegin, CommInv, ownerVars
  <2>5. CASE FinalizeSettle
    BY <2>1, <2>5 DEF FinalizeSettle, CommInv, ownerVars
  <2>. QED
    BY <1>6, <2>3, <2>4, <2>5
<1>. QED
  BY <1>1, <1>2, <1>3, <1>4, <1>5, <1>6, Steps

LEMMA FreedInvStep ==
    ASSUME LifetimeInv, [Next]_vars
    PROVE  FreedInv'
<1>. USE DEF LifetimeInv
<1>1. ASSUME NEW s \in Streams, CreateWork(s), nccl = "destroyed"
      PROVE  /\ Existing' \subseteq outlived' \cup late'
             /\ pool' \subseteq EventsOf(outlived \cup late)'
  <2>1. PICK n \in Works : n = issued + 1
    BY <1>1, LifetimeAssumption DEF CreateWork, Works, Types
  <2>2. PICK x \in Got(pool, made) : \E y \in Got(x[2], x[3]) :
          ev' = [ev EXCEPT ![n] = <<x[1], y[1]>>] /\ pool' = y[2]
    BY <1>1, <2>1 DEF CreateWork
  <2>3. pool' \subseteq pool /\ \A w \in Works : w # n => ev'[w] = ev[w]
    BY <2>2, CreatedEvents DEF Types
  <2>4. n \notin outlived /\ n \notin late
    BY <2>1, LifetimeAssumption DEF OpInv, Types
  <2>5. /\ holders' = [holders EXCEPT ![n] = {"op"}]
        /\ outlived' = outlived /\ late' = late \cup {n}
    BY <1>1, <2>1 DEF CreateWork, CommInv, Types
  <2>6. Existing' \subseteq Existing \cup {n}
    BY <2>5 DEF Existing, Held, Types
  <2>7. outlived \cup late \subseteq Works
    BY DEF Types
  <2>8. \A w \in outlived \cup late : ev'[w] = ev[w] /\ w \in outlived' \cup late'
    BY <2>3, <2>4, <2>5, <2>7
  <2>9. EventsOf(outlived \cup late) \subseteq EventsOf(outlived \cup late)'
    BY <2>8 DEF EventsOf
  <2>. QED
    BY <1>1, <2>3, <2>5, <2>6, <2>9 DEF FreedInv
<1>2. ASSUME Existing' \subseteq Existing, UNCHANGED <<ev, outlived, late, nccl>>,
             pool' \subseteq pool \cup EventsOf(Existing)
      PROVE  FreedInv'
  <2>1. ASSUME Existing \subseteq outlived \cup late
        PROVE  EventsOf(Existing) \subseteq EventsOf(outlived \cup late)
    BY <2>1 DEF EventsOf
  <2>2. EventsOf(outlived \cup late)' = EventsOf(outlived \cup late)
    BY <1>2 DEF EventsOf
  <2>. QED
    BY <1>2, <2>1, <2>2 DEF FreedInv
<1>3. CASE Releases
  <2>1. PICK ws, kind : Release(ws, kind)
    BY <1>3, Zenon DEF Releases
  <2>2. \A w \in Works : holders'[w] \subseteq holders[w]
    BY <2>1, Released
  <2>3. Existing' \subseteq Existing
    BY <2>2 DEF Existing, Held
  <2>4. Returned \subseteq EventsOf(Existing)
    BY DEF Returned, EventsOf
  <2>5. pool' \subseteq pool \cup EventsOf(Existing)
    BY <2>1, <2>4, Released
  <2>. QED
    BY <1>2, <1>3, <2>3, <2>5, ReleasesFrame
<1>4. CASE Enqueue \/ EnqueueUnhooked
  <2>1. op = "recorded" /\ UNCHANGED <<ev, pool, outlived, late, nccl>>
    BY <1>4, Zenon DEF Enqueue, EnqueueUnhooked, commVars, eventVars, historyVars
  <2>2. current \in Works /\ holders[current] = {"op"}
    BY <2>1, LifetimeAssumption DEF OpInv, Types, Works
  <2>3. \A w \in Works : w # current => holders'[w] = holders[w]
    BY <1>4 DEF Enqueue, EnqueueUnhooked, Types
  <2>4. Existing' \subseteq Existing
    BY <2>2, <2>3 DEF Existing, Held
  <2>. QED
    BY <1>2, <2>1, <2>4
<1>5. CASE FinalizeSettle
  <2>1. UNCHANGED <<holders, late>> /\ nccl = "live"
    BY <1>5 DEF FinalizeSettle, CommInv
  <2>2. nccl' = "destroyed" => pool' = {} /\ outlived' = Existing
    BY <1>5 DEF FinalizeSettle, Drained
  <2>3. Existing' = Existing
    BY <2>1 DEF Existing, Held
  <2>. QED
    BY <2>2, <2>3 DEF FreedInv
<1>6. CASE Issue \/ (\E w \in Works : GpuFinish(w)) \/ DropComm \/ OpenWindow \/ FreeWindow
           \/ (\E g \in Graphs : CaptureBegin(g) \/ CaptureEnd(g) \/ Replay(g) \/ DestroyGraph(g))
           \/ FinalizeBegin \/ UNCHANGED vars
  <2>1. UNCHANGED <<holders, ev, pool, outlived, late, nccl>>
    BY <1>6, Zenon DEF Issue, GpuFinish, DropComm, OpenWindow, FreeWindow, CaptureBegin,
        CaptureEnd, Replay, DestroyGraph, FinalizeBegin, vars, commVars, workVars, eventVars,
        historyVars
  <2>2. Existing' = Existing
    BY <2>1 DEF Existing, Held
  <2>. QED
    BY <1>2, <2>1, <2>2
<1>7. ASSUME NEW s \in Streams, CreateWork(s) PROVE nccl' = nccl
  BY <1>7, Zenon DEF CreateWork, commVars
<1>. QED
  BY <1>1, <1>3, <1>4, <1>5, <1>6, <1>7, Steps DEF FreedInv

\* A step that changes no event's place keeps them in place.
LEMMA EventFrame ==
    ASSUME EventInv, UNCHANGED <<ev, made, pool, gone>>, \A w \in Works : Held(w)' <=> Held(w)
    PROVE  EventInv'
BY DEF EventInv

LEMMA EventInvStep ==
    ASSUME LifetimeInv, [Next]_vars
    PROVE  EventInv'
<1>. USE DEF LifetimeInv
<1>1. ASSUME NEW s \in Streams, CreateWork(s) PROVE EventInv'
  <2>0. PICK n \in Works : n = issued + 1
    BY <1>1, LifetimeAssumption DEF CreateWork, Works, Types
  <2>1. PICK x \in Got(pool, made) : \E y \in Got(x[2], x[3]) :
          /\ ev' = [ev EXCEPT ![n] = <<x[1], y[1]>>] /\ pool' = y[2] /\ made' = y[3]
    BY <1>1, <2>0 DEF CreateWork
  <2>2. PICK y \in Got(x[2], x[3]) :
          /\ ev' = [ev EXCEPT ![n] = <<x[1], y[1]>>] /\ pool' = y[2] /\ made' = y[3]
    BY <2>1
  <2>3. /\ x[1] # y[1] /\ y[3] \in Nat /\ y[3] >= made /\ y[3] <= made + 2
        /\ x[1] \in 1 .. y[3] /\ y[1] \in 1 .. y[3]
        /\ y[2] = pool \ {x[1], y[1]}
        /\ \A e \in 1 .. made : e = x[1] \/ e = y[1] => e \in pool
        /\ \A e \in 1 .. y[3] : e \in 1 .. made \/ e = x[1] \/ e = y[1]
    BY CreatedEvents
  <2>4. gone' = gone /\ holders' = [holders EXCEPT ![n] = {"op"}]
    BY <1>1, <2>0 DEF CreateWork
  <2>5. ~Held(n) /\ Held(n)' /\ \A w \in Works : w # n => (Held(w)' <=> Held(w))
    <3>1. n > issued
      BY <2>0, LifetimeAssumption DEF Types
    <3>2. holders[n] = {}
      BY <3>1 DEF OpInv
    <3>. QED
      BY <2>4, <3>2 DEF Held, Types
  <2>6. ev'[n][1] = x[1] /\ ev'[n][2] = y[1] /\ \A w \in Works : w # n => ev'[w] = ev[w]
    BY <2>2, <2>4 DEF Types
  <2>. DEFINE a == x[1]
              b == y[1]
  <2>7. /\ a # b /\ a \in 1 .. made' /\ b \in 1 .. made' /\ pool' = pool \ {a, b}
        /\ 1 .. made \subseteq 1 .. made'
        /\ \A e \in 1 .. made : e = a \/ e = b => e \in pool
        /\ \A e \in 1 .. made' : e \in 1 .. made \/ e = a \/ e = b
        /\ ev'[n][1] = a /\ ev'[n][2] = b
    BY <2>2, <2>3, <2>6 DEF Types
  <2>. HIDE DEF a, b
  <2>8. pool' \subseteq 1 .. made' /\ gone' \subseteq 1 .. made' /\ \A e \in pool' : e \notin gone'
    BY <2>4, <2>7 DEF EventInv
  <2>9. a \notin gone /\ b \notin gone
    BY <2>7 DEF EventInv
  <2>10. ASSUME NEW w \in Works, w # n, Held(w)
         PROVE  ev[w][1] \notin {a, b} /\ ev[w][2] \notin {a, b}
    BY <2>7, <2>10 DEF EventInv
  <2>11. \A w \in Works : Held(w)' =>
          /\ ev'[w][1] \in 1 .. made' /\ ev'[w][2] \in 1 .. made' /\ ev'[w][1] # ev'[w][2]
          /\ ev'[w][1] \notin pool' /\ ev'[w][1] \notin gone'
          /\ ev'[w][2] \notin pool' /\ ev'[w][2] \notin gone'
    BY <2>4, <2>5, <2>6, <2>7, <2>9 DEF EventInv
  <2>12. \A v, w \in Works : Held(v)' /\ Held(w)' /\ v # w =>
          /\ ev'[v][1] # ev'[w][1] /\ ev'[v][1] # ev'[w][2]
          /\ ev'[v][2] # ev'[w][1] /\ ev'[v][2] # ev'[w][2]
    BY <2>5, <2>6, <2>7, <2>10 DEF EventInv
  <2>13. ASSUME NEW e \in 1 .. made'
         PROVE  e \in pool' \/ e \in gone'
                  \/ \E w \in Works : Held(w)' /\ (e = ev'[w][1] \/ e = ev'[w][2])
    <3>1. CASE e = a \/ e = b
      BY <2>4, <2>5, <2>7, <3>1
    <3>2. CASE e # a /\ e # b
      <4>1. e \in 1 .. made
        BY <2>7, <3>2
      <4>2. e \in pool \/ e \in gone \/ \E w \in Works : Held(w) /\ (e = ev[w][1] \/ e = ev[w][2])
        BY <4>1 DEF EventInv
      <4>3. ASSUME NEW w \in Works, Held(w) PROVE Held(w)' /\ ev'[w] = ev[w]
        BY <2>5, <2>6, <4>3
      <4>. QED
        BY <2>4, <2>7, <3>2, <4>2, <4>3
    <3>. QED
      BY <3>1, <3>2
  <2>. QED
    BY <2>8, <2>11, <2>12, <2>13 DEF EventInv
<1>2. CASE Enqueue \/ EnqueueUnhooked
  <2>1. /\ op = "recorded" /\ UNCHANGED <<ev, eventVars>>
        /\ \/ holders' = [holders EXCEPT ![current] = {"program"} \cup KeptBy(current)]
           \/ holders' = [holders EXCEPT ![current] = {"graph"}]
    BY <1>2 DEF Enqueue, EnqueueUnhooked, KeptBy
  <2>2. current \in Works /\ holders[current] = {"op"}
    BY <2>1, LifetimeAssumption DEF OpInv, Types, Works
  <2>3. \A w \in Works : Held(w)' <=> Held(w)
    BY <2>1, <2>2 DEF Held, Types
  <2>. QED
    BY <2>1, <2>3, EventFrame DEF eventVars
<1>3. CASE Releases
  <2>1. PICK ws, kind : Release(ws, kind)
    BY <1>3, Zenon DEF Releases
  <2>. QED
    BY <1>3, <2>1, ReleasesFrame, ReleaseEvents
<1>4. CASE FinalizeSettle
  <2>1. ev' = ev /\ made' = made /\ \A w \in Works : Held(w)' <=> Held(w)
    BY <1>4 DEF FinalizeSettle, workVars, Held
  <2>2. \/ pool' = pool /\ gone' = gone
        \/ pool' = {} /\ gone' = gone \cup pool
    BY <1>4 DEF FinalizeSettle, Drained
  <2>. QED
    BY <2>1, <2>2 DEF EventInv
<1>5. CASE Issue \/ (\E w \in Works : GpuFinish(w)) \/ DropComm \/ OpenWindow \/ FreeWindow
           \/ (\E g \in Graphs : CaptureBegin(g) \/ CaptureEnd(g) \/ Replay(g) \/ DestroyGraph(g))
           \/ FinalizeBegin \/ UNCHANGED vars
  <2>1. UNCHANGED <<holders, ev, made, pool, gone>>
    BY <1>5, Zenon DEF Issue, GpuFinish, DropComm, OpenWindow, FreeWindow, CaptureBegin,
        CaptureEnd, Replay, DestroyGraph, FinalizeBegin, vars, workVars, eventVars
  <2>. QED
    BY <2>1, EventFrame DEF Held
<1>. QED
  BY <1>1, <1>2, <1>3, <1>4, <1>5, Steps

LEMMA RecordInvStep ==
    ASSUME LifetimeInv, [Next]_vars
    PROVE  RecordInv'
<1>. USE DEF LifetimeInv
<1>0. \A w \in Works : Held(w) => ev[w][1] \in Events /\ ev[w][2] \in Events
  <2>1. 1 .. made \subseteq Events
    BY LifetimeAssumption DEF Types, Events
  <2>. QED
    BY <2>1 DEF EventInv
<1>1. ASSUME NEW s \in Streams, CreateWork(s) PROVE RecordInv'
  <2>1. /\ issued + 1 \in Works /\ current' = issued + 1 /\ op' = "created" /\ op = "idle"
        /\ holders' = [holders EXCEPT ![issued + 1] = {"op"}]
        /\ recorded' = recorded
    BY <1>1, LifetimeAssumption DEF CreateWork, Works, Types
  <2>5. \E x \in Got(pool, made) : \E y \in Got(x[2], x[3]) :
          ev' = [ev EXCEPT ![issued + 1] = <<x[1], y[1]>>]
    BY <1>1 DEF CreateWork
  <2>6. \A w \in Works : w # issued + 1 => ev'[w] = ev[w]
    BY <2>5 DEF Types
  <2>2. \A w \in Works : w # current' => (Held(w)' <=> Held(w)) /\ ev'[w] = ev[w] /\ w # current'
    BY <2>1, <2>6 DEF Held, Types
  <2>3. current = NoWork /\ NoWork \notin Works
    BY <2>1, LifetimeAssumption DEF OpInv, NoWork, Works
  <2>. QED
    BY <2>1, <2>2, <2>3 DEF RecordInv
<1>2. CASE Issue
  <2>1. /\ op = "created" /\ UNCHANGED <<current, ev, holders>>
        /\ recorded' = [e \in Events |-> IF e \in EventsOf({current}) THEN current
                                        ELSE recorded[e]]
    BY <1>2, Zenon DEF Issue
  <2>2. current \in Works /\ Held(current)
    <3>1. current \in Works /\ holders[current] = {"op"}
      BY <2>1, LifetimeAssumption DEF OpInv, Types, Works
    <3>. QED
      BY <3>1 DEF Held
  <2>3. \A e \in Events : recorded'[e] = IF e = ev[current][1] \/ e = ev[current][2] THEN current
                                        ELSE recorded[e]
    BY <2>1, EventsOfOne
  <2>4. \A w \in Works : Held(w)' <=> Held(w)
    BY <2>1 DEF Held
  <2>5. ASSUME NEW w \in Works, Held(w) PROVE recorded'[ev[w][1]] = w /\ recorded'[ev[w][2]] = w
    <3>1. CASE w = current
      BY <1>0, <2>2, <2>3, <3>1
    <3>2. CASE w # current
      BY <1>0, <2>2, <2>3, <2>5, <3>2 DEF EventInv, RecordInv
    <3>. QED
      BY <3>1, <3>2
  <2>. QED
    BY <2>1, <2>4, <2>5 DEF RecordInv
<1>3. CASE Enqueue \/ EnqueueUnhooked
  <2>1. /\ op = "recorded" /\ UNCHANGED <<ev, recorded>>
        /\ \/ holders' = [holders EXCEPT ![current] = {"program"} \cup KeptBy(current)]
           \/ holders' = [holders EXCEPT ![current] = {"graph"}]
    BY <1>3 DEF Enqueue, EnqueueUnhooked, KeptBy, eventVars
  <2>2. current \in Works /\ holders[current] = {"op"}
    BY <2>1, LifetimeAssumption DEF OpInv, Types, Works
  <2>3. \A w \in Works : Held(w)' => Held(w)
    BY <2>1, <2>2 DEF Held, Types
  <2>. QED
    BY <2>1, <2>3 DEF RecordInv
<1>4. CASE (IssueFails \/ EnqueueFails) /\ Release({current}, "op")
  <2>1. /\ op # "idle" /\ UNCHANGED ev /\ op' = "idle" /\ current' = NoWork
        /\ \/ recorded' = [recorded EXCEPT ![ev[current][1]] = current]
           \/ recorded' = recorded
    BY <1>4 DEF IssueFails, EnqueueFails
  <2>2. current \in Works /\ holders[current] = {"op"} /\ Held(current)
    <3>1. current \in Works /\ holders[current] = {"op"}
      BY <2>1, LifetimeAssumption DEF OpInv, Types, Works
    <3>. QED
      BY <3>1 DEF Held
  <2>3. \A w \in Works : holders'[w] = IF w \in {current} THEN holders[w] \ {"op"} ELSE holders[w]
    BY <1>4, Released
  <2>4. \A w \in Works : Held(w)' => Held(w) /\ w # current
    BY <2>2, <2>3 DEF Held
  <2>5. \A e \in Events : e # ev[current][1] => recorded'[e] = recorded[e]
    BY <2>1 DEF Types
  <2>6. ASSUME NEW w \in Works, Held(w), w # current
        PROVE  recorded'[ev[w][1]] = w /\ recorded'[ev[w][2]] = w
    BY <1>0, <2>2, <2>5, <2>6 DEF EventInv, RecordInv
  <2>. QED
    BY <2>1, <2>4, <2>6 DEF RecordInv
<1>5. CASE Releases
  <2>1. ASSUME NEW w \in Works, GarbageCollect(w) \/ DropWork(w)
        PROVE  UNCHANGED <<ev, recorded, current, op>>
    BY <2>1, Zenon DEF GarbageCollect, DropWork, workVars
  <2>2. ASSUME NEW g \in Graphs, GraphCleanupCallback(g)
        PROVE  UNCHANGED <<ev, recorded, current, op>>
    BY <2>2, Zenon DEF GraphCleanupCallback, workVars
  <2>3. FinalizeQueue => UNCHANGED <<ev, recorded, current, op>>
    BY Zenon DEF FinalizeQueue, workVars
  <2>. QED
    BY <1>4, <1>5, <2>1, <2>2, <2>3, ReleaseRecords DEF Releases
<1>6. ASSUME NEW g \in Graphs, Replay(g) PROVE RecordInv'
  <2>. DEFINE Its(e) == {w \in Works : within[w] = g /\ e \in EventsOf({w})}
  <2>1. /\ graph[g] = "alive" /\ UNCHANGED <<workVars, holders>>
        /\ recorded' = [e \in Events |->
              IF \E w \in Works : within[w] = g /\ e \in EventsOf({w})
              THEN CHOOSE w \in Works : within[w] = g /\ e \in EventsOf({w}) ELSE recorded[e]]
    BY <1>6, Zenon DEF Replay
  <2>2. \A w \in Works : within[w] = g => Held(w)
    BY <2>1 DEF GraphInv, Held
  <2>3. ASSUME NEW w \in Works, Held(w), w # current \/ op = "recorded",
               NEW e \in {ev[w][1], ev[w][2]}
        PROVE  recorded'[e] = w
    <3>1. e \in Events /\ e \in EventsOf({w})
      BY <1>0, <2>3, EventsOfOne
    <3>2. \A v \in Works : within[v] = g /\ e \in EventsOf({v}) => v = w
      <4>1. \A v \in Works : Held(v) /\ v # w => e # ev[v][1] /\ e # ev[v][2]
        BY <2>3 DEF EventInv
      <4>. QED
        BY <2>2, <4>1, EventsOfOne
    <3>3. CASE within[w] = g
      <4>1. (CHOOSE v \in Works : within[v] = g /\ e \in EventsOf({v})) = w
        BY <3>1, <3>2, <3>3
      <4>. QED
        BY <2>1, <3>1, <3>3, <4>1, Zenon
    <3>4. CASE within[w] # g
      <4>1. ~ \E v \in Works : within[v] = g /\ e \in EventsOf({v})
        BY <3>2, <3>4
      <4>2. recorded'[e] = recorded[e]
        BY <2>1, <3>1, <4>1, Zenon
      <4>. QED
        BY <2>3, <4>2 DEF RecordInv
    <3>. QED
      BY <3>3, <3>4
  <2>4. UNCHANGED <<ev, current, op>> /\ \A w \in Works : Held(w)' <=> Held(w)
    BY <2>1 DEF workVars, Held
  <2>. QED
    BY <2>3, <2>4 DEF RecordInv
<1>7. CASE (\E w \in Works : GpuFinish(w)) \/ DropComm \/ OpenWindow \/ FreeWindow
           \/ (\E g \in Graphs : CaptureBegin(g) \/ CaptureEnd(g) \/ DestroyGraph(g))
           \/ FinalizeBegin \/ FinalizeSettle \/ UNCHANGED vars
  <2>1. UNCHANGED <<holders, ev, recorded, current, op>>
    BY <1>7, Zenon DEF GpuFinish, DropComm, OpenWindow, FreeWindow, CaptureBegin,
        CaptureEnd, DestroyGraph, FinalizeBegin, FinalizeSettle, vars, workVars, eventVars
  <2>. QED
    BY <2>1 DEF RecordInv, Held
<1>. QED
  BY <1>1, <1>2, <1>3, <1>5, <1>6, <1>7, Steps

-----------------------------------------------------------------------------
(* The theorems.                                                            *)

LEMMA LifetimeInvariant == Spec => []LifetimeInv
<1>1. ASSUME LifetimeInv, [Next]_vars PROVE LifetimeInv'
  BY <1>1, TypesStep, OpInvStep, GraphInvStep, CommInvStep, FreedInvStep,
     EventInvStep, RecordInvStep
     DEF LifetimeInv
<1>. QED
  BY <1>1, InitLifetimeInv, PTL DEF Spec

\* The variables keep their types: createWork, getEvent and returnEvent make no event
\* beyond two per work.
THEOREM LifetimeTypeCorrect == Spec => []LifetimeTypeOK
<1>1. ASSUME LifetimeInv PROVE LifetimeTypeOK
  <2>1. 1 .. made \subseteq Events
    BY <1>1, LifetimeAssumption DEF LifetimeInv, Types, Events
  <2>. QED
    BY <1>1, <2>1 DEF LifetimeInv, Types, EventInv, LifetimeTypeOK
<1>. QED
  BY <1>1, LifetimeInvariant, PTL

\* getEvent, returnEvent and ~TorchWorkNCCLX lose no event and give none to two works,
\* whatever the order in which the threads drop their references.
THEOREM EventsAreConserved == Spec => []EventsConserved
<1>1. ASSUME LifetimeInv PROVE EventsConserved
  <2>. USE <1>1 DEF LifetimeInv
  <2>1. pool \cap gone = {}
    BY DEF EventInv
  <2>2. ASSUME NEW w \in Existing
        PROVE  /\ ev[w][1] # ev[w][2]
               /\ EventsOf({w}) \cap (pool \cup gone) = {}
               /\ \A v \in Existing \ {w} : EventsOf({w}) \cap EventsOf({v}) = {}
    <3>1. w \in Works /\ Held(w)
      BY DEF Existing
    <3>2. EventsOf({w}) \cap (pool \cup gone) = {}
      <4>0. /\ ev[w][1] \notin pool /\ ev[w][1] \notin gone
            /\ ev[w][2] \notin pool /\ ev[w][2] \notin gone
        BY <3>1 DEF EventInv
      <4>1. \A e \in EventsOf({w}) : e \notin pool /\ e \notin gone
        BY <4>0, EventsOfOne
      <4>. QED
        BY <4>1
    <3>3. ASSUME NEW v \in Existing \ {w} PROVE EventsOf({w}) \cap EventsOf({v}) = {}
      <4>1. v \in Works /\ Held(v) /\ v # w
        BY DEF Existing
      <4>. QED
        BY <3>1, <4>1, EventsOfOne DEF EventInv
    <3>. QED
      BY <3>1, <3>2, <3>3 DEF EventInv
  <2>3. \A e : e \in EventsOf(Existing) <=>
            \E w \in Works : Held(w) /\ (e = ev[w][1] \/ e = ev[w][2])
    BY DEF EventsOf, Existing
  <2>4. 1 .. made = pool \cup gone \cup EventsOf(Existing)
    <3>1. \A e : e \in 1 .. made => e \in pool \/ e \in gone \/ e \in EventsOf(Existing)
      BY <2>3 DEF EventInv
    <3>2. \A e : e \in EventsOf(Existing) => e \in 1 .. made
      BY <2>3 DEF EventInv
    <3>3. pool \subseteq 1 .. made /\ gone \subseteq 1 .. made
      BY DEF EventInv
    <3>. QED
      BY <3>1, <3>2, <3>3
  <2>. QED
    BY <2>1, <2>2, <2>4 DEF EventsConserved
<1>. QED
  BY <1>1, LifetimeInvariant, PTL

\* What checkStatus and wait read in a work's events was recorded by that work, though
\* events are recycled and graphs record theirs at every launch.
THEOREM StatusIsAlwaysOwn == Spec => []StatusIsOwn
<1>1. ASSUME LifetimeInv PROVE StatusIsOwn
  BY <1>1, EventsOfOne DEF LifetimeInv, RecordInv, StatusIsOwn, Existing
<1>. QED
  BY <1>1, LifetimeInvariant, PTL

\* graphCleanupCallback never runs on a communicator that is gone.
THEOREM CleanupAlwaysHasComm == Spec => []CleanupHasComm
<1>1. ASSUME LifetimeInv PROVE CleanupHasComm
  <2>1. ASSUME NEW g \in Graphs, graph[g] \in {"alive", "destroyed"},
               NEW w \in Works, within[w] = g
        PROVE  CommExists
    BY <1>1, <2>1 DEF LifetimeInv, GraphInv, CommExists, Existing, Held
  <2>. QED
    BY <1>1, <2>1 DEF LifetimeInv, GraphInv, CleanupHasComm
<1>. QED
  BY <1>1, LifetimeInvariant, PTL

LEMMA NothingLeaks == LifetimeInv => NoLeak
<1>. SUFFICES ASSUME LifetimeInv, LetGo, NEW w \in Works, Held(w), within[w] \notin unhooked
              PROVE  w \in late
  BY DEF NoLeak, Existing
<1>. USE DEF LifetimeInv
<1>1. initState # "INITIALIZED" /\ finalizing = "no"
  BY DEF LetGo, CommInv
<1>2. "program" \notin holders[w]
  BY DEF LetGo
<1>3. "graph" \notin holders[w]
  BY DEF LetGo, GraphInv
<1>4. CASE "op" \in holders[w]
  BY <1>1, <1>4 DEF OpInv, CommInv
<1>5. CASE "queue" \in holders[w]
  BY <1>1, <1>5 DEF CommInv
<1>6. holders[w] \subseteq Holders /\ holders[w] # {}
  BY DEF Types, Held
<1>. QED
  BY <1>2, <1>3, <1>4, <1>5, <1>6 DEF Holders

\* However finalize ends, and whichever thread drops a work last, what is left to keep
\* the communicator alive is at most works a window enqueued after finalize, and works of
\* graphs whose clean-up callback enqueueWork failed to register.
THEOREM NeverLeaks == Spec => []NoLeak
BY NothingLeaks, LifetimeInvariant, PTL

\* Once finalize has destroyed the NCCL communicator, every event is destroyed but those
\* of works that outlived it or came after it: those are with their works, or went back
\* to the pool, which the destructor does not empty.
THEOREM EventsAreFreed == Spec => []EventsFreed
<1>1. ASSUME LifetimeInv PROVE EventsFreed
  <2>. USE <1>1 DEF LifetimeInv
  <2>. SUFFICES ASSUME nccl = "destroyed", NEW e \in 1 .. made, e \notin gone
                PROVE  e \in EventsOf(outlived \cup late)
    BY DEF EventsFreed
  <2>1. CASE e \in pool
    BY <2>1 DEF FreedInv
  <2>2. ASSUME NEW w \in Works, Held(w), e = ev[w][1] \/ e = ev[w][2]
        PROVE  e \in EventsOf(outlived \cup late)
    <3>1. w \in outlived \cup late
      BY <2>2 DEF FreedInv, Existing
    <3>. QED
      BY <2>2, <3>1 DEF EventsOf
  <2>. QED
    BY <2>1, <2>2 DEF EventInv
<1>. QED
  BY <1>1, LifetimeInvariant, PTL

\* The pool never holds more than max_event_pool_size_ events.
PoolWithinLimit == Cardinality(pool) <= MaxEventPoolSize

\* returnEvent keeps the limit, though a release may return the events of many works.
LEMMA ReleaseKeepsLimit ==
    ASSUME Types, EventInv, PoolWithinLimit, NEW ws, NEW kind, Release(ws, kind)
    PROVE  PoolWithinLimit'
<1>. DEFINE room == MaxEventPoolSize - Cardinality(pool)
            some == IF Cardinality(Returned) <= room THEN Cardinality(Returned) ELSE room
<1>1. PICK kept \in SUBSET Returned : Cardinality(kept) = some /\ pool' = pool \cup kept
  BY Zenon DEF Release, ReturnEvents, Returned
<1>2. IsFiniteSet(1 .. made) /\ pool \in SUBSET (1 .. made) /\ Returned \in SUBSET (1 .. made)
  <2>1. made \in Int /\ 1 \in Int
    BY DEF Types
  <2>2. IsFiniteSet(1 .. made)
    BY <2>1, FS_Interval
  <2>3. pool \in SUBSET (1 .. made)
    BY DEF EventInv
  <2>4. Returned \in SUBSET (1 .. made)
    BY ReturnedEvents DEF EventInv
  <2>. QED
    BY <2>2, <2>3, <2>4
<1>3. IsFiniteSet(pool) /\ IsFiniteSet(kept) /\ IsFiniteSet(Returned)
  BY <1>2, FS_Subset
<1>4. IsFiniteSet(pool \cap kept)
  BY <1>3, FS_Subset
<1>5. /\ Cardinality(pool) \in Nat /\ Cardinality(kept) \in Nat
      /\ Cardinality(Returned) \in Nat /\ Cardinality(pool \cap kept) \in Nat
  BY <1>3, <1>4, FS_CardinalityType
<1>6. Cardinality(pool \cup kept) = Cardinality(pool) + Cardinality(kept) - Cardinality(pool \cap kept)
  BY <1>3, FS_Union
<1>7. Cardinality(kept) <= room
  BY <1>1, <1>5, LifetimeAssumption DEF PoolWithinLimit
<1>. QED
  BY <1>1, <1>5, <1>6, <1>7, LifetimeAssumption DEF PoolWithinLimit

\* The pool keeps its limit: returnEvent destroys what does not fit.
THEOREM PoolStaysWithinLimit == Spec => []PoolWithinLimit
<1>1. Init => PoolWithinLimit
  BY FS_EmptySet, LifetimeAssumption DEF Init, PoolWithinLimit
<1>2. ASSUME LifetimeInv, PoolWithinLimit, [Next]_vars PROVE PoolWithinLimit'
  <2>1. IsFiniteSet(pool)
    <3>1. made \in Int /\ 1 \in Int
      BY <1>2 DEF LifetimeInv, Types
    <3>2. IsFiniteSet(1 .. made)
      BY <3>1, FS_Interval
    <3>3. pool \in SUBSET (1 .. made)
      BY <1>2 DEF LifetimeInv, EventInv
    <3>. QED
      BY <3>2, <3>3, FS_Subset
  <2>2. ASSUME pool' \subseteq pool PROVE PoolWithinLimit'
    <3>1. Cardinality(pool') <= Cardinality(pool) /\ IsFiniteSet(pool')
      BY <2>1, <2>2, FS_Subset
    <3>2. Cardinality(pool) \in Nat /\ Cardinality(pool') \in Nat
      BY <2>1, <3>1, FS_CardinalityType
    <3>. QED
      BY <1>2, <3>1, <3>2, LifetimeAssumption DEF PoolWithinLimit
  <2>3. ASSUME NEW s \in Streams, CreateWork(s) PROVE pool' \subseteq pool
    <3>1. \E x \in Got(pool, made) : \E y \in Got(x[2], x[3]) : pool' = y[2]
      BY <2>3 DEF CreateWork
    <3>. QED
      BY <1>2, <3>1, CreatedEvents DEF LifetimeInv
  <2>4. Releases => PoolWithinLimit'
    BY <1>2, ReleaseKeepsLimit, Zenon DEF Releases, LifetimeInv
  <2>5. ASSUME FinalizeSettle PROVE pool' \subseteq pool
    BY <2>5 DEF FinalizeSettle, Drained
  <2>6. ASSUME \/ Issue \/ Enqueue \/ EnqueueUnhooked \/ (\E w \in Works : GpuFinish(w)) \/ DropComm \/ OpenWindow
               \/ FreeWindow \/ FinalizeBegin \/ UNCHANGED vars
               \/ \E g \in Graphs : CaptureBegin(g) \/ CaptureEnd(g) \/ Replay(g) \/ DestroyGraph(g)
        PROVE  pool' = pool
    BY <2>6, Zenon DEF Issue, Enqueue, EnqueueUnhooked, GpuFinish, DropComm, OpenWindow, FreeWindow, CaptureBegin,
        CaptureEnd, Replay, DestroyGraph, FinalizeBegin, vars, eventVars
  <2>. QED
    BY <1>2, <2>2, <2>3, <2>4, <2>5, <2>6, Steps
<1>. QED
  BY <1>1, <1>2, LifetimeInvariant, PTL DEF Spec
=============================================================================
