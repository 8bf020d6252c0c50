---------------------------- MODULE RegCacheProofs ----------------------------
(***************************************************************************)
(* Proofs about the registration cache, for any number of communicators,   *)
(* segments, regElems, collectives and failures: what a search finds is    *)
(* covered by cached segments, a range is registered once, a handle in use *)
(* and an exported one stay registered, and nothing is left at the end.    *)
(***************************************************************************)
EXTENDS RegCache, SequenceTheorems, FiniteSetTheorems, TLAPS

Pcs == {"idle", "queued", "search", "slow", "dynamic", "use", "dereg",
        "release", "free", "deregister", "ended"}
ElemType == [state : {"none", "cached", "leaving"}, segs : SUBSET Segments, dynamic : BOOLEAN]
ThreadType ==
    [pc : Pcs, buf : SUBSET Segments, hdl : Addrs \cup {NoAddr}, own : BOOLEAN,
     list : SUBSET Addrs]

\* refCount is an integer here: that it never goes below zero is what askFree checks.
RegCacheTypeOK ==
    /\ mode \in ModeType
    /\ refCount \in [Segments -> Int]
    /\ elems \in [Addrs -> ElemType]
    /\ segToRegElems \in [Segments -> SUBSET Addrs]
    /\ queue \in Seq(SUBSET Segments)
    /\ thread \in [Threads -> ThreadType]

\* What freeSegment relies on to find the regElems of a segment it removes.
LinkedBack ==
    \A a \in Addrs : Cached(a) /\ ~elems[a].dynamic =>
        \A s \in elems[a].segs : refCount[s] > 0 /\ a \in segToRegElems[s]

\* The request the asynchronous thread works on is in the queue until it is done.
RequestQueued == thread[Async].pc \in {"search", "slow"} => queue # << >>

RegCacheInv == RegCacheTypeOK /\ RequestQueued /\ LinkedBack /\ RegisteredOnce

LEMMA InitRegCacheInv == Init => RegCacheInv
BY RegCacheAssumption, SMT DEF Init, RegCacheInv, RegCacheTypeOK, RequestQueued, LinkedBack,
    RegisteredOnce, Cached, NoElem, Idle, ElemType, ThreadType, Pcs, Threads

-----------------------------------------------------------------------------
(* Types.                                                                  *)

LEMMA CountType ==
    ASSUME NEW f \in [Segments -> Int], NEW s, NEW n, s \in Segments => n \in Int
    PROVE  [f EXCEPT ![s] = n] \in [Segments -> Int]
OBVIOUS

LEMMA IdleType == Idle \in ThreadType
BY DEF Idle, ThreadType, Pcs

\* A regRange hands over: to the user, the collective, or the asynchronous thread.
LEMMA ResolveTypes ==
    ASSUME RegCacheTypeOK, NEW t \in Threads, NEW a \in Addrs \cup {NoAddr}, Resolve(t, a),
           t = Async => queue # << >>
    PROVE  thread' \in [Threads -> ThreadType] /\ queue' \in Seq(SUBSET Segments)
<1>1. CASE t[1] = "main"
  <2>1. thread' = [thread EXCEPT ![t] = Idle] /\ queue' = queue
    BY <1>1 DEF Resolve
  <2>. QED
    BY <2>1, IdleType DEF RegCacheTypeOK
<1>2. CASE t[1] = "gpe"
  <2>. DEFINE own == thread[t].buf \subseteq held[t[2]]
              next == [thread[t] EXCEPT !.pc = "use", !.hdl = a, !.own = own]
  <2>1. thread' = [thread EXCEPT ![t] = next] /\ queue' = queue
    BY <1>2, Zenon DEF Resolve
  <2>2. own \in BOOLEAN
    OBVIOUS
  <2>3. thread[t] \in ThreadType
    BY DEF RegCacheTypeOK
  <2>. HIDE DEF own
  <2>4. next \in ThreadType
    BY <2>2, <2>3 DEF ThreadType, Pcs
  <2>. QED
    BY <2>1, <2>4 DEF RegCacheTypeOK
<1>3. CASE t[1] = "async"
  <2>1. thread' = [thread EXCEPT ![t] = Idle] /\ queue' = Tail(queue)
    BY <1>3 DEF Resolve
  <2>2. t = Async
    BY <1>3 DEF Threads, Main, Gpe, Async
  <2>. QED
    BY <2>1, <2>2, IdleType DEF RegCacheTypeOK
<1>. QED
  BY <1>1, <1>2, <1>3 DEF Threads, Main, Gpe, Async

LEMMA GotoTypes ==
    ASSUME RegCacheTypeOK, NEW t \in Threads, NEW pc \in Pcs, Goto(t, pc)
    PROVE  thread' \in [Threads -> ThreadType]
<1>1. thread[t] \in ThreadType
  BY DEF RegCacheTypeOK
<1>2. [thread[t] EXCEPT !.pc = pc] \in ThreadType
  BY <1>1 DEF ThreadType
<1>. QED
  BY <1>2 DEF RegCacheTypeOK, Goto

LEMMA ThreadIds ==
    ASSUME NEW c \in Comms
    PROVE  Main(c) \in Threads /\ Gpe(c) \in Threads /\ Main(c) # Async /\ Gpe(c) # Async
BY DEF Threads, Main, Gpe, Async

\* regRange, by any thread, keeps the types.
LEMMA RegRangeTypes ==
    ASSUME RegCacheTypeOK, RequestQueued, NEW t \in Threads,
           FastPath(t) \/ FoundLate(t) \/ Register(t) \/ RegisterFails(t) \/ NotCached(t)
    PROVE  RegCacheTypeOK'
<1>1. At(t, "search") \/ At(t, "slow") => (t = Async => queue # << >>)
  BY DEF At, RequestQueued
<1>2. Found(thread[t].buf) \subseteq Addrs /\ FoundAgain(thread[t].buf) \subseteq Addrs
  BY DEF Found, FoundAgain
<1>3. CASE FastPath(t)
  <2>1. thread' \in [Threads -> ThreadType] /\ queue' \in Seq(SUBSET Segments)
    <3>1. CASE Found(thread[t].buf) # {}
      BY <1>1, <1>2, <1>3, <3>1, ResolveTypes DEF FastPath
    <3>2. CASE Found(thread[t].buf) = {}
      BY <1>3, <3>2, GotoTypes DEF FastPath, Pcs, RegCacheTypeOK
    <3>. QED
      BY <3>1, <3>2
  <2>. QED
    BY <1>3, <2>1 DEF FastPath, RegCacheTypeOK, cacheVars
<1>4. CASE FoundLate(t)
  <2>1. thread' \in [Threads -> ThreadType] /\ queue' \in Seq(SUBSET Segments)
    BY <1>1, <1>2, <1>4, ResolveTypes DEF FoundLate
  <2>. QED
    BY <1>4, <2>1 DEF FoundLate, RegCacheTypeOK, cacheVars
<1>5. CASE Register(t)
  <2>1. PICK a \in Free : /\ NewElem(a, thread[t].buf, FALSE) /\ Resolve(t, a)
                          /\ segToRegElems' = [s \in Segments |->
                                IF s \in Linked(thread[t].buf) THEN segToRegElems[s] \cup {a}
                                ELSE segToRegElems[s]]
    BY <1>5 DEF Register
  <2>2. a \in Addrs /\ thread[t].buf \subseteq Segments
    BY DEF Free, RegCacheTypeOK, ThreadType
  <2>3. thread' \in [Threads -> ThreadType] /\ queue' \in Seq(SUBSET Segments)
    BY <1>1, <1>5, <2>1, <2>2, ResolveTypes DEF Register
  <2>4. elems' \in [Addrs -> ElemType] /\ segToRegElems' \in [Segments -> SUBSET Addrs]
    BY <2>1, <2>2 DEF NewElem, RegCacheTypeOK, ElemType
  <2>. QED
    BY <1>5, <2>3, <2>4 DEF Register, RegCacheTypeOK
<1>6. CASE RegisterFails(t)
  BY <1>6, IdleType DEF RegisterFails, Failed, RegCacheTypeOK, cacheVars
<1>7. CASE NotCached(t)
  <2>1. thread' \in [Threads -> ThreadType] /\ queue' \in Seq(SUBSET Segments)
    <3>1. CASE t[1] = "gpe"
      BY <1>7, <3>1, GotoTypes DEF NotCached, Pcs, RegCacheTypeOK
    <3>2. CASE t[1] # "gpe"
      BY <1>1, <1>7, <3>2, ResolveTypes DEF NotCached
    <3>. QED
      BY <3>1, <3>2
  <2>. QED
    BY <1>7, <2>1 DEF NotCached, RegCacheTypeOK, cacheVars
<1>. QED
  BY <1>3, <1>4, <1>5, <1>6, <1>7

\* regMem and deregMem keep the types.
LEMMA UserTypes ==
    ASSUME RegCacheTypeOK, NEW c \in Comms,
           \/ \E s \in Segments : RegMem(c, s) \/ DeregMem(c, s)
           \/ Release(c) \/ FreeSegment(c) \/ DeregElems(c)
    PROVE  RegCacheTypeOK'
<1>. DEFINE t == Main(c)
<1>. /\ t \in Threads /\ thread[t] \in ThreadType /\ Idle \in ThreadType
     /\ thread \in [Threads -> ThreadType]
  BY ThreadIds, IdleType DEF RegCacheTypeOK
<1>1. ASSUME NEW s \in Segments, RegMem(c, s) PROVE RegCacheTypeOK'
  <2>1. [Idle EXCEPT !.pc = "search", !.buf = {s}] \in ThreadType
    BY DEF ThreadType, Pcs, Idle
  <2>2. thread' \in [Threads -> ThreadType]
    BY <1>1, <2>1 DEF RegMem
  <2>3. refCount' = [refCount EXCEPT ![s] = refCount[s] + 1]
    BY <1>1 DEF RegMem
  <2>4. refCount \in [Segments -> Int] /\ refCount[s] + 1 \in Int
    BY DEF RegCacheTypeOK
  <2>5. refCount' \in [Segments -> Int]
    BY <2>3, <2>4, CountType, Zenon
  <2>. QED
    BY <1>1, <2>2, <2>5 DEF RegMem, RegCacheTypeOK
<1>2. ASSUME NEW s \in Segments, DeregMem(c, s) PROVE RegCacheTypeOK'
  <2>1. [Idle EXCEPT !.pc = "release", !.buf = {s}, !.list = segToRegElems[s]] \in ThreadType
    BY DEF ThreadType, Pcs, Idle, RegCacheTypeOK
  <2>2. thread' \in [Threads -> ThreadType]
    BY <1>2, <2>1 DEF DeregMem
  <2>. QED
    BY <1>2, <2>2 DEF DeregMem, RegCacheTypeOK, cacheVars
<1>3. CASE Release(c)
  <2>1. thread' \in [Threads -> ThreadType]
    BY <1>3, GotoTypes DEF Release, Pcs
  <2>. QED
    BY <1>3, <2>1 DEF Release, RegCacheTypeOK, cacheVars
<1>4. CASE FreeSegment(c)
  <2>. DEFINE s == CHOOSE x \in thread[t].buf : TRUE
              taken == {a \in Addrs : Cached(a) /\ a \in segToRegElems[s]}
  <2>. HIDE DEF s
  <2>1. CASE LastHolder(s)
    <3>. DEFINE next == [Idle EXCEPT !.pc = "deregister", !.list = taken]
    <3>1. /\ refCount' = [refCount EXCEPT ![s] = 0]
          /\ elems' = [a \in Addrs |->
                 IF a \in taken THEN [elems[a] EXCEPT !.state = "leaving"] ELSE elems[a]]
          /\ segToRegElems' = [segToRegElems EXCEPT ![s] = {}]
          /\ thread' = [thread EXCEPT ![t] = next]
          /\ UNCHANGED <<mode, queue>>
      BY <1>4, <2>1, Zenon DEF FreeSegment, s
    <3>2. next \in ThreadType
      BY DEF ThreadType, Pcs, Idle
    <3>3. elems' \in [Addrs -> ElemType]
      BY <3>1 DEF RegCacheTypeOK, ElemType
    <3>. HIDE DEF next, taken
    <3>4. refCount' \in [Segments -> Int]
      BY <3>1, CountType DEF RegCacheTypeOK
    <3>5. segToRegElems' \in [Segments -> SUBSET Addrs]
      BY <3>1 DEF RegCacheTypeOK
    <3>. QED
      BY <3>1, <3>2, <3>3, <3>4, <3>5 DEF RegCacheTypeOK
  <2>2. CASE ~LastHolder(s)
    <3>1. /\ refCount' = [refCount EXCEPT ![s] = @ - 1]
          /\ thread' = [thread EXCEPT ![t] = Idle]
          /\ UNCHANGED <<mode, queue, elems, segToRegElems>>
      BY <1>4, <2>2, Zenon DEF FreeSegment, s
    <3>2. s \in Segments => refCount[s] - 1 \in Int
      BY DEF RegCacheTypeOK
    <3>3. refCount' = [refCount EXCEPT ![s] = refCount[s] - 1]
      BY <3>1
    <3>4. refCount \in [Segments -> Int]
      BY DEF RegCacheTypeOK
    <3>5. refCount' \in [Segments -> Int]
      BY <3>2, <3>3, <3>4, CountType, Zenon
    <3>. QED
      BY <3>1, <3>5 DEF RegCacheTypeOK
  <2>. QED
    BY <2>1, <2>2
<1>5. CASE DeregElems(c)
  <2>1. NoElem \in ElemType
    BY DEF NoElem, ElemType
  <2>. QED
    BY <1>5, <2>1 DEF DeregElems, RegCacheTypeOK
<1>. QED
  BY <1>1, <1>2, <1>3, <1>4, <1>5

\* A collective, from its submission to its end, keeps the types.
LEMMA CollectiveTypes ==
    ASSUME RegCacheTypeOK, NEW c \in Comms,
           \/ \E buf \in mode.buffers : Collective(c, buf)
           \/ CollectiveStarts(c) \/ RegDynamic(c) \/ RegDynamicFails(c) \/ ExportMem(c)
           \/ CollectiveEnds(c) \/ CollectiveThrows(c) \/ DeregDynamic(c)
    PROVE  RegCacheTypeOK'
<1>. DEFINE t == Gpe(c)
<1>. /\ t \in Threads /\ thread[t] \in ThreadType /\ Idle \in ThreadType
     /\ thread \in [Threads -> ThreadType]
  BY ThreadIds, IdleType DEF RegCacheTypeOK
<1>0. NoElem \in ElemType
  BY DEF NoElem, ElemType
<1>1. ASSUME NEW buf \in mode.buffers, Collective(c, buf) PROVE RegCacheTypeOK'
  <2>1. buf \in SUBSET Segments
    BY DEF RegCacheTypeOK, ModeType, Buffers
  <2>2. [Idle EXCEPT !.pc = "queued", !.buf = buf] \in ThreadType
    BY <2>1 DEF ThreadType, Pcs, Idle
  <2>3. thread' \in [Threads -> ThreadType]
    BY <1>1, <2>2 DEF Collective
  <2>4. queue' \in Seq(SUBSET Segments)
    BY <1>1, <2>1, AppendProperties DEF Collective, RegCacheTypeOK
  <2>. QED
    BY <1>1, <2>3, <2>4 DEF Collective, RegCacheTypeOK, cacheVars
<1>2. CASE CollectiveStarts(c)
  <2>1. thread' \in [Threads -> ThreadType]
    BY <1>2, GotoTypes DEF CollectiveStarts, Pcs
  <2>. QED
    BY <1>2, <2>1 DEF CollectiveStarts, RegCacheTypeOK, cacheVars
<1>3. CASE RegDynamic(c)
  <2>1. PICK a \in Free :
          /\ NewElem(a, thread[t].buf, TRUE)
          /\ thread' = [thread EXCEPT ![t].pc = "use", ![t].hdl = a, ![t].list = {a}]
    BY <1>3 DEF RegDynamic
  <2>. DEFINE next == [thread[t] EXCEPT !.pc = "use", !.hdl = a, !.list = {a}]
  <2>2. a \in Addrs /\ thread[t].buf \subseteq Segments
    BY DEF Free, ThreadType
  <2>3. next \in ThreadType
    BY <2>2 DEF ThreadType, Pcs
  <2>4. thread' = [thread EXCEPT ![t] = next]
    BY <2>1, Zenon
  <2>5. elems' \in [Addrs -> ElemType]
    BY <2>1, <2>2 DEF NewElem, RegCacheTypeOK, ElemType
  <2>. HIDE DEF next
  <2>. QED
    BY <1>3, <2>3, <2>4, <2>5 DEF RegDynamic, RegCacheTypeOK
<1>4. CASE RegDynamicFails(c)
  BY <1>4 DEF RegDynamicFails, Failed, RegCacheTypeOK, cacheVars
<1>5. CASE ExportMem(c)
  BY <1>5 DEF ExportMem, RegCacheTypeOK, cacheVars
<1>6. CASE CollectiveEnds(c)
  <2>1. thread' \in [Threads -> ThreadType]
    <3>1. CASE NeedsDereg(t)
      BY <1>6, <3>1, GotoTypes DEF CollectiveEnds, Pcs
    <3>2. CASE ~NeedsDereg(t)
      BY <1>6, <3>2 DEF CollectiveEnds
    <3>. QED
      BY <3>1, <3>2
  <2>. QED
    BY <1>6, <2>1 DEF CollectiveEnds, RegCacheTypeOK, cacheVars
<1>7. CASE CollectiveThrows(c)
  BY <1>7 DEF CollectiveThrows, RegCacheTypeOK, cacheVars
<1>8. CASE DeregDynamic(c)
  BY <1>0, <1>8 DEF DeregDynamic, RegCacheTypeOK
<1>. QED
  BY <1>1, <1>2, <1>3, <1>4, <1>5, <1>6, <1>7, <1>8

LEMMA ProcessTypes ==
    ASSUME RegCacheTypeOK, TakeRequest \/ Destroy
    PROVE  RegCacheTypeOK'
<1>1. CASE TakeRequest
  <2>1. Head(queue) \in SUBSET Segments
    BY <1>1 DEF TakeRequest, RegCacheTypeOK
  <2>2. /\ [Idle EXCEPT !.pc = "ended"] \in ThreadType
        /\ [Idle EXCEPT !.pc = "search", !.buf = Head(queue)] \in ThreadType
    BY <2>1 DEF ThreadType, Pcs, Idle
  <2>3. Async \in Threads
    BY DEF Threads
  <2>4. thread' \in [Threads -> ThreadType]
    BY <1>1, <2>2, <2>3 DEF TakeRequest, RegCacheTypeOK
  <2>. QED
    BY <1>1, <2>4 DEF TakeRequest, RegCacheTypeOK, cacheVars
<1>2. CASE Destroy
  <2>1. queue' \in Seq(SUBSET Segments)
    BY <1>2, AppendProperties DEF Destroy, RegCacheTypeOK
  <2>2. NoElem \in ElemType
    BY DEF NoElem, ElemType
  <2>. QED
    BY <1>2, <2>1, <2>2 DEF Destroy, RegCacheTypeOK
<1>. QED
  BY <1>1, <1>2

LEMMA NextTypes == RegCacheTypeOK /\ RequestQueued /\ Next => RegCacheTypeOK'
BY RegRangeTypes, UserTypes, CollectiveTypes, ProcessTypes DEF Next

LEMMA StutterTypes == RegCacheInv /\ UNCHANGED vars => RegCacheInv'
BY DEF RegCacheInv, RegCacheTypeOK, RequestQueued, LinkedBack, RegisteredOnce, Cached, vars,
    cacheVars

-----------------------------------------------------------------------------
(* The request at the front of the queue.                                  *)

LEMMA NextRequestQueued ==
    ASSUME RegCacheTypeOK, RequestQueued, Next
    PROVE  RequestQueued'
<1>. Async \in Threads /\ thread \in [Threads -> ThreadType] /\ Idle.pc = "idle"
  BY DEF Threads, RegCacheTypeOK, Idle
<1>1. ASSUME NEW t \in Threads,
             FastPath(t) \/ FoundLate(t) \/ Register(t) \/ RegisterFails(t) \/ NotCached(t)
      PROVE  RequestQueued'
  <2>1. CASE t = Async
    <3>1. At(Async, "search") \/ At(Async, "slow")
      BY <1>1, <2>1 DEF FastPath, FoundLate, Register, RegisterFails, NotCached
    <3>2. queue # << >>
      BY <3>1 DEF At, RequestQueued
    <3>3. ASSUME NEW a, Resolve(t, a) PROVE thread'[Async].pc = "idle"
      <4>1. t[1] = "async"
        BY <2>1 DEF Async
      <4>. QED
        BY <2>1, <3>3, <4>1 DEF Resolve
    <3>4. (\E a : Resolve(t, a)) \/ queue' = queue
      BY <1>1, <2>1 DEF FastPath, FoundLate, Register, RegisterFails, Failed, NotCached
    <3>. QED
      BY <3>2, <3>3, <3>4 DEF RequestQueued
  <2>2. CASE t # Async
    <3>1. t[1] = "main" \/ t[1] = "gpe"
      BY <2>2 DEF Threads, Main, Gpe, Async
    <3>2. ASSUME NEW a, Resolve(t, a) PROVE queue' = queue /\ thread'[Async] = thread[Async]
      <4>1. queue' = queue
        BY <3>1, <3>2 DEF Resolve
      <4>2. CASE t[1] = "main"
        <5>1. thread' = [thread EXCEPT ![t] = Idle]
          BY <3>2, <4>2 DEF Resolve
        <5>. QED
          BY <2>2, <4>1, <5>1
      <4>3. CASE t[1] = "gpe"
        <5>1. PICK own : thread' = [thread EXCEPT ![t].pc = "use", ![t].hdl = a, ![t].own = own]
          BY <3>2, <4>3 DEF Resolve
        <5>. QED
          BY <2>2, <4>1, <5>1
      <4>. QED
        BY <3>1, <4>2, <4>3
    <3>3. queue' = queue /\ thread'[Async] = thread[Async]
      BY <1>1, <2>2, <3>2 DEF FastPath, FoundLate, Register, RegisterFails, Failed, NotCached, Goto
    <3>. QED
      BY <3>3 DEF RequestQueued
  <2>. QED
    BY <2>1, <2>2
<1>2. ASSUME NEW c \in Comms,
             \/ \E s \in Segments : RegMem(c, s) \/ DeregMem(c, s)
             \/ Release(c) \/ FreeSegment(c) \/ DeregElems(c)
             \/ \E buf \in mode.buffers : Collective(c, buf)
             \/ CollectiveStarts(c) \/ RegDynamic(c) \/ RegDynamicFails(c) \/ ExportMem(c)
             \/ CollectiveEnds(c) \/ CollectiveThrows(c) \/ DeregDynamic(c)
      PROVE  RequestQueued'
  <2>1. thread'[Async] = thread[Async]
    BY <1>2, ThreadIds DEF RegMem, DeregMem, Release, FreeSegment, DeregElems, Collective,
       CollectiveStarts, RegDynamic, RegDynamicFails, Failed, ExportMem, CollectiveEnds,
       CollectiveThrows, DeregDynamic, Goto
  <2>2. queue' = queue \/ \E buf : queue' = Append(queue, buf)
    BY <1>2 DEF RegMem, DeregMem, Release, FreeSegment, DeregElems, Collective,
       CollectiveStarts, RegDynamic, RegDynamicFails, Failed, ExportMem, CollectiveEnds,
       CollectiveThrows, DeregDynamic, Goto
  <2>. QED
    BY <2>1, <2>2 DEF RequestQueued, RegCacheTypeOK
<1>3. CASE TakeRequest
  <2>1. queue' = queue /\ queue # << >>
    BY <1>3 DEF TakeRequest
  <2>. QED
    BY <2>1 DEF RequestQueued
<1>4. CASE Destroy
  <2>1. thread' = thread /\ (queue' = queue \/ queue' = Append(queue, {}))
    BY <1>4 DEF Destroy
  <2>. QED
    BY <2>1 DEF RequestQueued, RegCacheTypeOK
<1>. QED
  BY <1>1, <1>2, <1>3, <1>4 DEF Next

-----------------------------------------------------------------------------
(* The cache.                                                              *)

Findable(a) == Cached(a) /\ ~elems[a].dynamic

LEMMA NextCache ==
    ASSUME RegCacheTypeOK, LinkedBack, RegisteredOnce, Next
    PROVE  LinkedBack' /\ RegisteredOnce'
\* Steps that leave the tables alone.
<1>1. CASE UNCHANGED cacheVars
  BY <1>1 DEF cacheVars, LinkedBack, RegisteredOnce, Cached
\* Steps that only take regElems out, or add a dynamic one.
<1>2. ASSUME UNCHANGED <<refCount, segToRegElems>>,
             \A a \in Addrs : Findable(a)' => Findable(a) /\ elems'[a] = elems[a]
      PROVE  LinkedBack' /\ RegisteredOnce'
  BY <1>2 DEF LinkedBack, RegisteredOnce, Findable, Cached
<1>3. ASSUME NEW t \in Threads, Register(t) PROVE LinkedBack' /\ RegisteredOnce'
  <2>. DEFINE buf == thread[t].buf
  <2>1. PICK a \in Free : /\ NewElem(a, buf, FALSE)
                          /\ segToRegElems' = [s \in Segments |->
                                IF s \in Linked(buf) THEN segToRegElems[s] \cup {a}
                                ELSE segToRegElems[s]]
    BY <1>3 DEF Register
  <2>2. /\ FoundAgain(buf) = {} /\ UNCHANGED refCount
        /\ \A s \in buf : refCount[s] > 0
    BY <1>3 DEF Register
  <2>3. buf \subseteq Segments /\ a \in Addrs
    BY DEF RegCacheTypeOK, ThreadType, Free
  <2>4. /\ elems'[a] = [state |-> "cached", segs |-> buf, dynamic |-> FALSE]
        /\ \A b \in Addrs : b # a => elems'[b] = elems[b]
    BY <2>1, <2>3 DEF NewElem, RegCacheTypeOK
  <2>5. ASSUME NEW b \in Addrs, Findable(b) PROVE elems[b].segs # buf
    BY <2>2, <2>5 DEF FoundAgain, Found, Findable
  <2>6. \A b \in Addrs : Findable(b) => elems[b].segs \subseteq Segments
    BY DEF RegCacheTypeOK, ElemType
  <2>7. RegisteredOnce'
    BY <2>4, <2>5 DEF RegisteredOnce, Findable, Cached
  <2>8. LinkedBack'
    BY <2>1, <2>2, <2>3, <2>4, <2>6 DEF LinkedBack, Findable, Cached, Linked
  <2>. QED
    BY <2>7, <2>8
<1>4. ASSUME NEW c \in Comms, NEW s \in Segments, RegMem(c, s)
      PROVE  LinkedBack' /\ RegisteredOnce'
  <2>1. UNCHANGED <<elems, segToRegElems>> /\ refCount' = [refCount EXCEPT ![s] = refCount[s] + 1]
    BY <1>4 DEF RegMem
  <2>2. \A r \in Segments : refCount[r] \in Int
    BY DEF RegCacheTypeOK
  <2>3. \A r \in Segments : refCount[r] > 0 => refCount'[r] > 0
    BY <2>1, <2>2 DEF RegCacheTypeOK
  <2>4. \A a \in Addrs : elems[a].segs \subseteq Segments
    BY DEF RegCacheTypeOK, ElemType
  <2>. QED
    BY <2>1, <2>3, <2>4 DEF LinkedBack, RegisteredOnce, Cached
<1>5. ASSUME NEW c \in Comms, FreeSegment(c) PROVE LinkedBack' /\ RegisteredOnce'
  <2>. DEFINE s == CHOOSE x \in thread[Main(c)].buf : TRUE
              taken == {a \in Addrs : Cached(a) /\ a \in segToRegElems[s]}
  <2>. HIDE DEF s
  <2>1. \A a \in Addrs : elems[a].segs \subseteq Segments
    BY DEF RegCacheTypeOK, ElemType
  <2>2. \A r \in Segments : refCount[r] \in Int
    BY DEF RegCacheTypeOK
  <2>3. CASE LastHolder(s)
    <3>1. /\ refCount' = [refCount EXCEPT ![s] = 0]
          /\ elems' = [a \in Addrs |->
                 IF a \in taken THEN [elems[a] EXCEPT !.state = "leaving"] ELSE elems[a]]
          /\ segToRegElems' = [segToRegElems EXCEPT ![s] = {}]
      BY <1>5, <2>3, Zenon DEF FreeSegment, s
    <3>2. \A a \in Addrs : Findable(a)' => Findable(a) /\ elems'[a] = elems[a] /\ a \notin taken
      BY <3>1 DEF Findable, Cached, RegCacheTypeOK, ElemType
    <3>3. \A a \in Addrs : Findable(a)' => s \notin elems[a].segs
      BY <3>2 DEF LinkedBack, Findable
    <3>4. \A r \in Segments : r # s =>
              refCount'[r] = refCount[r] /\ segToRegElems'[r] = segToRegElems[r]
      BY <3>1 DEF RegCacheTypeOK
    <3>5. LinkedBack'
      BY <2>1, <3>2, <3>3, <3>4 DEF LinkedBack, Findable, Cached
    <3>6. RegisteredOnce'
      BY <3>2 DEF RegisteredOnce, Findable, Cached
    <3>. QED
      BY <3>5, <3>6
  <2>4. CASE ~LastHolder(s)
    <3>1. /\ refCount' = [refCount EXCEPT ![s] = refCount[s] - 1]
          /\ UNCHANGED <<elems, segToRegElems>>
      BY <1>5, <2>4, Zenon DEF FreeSegment, s
    <3>2. \A r \in Segments : refCount[r] > 0 => refCount'[r] > 0
      BY <2>2, <2>4, <3>1 DEF LastHolder, RegCacheTypeOK
    <3>. QED
      BY <2>1, <3>1, <3>2 DEF LinkedBack, RegisteredOnce, Cached
  <2>. QED
    BY <2>3, <2>4
<1>6. ASSUME NEW c \in Comms, DeregElems(c) PROVE LinkedBack' /\ RegisteredOnce'
  <2>1. \A a \in Addrs : Findable(a)' => Findable(a) /\ elems'[a] = elems[a]
    BY <1>6 DEF DeregElems, Findable, Cached, NoElem
  <2>. QED
    BY <1>2, <1>6, <2>1 DEF DeregElems
<1>7. ASSUME NEW c \in Comms, RegDynamic(c) PROVE LinkedBack' /\ RegisteredOnce'
  <2>1. \A a \in Addrs : Findable(a)' => Findable(a) /\ elems'[a] = elems[a]
    BY <1>7 DEF RegDynamic, NewElem, Findable, Cached, RegCacheTypeOK
  <2>. QED
    BY <1>2, <1>7, <2>1 DEF RegDynamic
<1>8. ASSUME NEW c \in Comms, DeregDynamic(c) PROVE LinkedBack' /\ RegisteredOnce'
  <2>1. \A a \in Addrs : Findable(a)' => Findable(a) /\ elems'[a] = elems[a]
    BY <1>8 DEF DeregDynamic, Findable, Cached, NoElem, RegCacheTypeOK
  <2>. QED
    BY <1>2, <1>8, <2>1 DEF DeregDynamic
<1>9. CASE Destroy
  BY <1>9 DEF Destroy, LinkedBack, RegisteredOnce, Cached, NoElem
<1>. QED
  <2>1. ASSUME NEW t \in Threads,
               FastPath(t) \/ FoundLate(t) \/ RegisterFails(t) \/ NotCached(t)
        PROVE  UNCHANGED cacheVars
    BY <2>1 DEF FastPath, FoundLate, RegisterFails, NotCached
  <2>2. ASSUME NEW c \in Comms,
               \/ \E s \in Segments : DeregMem(c, s)
               \/ \E buf \in mode.buffers : Collective(c, buf)
               \/ Release(c) \/ CollectiveStarts(c) \/ RegDynamicFails(c) \/ ExportMem(c)
               \/ CollectiveEnds(c) \/ CollectiveThrows(c)
        PROVE  UNCHANGED cacheVars
    BY <2>2 DEF DeregMem, Collective, Release, CollectiveStarts, RegDynamicFails, ExportMem,
       CollectiveEnds, CollectiveThrows
  <2>3. TakeRequest => UNCHANGED cacheVars
    BY DEF TakeRequest
  <2>. QED
    BY <1>1, <1>3, <1>4, <1>5, <1>6, <1>7, <1>8, <1>9, <2>1, <2>2, <2>3 DEF Next

-----------------------------------------------------------------------------
(* The theorems.                                                           *)

\* The invariant: types, the asynchronous thread's request stays queued, what freeSegment
\* relies on, and no range twice (CtranMapperRegMem.cc: regRange, freeSegment).
THEOREM RegCacheInvariant == Spec => []RegCacheInv
<1>1. RegCacheInv /\ [Next]_vars => RegCacheInv'
  BY NextTypes, NextRequestQueued, NextCache, StutterTypes DEF RegCacheInv
<1>. QED
  BY InitRegCacheInv, <1>1, PTL DEF Spec

\* Whatever search returns covers only segments that are still cached, however frees,
\* collectives and the asynchronous thread interleave.
THEOREM SearchFindsCachedSegments == Spec => []CoveredByCache
<1>1. RegCacheInv => CoveredByCache
  BY DEF RegCacheInv, LinkedBack, CoveredByCache
<1>. QED
  BY RegCacheInvariant, <1>1, PTL

\* Threads that miss the cache together register the range once.
THEOREM EachRangeRegisteredOnce == Spec => []RegisteredOnce
<1>1. RegCacheInv => RegisteredOnce
  BY DEF RegCacheInv
<1>. QED
  BY RegCacheInvariant, <1>1, PTL

-----------------------------------------------------------------------------
(* Who uses what.  Findable regElems belong to cached segments, dynamic    *)
(* ones to the collective that made them, and the others to the thread     *)
(* that deregisters them.                                                  *)

\* The main thread of a communicator works on a segment its user has no handle of.
Working == {"search", "slow", "release", "free"}
AtWork(c, s) == thread[Main(c)].pc \in Working /\ s \in thread[Main(c)].buf
Holders(s) == {c \in Comms : s \in held[c] \/ AtWork(c, s)}

CommTypeOK ==
    /\ held \in [Comms -> SUBSET Segments]
    /\ exported \in [Comms -> SUBSET (Addrs \cup {NoAddr})]

WorksOnOne ==
    \A c \in Comms : thread[Main(c)].pc \in Working =>
        \E s \in Segments : thread[Main(c)].buf = {s} /\ s \notin held[c]

InUsePcs == {"use", "dereg"}
GpeSound ==
    /\ \A c \in Comms :
        LET g == thread[Gpe(c)] IN
        /\ g.pc # "idle" => g.buf # {}
        /\ g.pc \notin InUsePcs => g.list = {} /\ ~g.own
        /\ g.pc = "dereg" => g.list # {}
    /\ thread[Async].pc \in {"search", "slow"} => thread[Async].buf # {}

\* After destroy only the asynchronous thread runs, and registers nothing.
Resting ==
    destroyed =>
        /\ \A c \in Comms : thread[Main(c)].pc = "idle" /\ thread[Gpe(c)].pc = "idle"
        /\ \A a \in Addrs : elems[a].state = "none"
        /\ \A s \in Segments : refCount[s] = 0

\* A segment is counted once for each communicator that holds it, and once more for a
\* registration in regMem that failed.
Counted ==
    ~destroyed => \A s \in Segments :
        /\ refCount[s] >= Cardinality(Holders(s))
        /\ ~failed => refCount[s] = Cardinality(Holders(s))

\* Nothing is left behind.
DynamicOwned ==
    ~aborted => \A a \in Addrs : Cached(a) /\ elems[a].dynamic =>
        \E c \in Comms : thread[Gpe(c)].pc \in InUsePcs /\ Dynamic(Gpe(c)) /\ thread[Gpe(c)].hdl = a
LeavingOwned ==
    \A a \in Addrs : elems[a].state = "leaving" =>
        \E c \in Comms : thread[Main(c)].pc = "deregister" /\ a \in thread[Main(c)].list

UsageSound == WorksOnOne /\ GpeSound /\ Resting /\ Counted /\ DynamicOwned /\ LeavingOwned

UseInv == RegCacheInv /\ CommTypeOK /\ UsageSound

\* While no registration spans two segments: tables and regElems agree.
TablesAgree ==
    /\ \A s \in Segments : \A a \in segToRegElems[s] : Findable(a) /\ elems[a].segs = {s}
    /\ \A a \in Addrs : Findable(a) => \E s \in Segments : elems[a].segs = {s}

\* The threads that deregister do not share a regElem.
ListsApart ==
    /\ \A c \in Comms : thread[Main(c)].pc = "deregister" =>
        \A a \in thread[Main(c)].list : elems[a].state = "leaving"
    /\ \A c, d \in Comms :
        c # d /\ thread[Main(c)].pc = "deregister" /\ thread[Main(d)].pc = "deregister" =>
        thread[Main(c)].list \cap thread[Main(d)].list = {}

\* Nor do collectives share a dynamic one.
DynamicHeld ==
    /\ \A c \in Comms : thread[Gpe(c)].pc \in InUsePcs /\ Dynamic(Gpe(c)) =>
        LET a == thread[Gpe(c)].hdl IN
        a \in Addrs /\ Cached(a) /\ elems[a].dynamic /\ elems[a].segs = thread[Gpe(c)].buf
    /\ \A c, d \in Comms :
        /\ c # d /\ thread[Gpe(c)].pc \in InUsePcs /\ Dynamic(Gpe(c))
        /\ thread[Gpe(d)].pc \in InUsePcs /\ Dynamic(Gpe(d))
        => thread[Gpe(c)].hdl # thread[Gpe(d)].hdl

OwnHeld ==
    \A c \in Comms : At(Gpe(c), "use") /\ thread[Gpe(c)].own /\ ~Dynamic(Gpe(c)) =>
        LET a == thread[Gpe(c)].hdl IN
        /\ thread[Gpe(c)].buf \subseteq held[c]
        /\ a \in Addrs /\ Findable(a) /\ elems[a].segs = thread[Gpe(c)].buf

\* What a communicator exported is of a segment its user holds or is about to release,
\* or a dynamic regElem: of its own running collective, or of one that threw.
ExportsOwned ==
    \A c \in Comms \ borrowed : \A a \in exported[c] :
        /\ a \in Addrs /\ Cached(a)
        /\ elems[a].dynamic => \A d \in Comms :
               thread[Gpe(d)].pc \in InUsePcs /\ Dynamic(Gpe(d)) /\ thread[Gpe(d)].hdl = a =>
               d = c /\ thread[Gpe(d)].pc = "use"
        /\ ~elems[a].dynamic =>
               \/ elems[a].segs \subseteq held[c]
               \/ /\ thread[Main(c)].pc = "release" /\ a \in thread[Main(c)].list
                  /\ elems[a].segs = thread[Main(c)].buf

SingleInv == TablesAgree /\ ListsApart /\ DynamicHeld /\ OwnHeld /\ ExportsOwned

HeldInv == UseInv /\ (spanned \/ destroyed \/ SingleInv)

-----------------------------------------------------------------------------
(* The moves of one thread.                                                *)

LEMMA MainMoves ==
    ASSUME RegCacheTypeOK, NEW c \in Comms, NEW r, thread' = [thread EXCEPT ![Main(c)] = r]
    PROVE  /\ thread'[Main(c)] = r /\ thread'[Async] = thread[Async]
           /\ \A d \in Comms : thread'[Gpe(d)] = thread[Gpe(d)]
           /\ \A d \in Comms : d # c => thread'[Main(d)] = thread[Main(d)]
BY DEF RegCacheTypeOK, Threads, Main, Gpe, Async

LEMMA GpeMoves ==
    ASSUME RegCacheTypeOK, NEW c \in Comms, NEW r, thread' = [thread EXCEPT ![Gpe(c)] = r]
    PROVE  /\ thread'[Gpe(c)] = r /\ thread'[Async] = thread[Async]
           /\ \A d \in Comms : thread'[Main(d)] = thread[Main(d)]
           /\ \A d \in Comms : d # c => thread'[Gpe(d)] = thread[Gpe(d)]
BY DEF RegCacheTypeOK, Threads, Main, Gpe, Async

LEMMA AsyncMoves ==
    ASSUME RegCacheTypeOK, NEW r, thread' = [thread EXCEPT ![Async] = r]
    PROVE  /\ thread'[Async] = r
           /\ \A d \in Comms : thread'[Main(d)] = thread[Main(d)] /\ thread'[Gpe(d)] = thread[Gpe(d)]
BY DEF RegCacheTypeOK, Threads, Main, Gpe, Async

\* Which thread a regRange is run by, and what becomes of it.
RangeSteps(t) == FastPath(t) \/ FoundLate(t) \/ Register(t) \/ RegisterFails(t) \/ NotCached(t)

LEMMA ThreadTypes ==
    ASSUME RegCacheTypeOK, NEW t \in Threads
    PROVE  thread[t] \in ThreadType
BY DEF RegCacheTypeOK

LEMMA RangeFrame ==
    ASSUME RegCacheTypeOK, NEW t \in Threads, RangeSteps(t)
    PROVE  /\ UNCHANGED <<mode, refCount, exported, colls, destroyed, aborted, borrowed>>
           /\ thread[t].pc \in {"search", "slow"}
           /\ failed => failed'
           /\ Register(t) \/ UNCHANGED <<elems, segToRegElems>>
<1>1. CASE FastPath(t)
  BY <1>1 DEF FastPath, At, cacheVars, historyVars
<1>2. CASE FoundLate(t)
  BY <1>2 DEF FoundLate, At, cacheVars, historyVars
<1>3. CASE Register(t)
  BY <1>3 DEF Register, At
<1>4. CASE RegisterFails(t)
  BY <1>4 DEF RegisterFails, At, Failed, Failure, cacheVars, commVars
<1>5. CASE NotCached(t)
  BY <1>5 DEF NotCached, At, cacheVars, historyVars
<1>. QED
  BY <1>1, <1>2, <1>3, <1>4, <1>5 DEF RangeSteps

\* A regElem is made of a free address.
LEMMA RegisterMakes ==
    ASSUME RegCacheTypeOK, NEW t \in Threads, Register(t)
    PROVE  \E a \in Addrs :
             /\ elems[a].state = "none" /\ Resolve(t, a)
             /\ elems'[a] = [state |-> "cached", segs |-> thread[t].buf, dynamic |-> FALSE]
             /\ \A b \in Addrs : b # a => elems'[b] = elems[b]
             /\ segToRegElems' = [s \in Segments |->
                    IF s \in thread[t].buf THEN segToRegElems[s] \cup {a} ELSE segToRegElems[s]]
             /\ \A s \in thread[t].buf : refCount[s] > 0
             /\ spanned' = (spanned \/ Cardinality(thread[t].buf) > 1)
<1>1. PICK a \in Free : /\ NewElem(a, thread[t].buf, FALSE) /\ Resolve(t, a)
                        /\ segToRegElems' = [s \in Segments |->
                              IF s \in Linked(thread[t].buf) THEN segToRegElems[s] \cup {a}
                              ELSE segToRegElems[s]]
  BY DEF Register
<1>2. a \in Addrs /\ elems[a].state = "none" /\ elems \in [Addrs -> ElemType]
  BY DEF Free, RegCacheTypeOK
<1>. QED
  BY <1>1, <1>2 DEF Register, NewElem, Linked

LEMMA MainRange ==
    ASSUME RegCacheTypeOK, NEW c \in Comms, RangeSteps(Main(c))
    PROVE  \E r \in ThreadType :
             /\ thread' = [thread EXCEPT ![Main(c)] = r]
             /\ \/ r.pc = "slow" /\ r.buf = thread[Main(c)].buf /\ held' = held
                \/ r = Idle /\ held' = [held EXCEPT ![c] = @ \cup thread[Main(c)].buf]
                \/ r = Idle /\ held' = held /\ failed' = TRUE
<1>. DEFINE t == Main(c)
<1>1. t \in Threads /\ thread[t] \in ThreadType /\ t[1] = "main" /\ t[2] = c /\ Idle \in ThreadType
  BY ThreadIds, IdleType DEF RegCacheTypeOK, Main
<1>2. ASSUME NEW a, Resolve(t, a)
      PROVE  thread' = [thread EXCEPT ![t] = Idle] /\ held' = [held EXCEPT ![c] = @ \cup thread[t].buf]
  BY <1>1, <1>2 DEF Resolve
<1>3. ASSUME Goto(t, "slow")
      PROVE  \E r \in ThreadType : /\ thread' = [thread EXCEPT ![t] = r]
                                   /\ r.pc = "slow" /\ r.buf = thread[t].buf
  <2>1. [thread[t] EXCEPT !.pc = "slow"] \in ThreadType
    BY <1>1 DEF ThreadType, Pcs
  <2>. QED
    BY <1>1, <1>3, <2>1 DEF Goto, ThreadType
<1>4. CASE RegisterFails(t)
  BY <1>1, <1>4 DEF RegisterFails, Failed, Failure, commVars
<1>5. CASE FastPath(t) /\ Goto(t, "slow") /\ held' = held
  BY <1>3, <1>5
<1>6. CASE \E a : Resolve(t, a)
  BY <1>1, <1>2, <1>6
<1>. QED
  BY <1>1, <1>4, <1>5, <1>6 DEF RangeSteps, FastPath, FoundLate, Register, NotCached

LEMMA GpeRange ==
    ASSUME RegCacheTypeOK, NEW c \in Comms, RangeSteps(Gpe(c))
    PROVE  \E r \in ThreadType :
             /\ thread' = [thread EXCEPT ![Gpe(c)] = r] /\ held' = held
             /\ \/ /\ r.pc \in {"slow", "dynamic"} /\ ~Register(Gpe(c))
                   /\ r.buf = thread[Gpe(c)].buf /\ r.list = thread[Gpe(c)].list
                   /\ r.own = thread[Gpe(c)].own
                \/ r = Idle /\ ~Register(Gpe(c))
                \/ /\ r.pc = "use" /\ r.buf = thread[Gpe(c)].buf /\ r.list = thread[Gpe(c)].list
                   /\ r.own <=> thread[Gpe(c)].buf \subseteq held[c]
                   /\ \/ Register(Gpe(c)) /\ Resolve(Gpe(c), r.hdl)
                      \/ ~Register(Gpe(c)) /\ r.hdl \in Found(thread[Gpe(c)].buf)
<1>. DEFINE t == Gpe(c)
<1>1. t \in Threads /\ thread[t] \in ThreadType /\ t[1] = "gpe" /\ t[2] = c /\ Idle \in ThreadType
  BY ThreadIds, IdleType DEF RegCacheTypeOK, Gpe
<1>2. ASSUME NEW a \in Addrs, Resolve(t, a)
      PROVE  \E r \in ThreadType :
               /\ thread' = [thread EXCEPT ![t] = r] /\ held' = held
               /\ r.pc = "use" /\ r.buf = thread[t].buf /\ r.list = thread[t].list /\ r.hdl = a
               /\ r.own <=> thread[t].buf \subseteq held[c]
  <2>1. PICK own \in BOOLEAN : own <=> thread[t].buf \subseteq held[c]
    OBVIOUS
  <2>2. own = (thread[t].buf \subseteq held[c])
    BY <2>1
  <2>. DEFINE r == [thread[t] EXCEPT !.pc = "use", !.hdl = a, !.own = own]
  <2>3. thread' = [thread EXCEPT ![t] = r] /\ held' = held
    BY <1>1, <1>2, <2>2, Zenon DEF Resolve
  <2>4. r \in ThreadType /\ r.pc = "use" /\ r.buf = thread[t].buf /\ r.list = thread[t].list
        /\ r.hdl = a /\ r.own = own
    BY <1>1, <2>1 DEF ThreadType, Pcs
  <2>. HIDE DEF r
  <2>. QED
    BY <2>1, <2>3, <2>4
<1>3. ASSUME NEW pc \in {"slow", "dynamic"}, Goto(t, pc)
      PROVE  \E r \in ThreadType :
               /\ thread' = [thread EXCEPT ![t] = r]
               /\ r.pc = pc /\ r.buf = thread[t].buf /\ r.list = thread[t].list /\ r.own = thread[t].own
  <2>. DEFINE r == [thread[t] EXCEPT !.pc = pc]
  <2>1. r \in ThreadType /\ r.pc = pc /\ r.buf = thread[t].buf /\ r.list = thread[t].list
        /\ r.own = thread[t].own
    BY <1>1 DEF ThreadType, Pcs
  <2>. QED
    BY <1>3, <2>1 DEF Goto
<1>4. Found(thread[t].buf) \subseteq Addrs /\ FoundAgain(thread[t].buf) = Found(thread[t].buf)
  BY DEF Found, FoundAgain
<1>5. CASE FastPath(t)
  <2>1. ~Register(t)
    BY <1>5 DEF FastPath, Register, At
  <2>2. \/ \E a \in Found(thread[t].buf) : Resolve(t, a)
        \/ Goto(t, "slow") /\ held' = held
    BY <1>5 DEF FastPath
  <2>3. CASE \E a \in Found(thread[t].buf) : Resolve(t, a)
    <3>1. PICK a \in Found(thread[t].buf) : Resolve(t, a)
      BY <2>3
    <3>. QED
      BY <1>2, <1>4, <2>1, <3>1
  <2>4. CASE Goto(t, "slow") /\ held' = held
    BY <1>3, <2>1, <2>4
  <2>. QED
    BY <2>2, <2>3, <2>4
<1>6. CASE FoundLate(t)
  <2>1. PICK a \in Found(thread[t].buf) : Resolve(t, a)
    BY <1>4, <1>6 DEF FoundLate
  <2>2. ~Register(t)
    BY <1>4, <2>1 DEF Register
  <2>. QED
    BY <1>2, <1>4, <2>1, <2>2
<1>7. CASE Register(t)
  <2>1. PICK a \in Addrs : Resolve(t, a)
    BY <1>1, <1>7, RegisterMakes
  <2>. QED
    BY <1>2, <1>7, <2>1
<1>8. CASE RegisterFails(t) /\ ~Register(t)
  BY <1>1, <1>8 DEF RegisterFails, Failed, commVars
<1>9. CASE NotCached(t)
  <2>1. ~Register(t)
    <3>1. \E s \in thread[t].buf : refCount[s] = 0
      BY <1>9 DEF NotCached
    <3>2. Register(t) => \A s \in thread[t].buf : refCount[s] > 0
      BY DEF Register
    <3>. QED
      BY <3>1, <3>2
  <2>. QED
    BY <1>1, <1>3, <1>9, <2>1 DEF NotCached
<1>. QED
  BY <1>5, <1>6, <1>7, <1>8, <1>9 DEF RangeSteps

LEMMA AsyncRange ==
    ASSUME RegCacheTypeOK, RangeSteps(Async)
    PROVE  \E r \in ThreadType :
             /\ thread' = [thread EXCEPT ![Async] = r] /\ held' = held
             /\ (r.pc = "slow" /\ r.buf = thread[Async].buf) \/ r = Idle
<1>. DEFINE t == Async
<1>1. t \in Threads /\ thread[t] \in ThreadType /\ t[1] = "async" /\ Idle \in ThreadType
  BY IdleType DEF RegCacheTypeOK, Async, Threads
<1>2. ASSUME NEW a, Resolve(t, a)
      PROVE  thread' = [thread EXCEPT ![t] = Idle] /\ held' = held
  BY <1>1, <1>2 DEF Resolve
<1>3. ASSUME Goto(t, "slow")
      PROVE  \E r \in ThreadType : /\ thread' = [thread EXCEPT ![t] = r]
                                   /\ r.pc = "slow" /\ r.buf = thread[t].buf
  <2>1. [thread[t] EXCEPT !.pc = "slow"] \in ThreadType
    BY <1>1 DEF ThreadType, Pcs
  <2>. QED
    BY <1>1, <1>3, <2>1 DEF Goto, ThreadType
<1>4. ~RegisterFails(t)
  BY DEF RegisterFails, Failed
<1>5. CASE FastPath(t) /\ Goto(t, "slow") /\ held' = held
  BY <1>3, <1>5
<1>6. CASE \E a : Resolve(t, a)
  BY <1>1, <1>2, <1>6
<1>. QED
  BY <1>1, <1>4, <1>5, <1>6 DEF RangeSteps, FastPath, FoundLate, Register, NotCached

-----------------------------------------------------------------------------
(* The counts.                                                             *)

LEMMA HoldersFinite ==
    ASSUME NEW s
    PROVE  IsFiniteSet(Holders(s)) /\ Cardinality(Holders(s)) \in Nat /\ Holders(s) \subseteq Comms
<1>1. Holders(s) \subseteq Comms
  BY DEF Holders
<1>. QED
  BY <1>1, RegCacheAssumption, FS_Subset, FS_CardinalityType

\* A step of one main thread: the other communicators hold what they held.
LEMMA HoldersMove ==
    ASSUME RegCacheTypeOK, NEW c \in Comms, NEW r, NEW s, thread' = [thread EXCEPT ![Main(c)] = r],
           \A d \in Comms : d # c => held'[d] = held[d]
    PROVE  /\ Holders(s)' \subseteq Comms
           /\ \A d \in Comms : d # c => (d \in Holders(s)' <=> d \in Holders(s))
           /\ c \in Holders(s)' <=> s \in held'[c] \/ (r.pc \in Working /\ s \in r.buf)
<1>1. thread'[Main(c)] = r /\ \A d \in Comms : d # c => thread'[Main(d)] = thread[Main(d)]
  BY MainMoves
<1>2. Holders(s)' = {d \in Comms : s \in held'[d] \/ (thread'[Main(d)].pc \in Working /\ s \in thread'[Main(d)].buf)}
  BY DEF Holders, AtWork
<1>3. Holders(s) = {d \in Comms : s \in held[d] \/ (thread[Main(d)].pc \in Working /\ s \in thread[Main(d)].buf)}
  BY DEF Holders, AtWork
<1>. QED
  BY <1>1, <1>2, <1>3

\* A step that counts nothing keeps the counts, if who loses a segment has failed.
Keeps(c, r) ==
    /\ thread' = [thread EXCEPT ![Main(c)] = r]
    /\ \A d \in Comms : d # c => held'[d] = held[d]
    /\ UNCHANGED refCount
    /\ ~destroyed
    /\ failed => failed'
    /\ \A s \in Segments :
           /\ s \in held'[c] \/ (r.pc \in Working /\ s \in r.buf) => c \in Holders(s)
           /\ ~failed' /\ c \in Holders(s) => s \in held'[c] \/ (r.pc \in Working /\ s \in r.buf)

LEMMA CountKept ==
    ASSUME UseInv, NEW c \in Comms, NEW r, Keeps(c, r)
    PROVE  Counted'
<1>. USE DEF Keeps
<1>. SUFFICES ASSUME NEW s \in Segments
              PROVE  /\ refCount[s] >= Cardinality(Holders(s)')
                     /\ ~failed' => refCount[s] = Cardinality(Holders(s)')
  BY DEF Counted
<1>1. /\ refCount[s] >= Cardinality(Holders(s)) /\ refCount[s] \in Int
      /\ ~failed => refCount[s] = Cardinality(Holders(s))
  BY DEF UseInv, UsageSound, Counted, RegCacheInv, RegCacheTypeOK
<1>2. /\ Holders(s)' \subseteq Comms
      /\ \A d \in Comms : d # c => (d \in Holders(s)' <=> d \in Holders(s))
      /\ c \in Holders(s)' <=> s \in held'[c] \/ (r.pc \in Working /\ s \in r.buf)
  BY HoldersMove DEF UseInv, RegCacheInv
<1>3. Holders(s)' \subseteq Holders(s)
  BY <1>2
<1>4. Cardinality(Holders(s)') <= Cardinality(Holders(s)) /\ IsFiniteSet(Holders(s)')
  BY <1>3, HoldersFinite, FS_Subset
<1>5. Cardinality(Holders(s)') \in Nat /\ Cardinality(Holders(s)) \in Nat
  BY <1>4, HoldersFinite, FS_CardinalityType
<1>6. ~failed' => Holders(s)' = Holders(s)
  <2>1. ~failed' => (c \in Holders(s)' <=> c \in Holders(s))
    BY <1>2
  <2>. QED
    BY <1>2, <2>1, HoldersFinite
<1>. QED
  BY <1>1, <1>4, <1>5, <1>6

\* cacheSegment counts the communicator that did not hold the segment.
TakesOne(c, r, x) ==
    /\ thread' = [thread EXCEPT ![Main(c)] = r]
    /\ refCount' = [refCount EXCEPT ![x] = @ + 1]
    /\ \A d \in Comms : d # c => held'[d] = held[d]
    /\ ~destroyed
    /\ UNCHANGED failed
    /\ c \notin Holders(x)
    /\ \A s \in Segments : s \in held'[c] \/ (r.pc \in Working /\ s \in r.buf) <=> s = x \/ c \in Holders(s)

LEMMA CountMore ==
    ASSUME UseInv, NEW c \in Comms, NEW r, NEW x \in Segments, TakesOne(c, r, x)
    PROVE  Counted'
<1>. USE DEF TakesOne
<1>. SUFFICES ASSUME NEW s \in Segments
              PROVE  /\ refCount'[s] >= Cardinality(Holders(s)')
                     /\ ~failed => refCount'[s] = Cardinality(Holders(s)')
  BY DEF Counted
<1>1. /\ refCount[s] >= Cardinality(Holders(s)) /\ refCount[s] \in Int
      /\ ~failed => refCount[s] = Cardinality(Holders(s))
      /\ refCount'[s] = IF s = x THEN refCount[s] + 1 ELSE refCount[s]
  BY DEF UseInv, UsageSound, Counted, RegCacheInv, RegCacheTypeOK
<1>2. /\ Holders(s)' \subseteq Comms
      /\ \A d \in Comms : d # c => (d \in Holders(s)' <=> d \in Holders(s))
      /\ c \in Holders(s)' <=> s = x \/ c \in Holders(s)
  BY HoldersMove DEF UseInv, RegCacheInv
<1>3. IsFiniteSet(Holders(s)) /\ Cardinality(Holders(s)) \in Nat /\ Holders(s) \subseteq Comms
  BY HoldersFinite
<1>4. CASE s = x
  <2>1. Holders(s)' = Holders(s) \cup {c} /\ c \notin Holders(s)
    BY <1>2, <1>3, <1>4
  <2>2. Cardinality(Holders(s) \cup {c}) = Cardinality(Holders(s)) + 1
    BY <1>3, <2>1, FS_AddElement
  <2>. QED
    BY <1>1, <1>3, <1>4, <2>1, <2>2
<1>5. CASE s # x
  <2>1. Holders(s)' = Holders(s)
    BY <1>2, <1>3, <1>5
  <2>. QED
    BY <1>1, <1>5, <2>1
<1>. QED
  BY <1>4, <1>5

\* freeSegment gives one count back.
GivesBack(c, r, x) ==
    /\ thread' = [thread EXCEPT ![Main(c)] = r]
    /\ refCount' = [refCount EXCEPT ![x] = @ - 1]
    /\ held' = held
    /\ ~destroyed
    /\ UNCHANGED failed
    /\ c \in Holders(x)
    /\ r.pc \notin Working
    /\ \A s \in Segments : s \in held[c] <=> s # x /\ c \in Holders(s)

LEMMA CountLess ==
    ASSUME UseInv, NEW c \in Comms, NEW r, NEW x \in Segments, GivesBack(c, r, x)
    PROVE  Counted'
<1>. USE DEF GivesBack
<1>. SUFFICES ASSUME NEW s \in Segments
              PROVE  /\ refCount'[s] >= Cardinality(Holders(s)')
                     /\ ~failed => refCount'[s] = Cardinality(Holders(s)')
  BY DEF Counted
<1>1. /\ refCount[s] >= Cardinality(Holders(s)) /\ refCount[s] \in Int
      /\ ~failed => refCount[s] = Cardinality(Holders(s))
      /\ refCount'[s] = IF s = x THEN refCount[s] - 1 ELSE refCount[s]
  BY DEF UseInv, UsageSound, Counted, RegCacheInv, RegCacheTypeOK
<1>2. /\ Holders(s)' \subseteq Comms
      /\ \A d \in Comms : d # c => (d \in Holders(s)' <=> d \in Holders(s))
      /\ c \in Holders(s)' <=> s # x /\ c \in Holders(s)
  BY HoldersMove DEF UseInv, RegCacheInv
<1>3. IsFiniteSet(Holders(s)) /\ Cardinality(Holders(s)) \in Nat /\ Holders(s) \subseteq Comms
  BY HoldersFinite
<1>4. CASE s = x
  <2>1. Holders(s)' = Holders(s) \ {c} /\ c \in Holders(s)
    BY <1>2, <1>3, <1>4
  <2>2. Cardinality(Holders(s) \ {c}) = Cardinality(Holders(s)) - 1
    BY <1>3, <2>1, FS_RemoveElement
  <2>. QED
    BY <1>1, <1>3, <1>4, <2>1, <2>2
<1>5. CASE s # x
  <2>1. Holders(s)' = Holders(s)
    BY <1>2, <1>3, <1>5
  <2>. QED
    BY <1>1, <1>5, <2>1
<1>. QED
  BY <1>4, <1>5

\* askFree: a communicator that frees a segment counted once is its only holder.
LEMMA OnlyHolder ==
    ASSUME UseInv, ~destroyed, NEW s \in Segments, LastHolder(s), NEW c \in Holders(s)
    PROVE  Holders(s) = {c}
<1>1. Cardinality(Holders(s)) <= 1 /\ IsFiniteSet(Holders(s)) /\ Cardinality(Holders(s)) \in Nat
  BY HoldersFinite DEF UseInv, UsageSound, Counted, LastHolder
<1>2. Cardinality(Holders(s) \ {c}) = Cardinality(Holders(s)) - 1 /\ IsFiniteSet(Holders(s) \ {c})
  BY <1>1, FS_RemoveElement
<1>3. Cardinality(Holders(s) \ {c}) \in Nat
  BY <1>2, FS_CardinalityType
<1>4. Holders(s) \ {c} = {}
  BY <1>1, <1>2, <1>3, FS_EmptySet
<1>. QED
  BY <1>4

-----------------------------------------------------------------------------
(* A step of one thread, as far as the invariant of use is concerned.      *)

MainStep(c, r) ==
    /\ thread' = [thread EXCEPT ![Main(c)] = r]
    /\ Counted'
    /\ ~destroyed
    /\ UNCHANGED <<destroyed, aborted>>
    /\ \A d \in Comms : d # c => held'[d] = held[d]
    /\ r.pc \in Working => \E s \in Segments : r.buf = {s} /\ s \notin held'[c]
    /\ \A a \in Addrs : elems'[a] = elems[a] \/ elems'[a].state # "cached" \/ ~elems'[a].dynamic
    /\ \A a \in Addrs : elems'[a].state = "leaving" =>
           \/ r.pc = "deregister" /\ a \in r.list
           \/ /\ elems[a].state = "leaving"
              /\ thread[Main(c)].pc # "deregister" \/ a \notin thread[Main(c)].list

LEMMA MainFrame ==
    ASSUME UseInv, NEW c \in Comms, NEW r, MainStep(c, r)
    PROVE  UsageSound'
<1>. USE DEF MainStep
<1>1. /\ thread'[Main(c)] = r /\ thread'[Async] = thread[Async]
      /\ \A d \in Comms : thread'[Gpe(d)] = thread[Gpe(d)]
      /\ \A d \in Comms : d # c => thread'[Main(d)] = thread[Main(d)]
  BY MainMoves DEF UseInv, RegCacheInv
<1>2. WorksOnOne'
  BY <1>1 DEF UseInv, UsageSound, WorksOnOne
<1>3. GpeSound'
  BY <1>1 DEF UseInv, UsageSound, GpeSound
<1>4. Resting'
  BY DEF Resting
<1>5. DynamicOwned'
  BY <1>1 DEF UseInv, UsageSound, DynamicOwned, Cached, Dynamic
<1>6. LeavingOwned'
  <2>. SUFFICES ASSUME NEW a \in Addrs, elems'[a].state = "leaving"
                PROVE  \E d \in Comms : thread'[Main(d)].pc = "deregister" /\ a \in thread'[Main(d)].list
    BY DEF LeavingOwned
  <2>1. CASE r.pc = "deregister" /\ a \in r.list
    BY <1>1, <2>1
  <2>2. CASE /\ elems[a].state = "leaving"
             /\ thread[Main(c)].pc # "deregister" \/ a \notin thread[Main(c)].list
    <3>1. PICK d \in Comms : thread[Main(d)].pc = "deregister" /\ a \in thread[Main(d)].list
      BY <2>2 DEF UseInv, UsageSound, LeavingOwned
    <3>. QED
      BY <1>1, <2>2, <3>1
  <2>. QED
    BY <2>1, <2>2
<1>. QED
  BY <1>2, <1>3, <1>4, <1>5, <1>6 DEF UsageSound

\* Who holds what does not change.
LEMMA CountFrame ==
    ASSUME UseInv, UNCHANGED <<refCount, held>>, failed => failed', destroyed => destroyed',
           \A d \in Comms : thread'[Main(d)] = thread[Main(d)]
    PROVE  Counted'
<1>1. ASSUME NEW s PROVE Holders(s)' = Holders(s)
  <2>1. Holders(s)' = {d \in Comms : s \in held[d] \/ (thread'[Main(d)].pc \in Working /\ s \in thread'[Main(d)].buf)}
    BY DEF Holders, AtWork
  <2>2. Holders(s) = {d \in Comms : s \in held[d] \/ (thread[Main(d)].pc \in Working /\ s \in thread[Main(d)].buf)}
    BY DEF Holders, AtWork
  <2>3. \A d \in Comms : held'[d] = held[d] /\ thread'[Main(d)] = thread[Main(d)]
    OBVIOUS
  <2>4. /\ Holders(s)' \subseteq Comms /\ Holders(s) \subseteq Comms
        /\ \A d \in Comms : d \in Holders(s)' <=> d \in Holders(s)
    BY <2>1, <2>2, <2>3
  <2>. QED
    BY <2>4
<1>. QED
  BY <1>1 DEF UseInv, UsageSound, Counted

GpeStep(c, r) ==
    /\ thread' = [thread EXCEPT ![Gpe(c)] = r]
    /\ ~destroyed
    /\ UNCHANGED <<destroyed, held, refCount>>
    /\ failed => failed'
    /\ aborted => aborted'
    /\ r.pc # "idle" => r.buf # {}
    /\ r.pc \notin InUsePcs => r.list = {} /\ ~r.own
    /\ r.pc = "dereg" => r.list # {}
    /\ \A a \in Addrs : elems'[a].state = "leaving" => elems[a].state = "leaving"
    /\ ~aborted' => \A a \in Addrs : elems'[a].state = "cached" /\ elems'[a].dynamic =>
           \/ r.pc \in InUsePcs /\ r.list # {} /\ r.hdl = a
           \/ /\ elems'[a] = elems[a]
              /\ ~(thread[Gpe(c)].pc \in InUsePcs /\ Dynamic(Gpe(c)) /\ thread[Gpe(c)].hdl = a)

LEMMA GpeFrame ==
    ASSUME UseInv, NEW c \in Comms, NEW r, GpeStep(c, r)
    PROVE  UsageSound'
<1>. USE DEF GpeStep
<1>1. /\ thread'[Gpe(c)] = r /\ thread'[Async] = thread[Async]
      /\ \A d \in Comms : thread'[Main(d)] = thread[Main(d)]
      /\ \A d \in Comms : d # c => thread'[Gpe(d)] = thread[Gpe(d)]
  BY GpeMoves DEF UseInv, RegCacheInv
<1>2. WorksOnOne'
  BY <1>1 DEF UseInv, UsageSound, WorksOnOne
<1>3. GpeSound'
  BY <1>1 DEF UseInv, UsageSound, GpeSound
<1>4. Resting'
  BY DEF Resting
<1>5. DynamicOwned'
  <2>. SUFFICES ASSUME ~aborted', NEW a \in Addrs, elems'[a].state = "cached", elems'[a].dynamic
                PROVE  \E d \in Comms : /\ thread'[Gpe(d)].pc \in InUsePcs /\ thread'[Gpe(d)].list # {}
                                        /\ thread'[Gpe(d)].hdl = a
    BY DEF DynamicOwned, Cached, Dynamic
  <2>1. CASE r.pc \in InUsePcs /\ r.list # {} /\ r.hdl = a
    BY <1>1, <2>1
  <2>2. CASE /\ elems'[a] = elems[a]
             /\ ~(thread[Gpe(c)].pc \in InUsePcs /\ Dynamic(Gpe(c)) /\ thread[Gpe(c)].hdl = a)
    <3>1. PICK d \in Comms : thread[Gpe(d)].pc \in InUsePcs /\ Dynamic(Gpe(d)) /\ thread[Gpe(d)].hdl = a
      BY <2>2 DEF UseInv, UsageSound, DynamicOwned, Cached
    <3>. QED
      BY <1>1, <2>2, <3>1 DEF Dynamic
  <2>. QED
    BY <2>1, <2>2
<1>6. LeavingOwned'
  BY <1>1 DEF UseInv, UsageSound, LeavingOwned
<1>7. Counted'
  BY <1>1, CountFrame
<1>. QED
  BY <1>2, <1>3, <1>4, <1>5, <1>6, <1>7 DEF UsageSound

\* The asynchronous thread, or none.
AsyncStep ==
    /\ \A d \in Comms : thread'[Main(d)] = thread[Main(d)] /\ thread'[Gpe(d)] = thread[Gpe(d)]
    /\ UNCHANGED <<held, aborted, destroyed, refCount>>
    /\ failed => failed'
    /\ thread'[Async].pc \in {"search", "slow"} => thread'[Async].buf # {}
    /\ destroyed => elems' = elems
    /\ \A a \in Addrs : elems'[a] = elems[a] \/
           (elems'[a].state # "leaving" /\ (elems'[a].state # "cached" \/ ~elems'[a].dynamic))

LEMMA AsyncFrame ==
    ASSUME UseInv, AsyncStep
    PROVE  UsageSound'
<1>. USE DEF AsyncStep
<1>1. Counted'
  BY CountFrame
<1>2. WorksOnOne' /\ GpeSound' /\ Resting'
  BY DEF UseInv, UsageSound, WorksOnOne, GpeSound, Resting
<1>3. DynamicOwned' /\ LeavingOwned'
  BY DEF UseInv, UsageSound, DynamicOwned, LeavingOwned, Cached, Dynamic
<1>. QED
  BY <1>1, <1>2, <1>3 DEF UsageSound

-----------------------------------------------------------------------------
(* The steps, as far as the invariant of use is concerned.                 *)

LEMMA CommTypes ==
    ASSUME UseInv, Next
    PROVE  CommTypeOK'
<1>. USE DEF CommTypeOK
<1>0. CommTypeOK /\ RegCacheTypeOK
  BY DEF UseInv, RegCacheInv
<1>1. ASSUME NEW t \in Threads, RangeSteps(t) PROVE CommTypeOK'
  <2>1. exported' = exported
    BY <1>0, <1>1, RangeFrame
  <2>2. CASE \E c \in Comms : t = Main(c)
    <3>1. PICK c \in Comms : t = Main(c)
      BY <2>2
    <3>2. thread[t].buf \subseteq Segments
      BY <1>0, ThreadTypes DEF ThreadType
    <3>3. held' = held \/ held' = [held EXCEPT ![c] = @ \cup thread[t].buf]
      BY <1>0, <1>1, <3>1, MainRange
    <3>. QED
      BY <1>0, <2>1, <3>2, <3>3
  <2>3. CASE \E c \in Comms : t = Gpe(c)
    BY <1>0, <1>1, <2>1, <2>3, GpeRange
  <2>4. CASE t = Async
    BY <1>0, <1>1, <2>1, <2>4, AsyncRange
  <2>. QED
    BY <2>2, <2>3, <2>4 DEF Threads
<1>2. ASSUME NEW c \in Comms, NEW s \in Segments, RegMem(c, s) \/ DeregMem(c, s)
      PROVE  CommTypeOK'
  <2>1. exported' = exported
    BY <1>2 DEF RegMem, DeregMem
  <2>2. held' = held \/ held' = [held EXCEPT ![c] = @ \cup {s}] \/ held' = [held EXCEPT ![c] = @ \ {s}]
    BY <1>2 DEF RegMem, DeregMem
  <2>. QED
    BY <1>0, <2>1, <2>2
<1>3. ASSUME NEW c \in Comms,
             \/ Release(c) \/ FreeSegment(c) \/ DeregElems(c)
             \/ \E buf \in mode.buffers : Collective(c, buf)
             \/ CollectiveStarts(c) \/ RegDynamic(c) \/ RegDynamicFails(c) \/ ExportMem(c)
             \/ CollectiveEnds(c) \/ CollectiveThrows(c) \/ DeregDynamic(c)
      PROVE  CommTypeOK'
  <2>1. thread[Gpe(c)].hdl \in Addrs \cup {NoAddr}
    BY <1>0, ThreadIds, ThreadTypes DEF ThreadType
  <2>2. /\ held' = held
        /\ \/ exported' = exported
           \/ \E x : exported' = [exported EXCEPT ![c] = @ \ x]
           \/ exported' = [exported EXCEPT ![c] = @ \cup {thread[Gpe(c)].hdl}]
    <3>1. CASE Release(c) \/ FreeSegment(c) \/ DeregElems(c)
      BY <3>1 DEF Release, FreeSegment, DeregElems, commVars
    <3>2. CASE \E buf \in mode.buffers : Collective(c, buf)
      BY <3>2 DEF Collective, commVars
    <3>3. CASE CollectiveStarts(c) \/ RegDynamic(c) \/ RegDynamicFails(c)
      BY <3>3 DEF CollectiveStarts, RegDynamic, RegDynamicFails, commVars
    <3>4. CASE ExportMem(c) \/ CollectiveEnds(c)
      BY <3>4 DEF ExportMem, CollectiveEnds
    <3>5. CASE CollectiveThrows(c) \/ DeregDynamic(c)
      BY <3>5 DEF CollectiveThrows, DeregDynamic, commVars
    <3>. QED
      BY <1>3, <3>1, <3>2, <3>3, <3>4, <3>5
  <2>. QED
    BY <1>0, <2>1, <2>2
<1>4. CASE TakeRequest \/ Destroy
  BY <1>0, <1>4 DEF TakeRequest, Destroy, commVars
<1>. QED
  BY <1>1, <1>2, <1>3, <1>4 DEF Next, RangeSteps

\* regRange registers nothing once destroy has dropped every segment.
LEMMA RegisterElems ==
    ASSUME UseInv, NEW t \in Threads, RangeSteps(t)
    PROVE  \A a \in Addrs : elems'[a] = elems[a] \/ (elems'[a].state = "cached" /\ ~elems'[a].dynamic)
<1>0. RegCacheTypeOK
  BY DEF UseInv, RegCacheInv
<1>1. CASE Register(t)
  <2>1. PICK a \in Addrs :
          /\ elems'[a] = [state |-> "cached", segs |-> thread[t].buf, dynamic |-> FALSE]
          /\ \A b \in Addrs : b # a => elems'[b] = elems[b]
    BY <1>0, <1>1, RegisterMakes
  <2>. QED
    BY <2>1
<1>2. CASE ~Register(t)
  BY <1>0, <1>2, RangeFrame
<1>. QED
  BY <1>1, <1>2

LEMMA RangeUse ==
    ASSUME UseInv, NEW t \in Threads, RangeSteps(t)
    PROVE  UsageSound'
<1>0. RegCacheTypeOK /\ UsageSound /\ CommTypeOK
  BY DEF UseInv, RegCacheInv
<1>1. /\ UNCHANGED <<refCount, destroyed, aborted>>
      /\ failed => failed'
      /\ thread[t].pc \in {"search", "slow"}
      /\ Register(t) \/ elems' = elems
  BY <1>0, RangeFrame
<1>2. \A a \in Addrs : elems'[a] = elems[a] \/ (elems'[a].state = "cached" /\ ~elems'[a].dynamic)
  BY RegisterElems
<1>3. CASE \E c \in Comms : t = Main(c)
  <2>1. PICK c \in Comms : t = Main(c)
    BY <1>3
  <2>2. PICK r \in ThreadType :
          /\ thread' = [thread EXCEPT ![Main(c)] = r]
          /\ \/ r.pc = "slow" /\ r.buf = thread[Main(c)].buf /\ held' = held
             \/ r = Idle /\ held' = [held EXCEPT ![c] = @ \cup thread[Main(c)].buf]
             \/ r = Idle /\ held' = held /\ failed' = TRUE
    BY <1>0, <2>1, MainRange
  <2>3. ~destroyed
    BY <1>0, <1>1, <2>1 DEF UsageSound, Resting
  <2>4. PICK x \in Segments : thread[Main(c)].buf = {x} /\ x \notin held[c]
    BY <1>0, <1>1, <2>1 DEF UsageSound, WorksOnOne, Working
  <2>5. \A s \in Segments : c \in Holders(s) <=> s \in held[c] \/ s = x
    BY <1>1, <2>1, <2>4 DEF Holders, AtWork, Working
  <2>6. held \in [Comms -> SUBSET Segments]
    BY <1>0 DEF CommTypeOK
  <2>7. \A d \in Comms : d # c => held'[d] = held[d]
    BY <2>2, <2>6
  <2>8. \A s \in Segments :
           /\ s \in held'[c] \/ (r.pc \in Working /\ s \in r.buf) => c \in Holders(s)
           /\ ~failed' /\ c \in Holders(s) => s \in held'[c] \/ (r.pc \in Working /\ s \in r.buf)
    BY <2>2, <2>4, <2>5, <2>6 DEF Working, Idle
  <2>9. Counted'
    <3>1. Keeps(c, r)
      BY <1>1, <2>2, <2>3, <2>7, <2>8 DEF Keeps
    <3>. QED
      BY <3>1, CountKept
  <2>10. r.pc \in Working => \E s \in Segments : r.buf = {s} /\ s \notin held'[c]
    BY <2>2, <2>4 DEF Working, Idle
  <2>11. \A a \in Addrs : elems'[a].state = "leaving" =>
           /\ elems[a].state = "leaving"
           /\ thread[Main(c)].pc # "deregister" \/ a \notin thread[Main(c)].list
    BY <1>1, <1>2, <2>1
  <2>12. MainStep(c, r)
    BY <1>1, <1>2, <2>2, <2>3, <2>7, <2>9, <2>10, <2>11 DEF MainStep
  <2>. QED
    BY <2>12, MainFrame
<1>4. CASE \E c \in Comms : t = Gpe(c)
  <2>1. PICK c \in Comms : t = Gpe(c)
    BY <1>4
  <2>2. PICK r \in ThreadType :
          /\ thread' = [thread EXCEPT ![Gpe(c)] = r] /\ held' = held
          /\ \/ /\ r.pc \in {"slow", "dynamic"} /\ r.buf = thread[Gpe(c)].buf
                /\ r.list = thread[Gpe(c)].list /\ r.own = thread[Gpe(c)].own
             \/ r = Idle
             \/ r.pc = "use" /\ r.buf = thread[Gpe(c)].buf /\ r.list = thread[Gpe(c)].list
    BY <1>0, <2>1, GpeRange
  <2>3. ~destroyed
    BY <1>0, <1>1, <2>1 DEF UsageSound, Resting
  <2>4. thread[Gpe(c)].buf # {} /\ thread[Gpe(c)].list = {} /\ ~thread[Gpe(c)].own
    BY <1>0, <1>1, <2>1 DEF UsageSound, GpeSound, InUsePcs
  <2>5. ~(thread[Gpe(c)].pc \in InUsePcs)
    BY <1>1, <2>1 DEF InUsePcs
  <2>6. /\ r.pc # "idle" => r.buf # {}
        /\ r.pc \notin InUsePcs => r.list = {} /\ ~r.own
        /\ r.pc # "dereg"
    BY <2>2, <2>4 DEF Idle, InUsePcs
  <2>7. GpeStep(c, r)
    BY <1>1, <1>2, <2>2, <2>3, <2>5, <2>6 DEF GpeStep
  <2>. QED
    BY <2>7, GpeFrame
<1>5. CASE t = Async
  <2>1. PICK r \in ThreadType :
          /\ thread' = [thread EXCEPT ![Async] = r] /\ held' = held
          /\ (r.pc = "slow" /\ r.buf = thread[Async].buf) \/ r = Idle
    BY <1>0, <1>5, AsyncRange
  <2>2. thread[Async].buf # {} /\ thread[Async].buf \subseteq Segments
    BY <1>0, <1>1, <1>5, ThreadTypes DEF UsageSound, GpeSound, ThreadType
  <2>3. destroyed => elems' = elems
    <3>1. Register(Async) => \A s \in thread[Async].buf : refCount[s] > 0
      BY DEF Register
    <3>2. destroyed => \A s \in thread[Async].buf : refCount[s] = 0
      BY <1>0, <2>2 DEF UsageSound, Resting
    <3>. QED
      BY <1>1, <1>5, <2>2, <3>1, <3>2
  <2>4. /\ thread'[Async] = r
        /\ \A d \in Comms : thread'[Main(d)] = thread[Main(d)] /\ thread'[Gpe(d)] = thread[Gpe(d)]
    BY <1>0, <2>1, AsyncMoves
  <2>5. r.pc \in {"search", "slow"} => r.buf # {}
    BY <2>1, <2>2 DEF Idle
  <2>6. \A a \in Addrs : elems'[a] = elems[a] \/
           (elems'[a].state # "leaving" /\ (elems'[a].state # "cached" \/ ~elems'[a].dynamic))
    BY <1>2
  <2>7. AsyncStep
    BY <1>1, <2>1, <2>3, <2>4, <2>5, <2>6 DEF AsyncStep
  <2>. QED
    BY <2>7, AsyncFrame
<1>. QED
  BY <1>3, <1>4, <1>5 DEF Threads

LEMMA RegMemUse ==
    ASSUME UseInv, NEW c \in Comms, NEW x \in Segments, RegMem(c, x)
    PROVE  UsageSound'
<1>0. RegCacheTypeOK /\ UsageSound /\ CommTypeOK
  BY DEF UseInv, RegCacheInv
<1>1. /\ thread[Main(c)].pc = "idle" /\ ~destroyed /\ x \notin held[c]
      /\ refCount' = [refCount EXCEPT ![x] = @ + 1]
      /\ UNCHANGED <<elems, destroyed, failed, aborted>>
  BY <1>0 DEF RegMem, At, historyVars
<1>2. held \in [Comms -> SUBSET Segments] /\ thread \in [Threads -> ThreadType]
  BY <1>0 DEF CommTypeOK, RegCacheTypeOK
<1>3. \A s \in Segments : c \in Holders(s) <=> s \in held[c]
  BY <1>1 DEF Holders, AtWork, Working
<1>4. PICK r : /\ thread' = [thread EXCEPT ![Main(c)] = r]
               /\ \/ r.pc = "search" /\ r.buf = {x} /\ held' = held
                  \/ r.pc = "idle" /\ held' = [held EXCEPT ![c] = @ \cup {x}]
  <2>1. CASE mode.register = "eager"
    <3>. DEFINE r == [Idle EXCEPT !.pc = "search", !.buf = {x}]
    <3>1. r.pc = "search" /\ r.buf = {x}
      BY DEF Idle
    <3>2. thread' = [thread EXCEPT ![Main(c)] = r] /\ held' = held
      BY <2>1 DEF RegMem
    <3>. QED
      BY <3>1, <3>2
  <2>2. CASE mode.register # "eager"
    <3>. DEFINE r == thread[Main(c)]
    <3>1. thread' = [thread EXCEPT ![Main(c)] = r]
      BY <1>2, <2>2 DEF RegMem
    <3>2. r.pc = "idle" /\ held' = [held EXCEPT ![c] = @ \cup {x}]
      BY <1>1, <2>2 DEF RegMem
    <3>. HIDE DEF r
    <3>. QED
      BY <3>1, <3>2
  <2>. QED
    BY <2>1, <2>2
<1>5. \A d \in Comms : d # c => held'[d] = held[d]
  BY <1>2, <1>4
<1>6. \A s \in Segments : s \in held'[c] \/ (r.pc \in Working /\ s \in r.buf) <=> s = x \/ c \in Holders(s)
  BY <1>2, <1>3, <1>4 DEF Working
<1>7. Counted'
  <2>1. TakesOne(c, r, x)
    BY <1>1, <1>3, <1>4, <1>5, <1>6 DEF TakesOne
  <2>. QED
    BY <2>1, CountMore
<1>8. r.pc \in Working => \E s \in Segments : r.buf = {s} /\ s \notin held'[c]
  BY <1>1, <1>4 DEF Working
<1>9. MainStep(c, r)
  BY <1>1, <1>4, <1>5, <1>7, <1>8 DEF MainStep
<1>. QED
  BY <1>9, MainFrame

LEMMA DeregMemUse ==
    ASSUME UseInv, NEW c \in Comms, NEW x \in Segments, DeregMem(c, x)
    PROVE  UsageSound'
<1>0. RegCacheTypeOK /\ UsageSound /\ CommTypeOK
  BY DEF UseInv, RegCacheInv
<1>1. /\ thread[Main(c)].pc = "idle" /\ ~destroyed /\ x \in held[c]
      /\ held' = [held EXCEPT ![c] = @ \ {x}]
      /\ UNCHANGED <<refCount, elems, destroyed, failed, aborted>>
  BY <1>0 DEF DeregMem, At, historyVars, cacheVars
<1>2. PICK r : /\ thread' = [thread EXCEPT ![Main(c)] = r]
               /\ r.pc = "release" /\ r.buf = {x}
  <2>. DEFINE r == [Idle EXCEPT !.pc = "release", !.buf = {x}, !.list = segToRegElems[x]]
  <2>1. r.pc = "release" /\ r.buf = {x}
    BY DEF Idle
  <2>2. thread' = [thread EXCEPT ![Main(c)] = r]
    BY DEF DeregMem
  <2>. QED
    BY <2>1, <2>2
<1>3. /\ \A d \in Comms : d # c => held'[d] = held[d]
      /\ held'[c] = held[c] \ {x}
  BY <1>0, <1>1 DEF CommTypeOK
<1>4. \A s \in Segments : c \in Holders(s) <=> s \in held[c]
  BY <1>1 DEF Holders, AtWork, Working
<1>5. \A s \in Segments : s \in held'[c] \/ (r.pc \in Working /\ s \in r.buf) <=> c \in Holders(s)
  BY <1>1, <1>2, <1>3, <1>4 DEF Working
<1>6. Counted'
  <2>1. Keeps(c, r)
    BY <1>1, <1>2, <1>3, <1>5 DEF Keeps
  <2>. QED
    BY <2>1, CountKept
<1>7. MainStep(c, r)
  BY <1>1, <1>2, <1>3, <1>6 DEF MainStep
<1>. QED
  BY <1>7, MainFrame

LEMMA ReleaseUse ==
    ASSUME UseInv, NEW c \in Comms, Release(c)
    PROVE  UsageSound'
<1>0. RegCacheTypeOK /\ UsageSound /\ CommTypeOK
  BY DEF UseInv, RegCacheInv
<1>1. /\ thread[Main(c)].pc = "release"
      /\ UNCHANGED <<refCount, elems, destroyed, failed, aborted, held>>
  BY <1>0 DEF Release, At, historyVars, cacheVars
<1>2. PICK r : /\ thread' = [thread EXCEPT ![Main(c)] = r]
               /\ r.pc = "free" /\ r.buf = thread[Main(c)].buf
  <2>. DEFINE r == [thread[Main(c)] EXCEPT !.pc = "free"]
  <2>1. thread[Main(c)] \in ThreadType
    BY <1>0, ThreadIds, ThreadTypes
  <2>2. r.pc = "free" /\ r.buf = thread[Main(c)].buf
    BY <2>1 DEF ThreadType
  <2>3. thread' = [thread EXCEPT ![Main(c)] = r]
    BY DEF Release, Goto
  <2>. HIDE DEF r
  <2>. QED
    BY <2>2, <2>3
<1>3. ~destroyed
  BY <1>0, <1>1 DEF UsageSound, Resting
<1>4. PICK x \in Segments : thread[Main(c)].buf = {x} /\ x \notin held[c]
  BY <1>0, <1>1 DEF UsageSound, WorksOnOne, Working
<1>5. \A s \in Segments : s \in held'[c] \/ (r.pc \in Working /\ s \in r.buf) <=> c \in Holders(s)
  BY <1>1, <1>2 DEF Working, Holders, AtWork
<1>6. Counted'
  <2>1. Keeps(c, r)
    BY <1>1, <1>2, <1>3, <1>5 DEF Keeps
  <2>. QED
    BY <2>1, CountKept
<1>7. MainStep(c, r)
  BY <1>1, <1>2, <1>3, <1>4, <1>6 DEF MainStep
<1>. QED
  BY <1>7, MainFrame

LEMMA DeregElemsUse ==
    ASSUME UseInv, NEW c \in Comms, DeregElems(c)
    PROVE  UsageSound'
<1>0. RegCacheTypeOK /\ UsageSound /\ CommTypeOK
  BY DEF UseInv, RegCacheInv
<1>1. /\ thread[Main(c)].pc = "deregister"
      /\ failed => failed'
      /\ UNCHANGED <<refCount, destroyed, aborted, held>>
      /\ thread' = [thread EXCEPT ![Main(c)] = Idle]
      /\ elems' = [a \in Addrs |-> IF a \in thread[Main(c)].list THEN NoElem ELSE elems[a]]
  BY DEF DeregElems, At, Failure, commVars
<1>2. ~destroyed
  BY <1>0, <1>1 DEF UsageSound, Resting
<1>3. Idle.pc = "idle"
  BY DEF Idle
<1>4. Counted'
  <2>1. \A s \in Segments : s \in held'[c] \/ (Idle.pc \in Working /\ s \in Idle.buf) <=> c \in Holders(s)
    BY <1>1, <1>3 DEF Working, Holders, AtWork
  <2>2. Keeps(c, Idle)
    BY <1>1, <1>2, <2>1 DEF Keeps
  <2>. QED
    BY <2>2, CountKept
<1>5. \A a \in Addrs : elems'[a] = elems[a] \/ elems'[a].state # "cached" \/ ~elems'[a].dynamic
  BY <1>1 DEF NoElem
<1>6. \A a \in Addrs : elems'[a].state = "leaving" =>
          /\ elems[a].state = "leaving"
          /\ thread[Main(c)].pc # "deregister" \/ a \notin thread[Main(c)].list
  BY <1>1 DEF NoElem
<1>7. MainStep(c, Idle)
  BY <1>1, <1>2, <1>3, <1>4, <1>5, <1>6 DEF MainStep, Working
<1>. QED
  BY <1>7, MainFrame

\* What freeSegment does to the count of x, and who leaves.
Frees(c, x, r) ==
    /\ thread[Main(c)].pc = "free" /\ thread[Main(c)].buf = {x} /\ x \notin held[c]
    /\ ~destroyed
    /\ thread' = [thread EXCEPT ![Main(c)] = r] /\ r.pc \in {"idle", "deregister"}
    /\ refCount' = [refCount EXCEPT ![x] = @ - 1]
    /\ UNCHANGED <<held, exported, destroyed, failed, aborted, spanned, borrowed>>
    /\ \/ ~LastHolder(x) /\ r.pc = "idle" /\ UNCHANGED <<elems, segToRegElems>>
       \/ /\ LastHolder(x) /\ r.pc = "deregister"
          /\ r.list = {a \in Addrs : Cached(a) /\ a \in segToRegElems[x]}
          /\ elems' = [a \in Addrs |->
                 IF a \in r.list THEN [elems[a] EXCEPT !.state = "leaving"] ELSE elems[a]]
          /\ segToRegElems' = [segToRegElems EXCEPT ![x] = {}]

LEMMA FreeSegmentDoes ==
    ASSUME UseInv, NEW c \in Comms, FreeSegment(c)
    PROVE  \E x \in Segments : \E r : Frees(c, x, r)
<1>. USE DEF Frees
<1>0. RegCacheTypeOK /\ UsageSound /\ CommTypeOK
  BY DEF UseInv, RegCacheInv
<1>1. thread[Main(c)].pc = "free"
  BY DEF FreeSegment, At
<1>2. ~destroyed
  BY <1>0, <1>1 DEF UsageSound, Resting
<1>3. PICK x \in Segments : thread[Main(c)].buf = {x} /\ x \notin held[c]
  BY <1>0, <1>1 DEF UsageSound, WorksOnOne, Working
<1>4. (CHOOSE y \in thread[Main(c)].buf : TRUE) = x
  BY <1>3
<1>5. UNCHANGED <<held, exported, destroyed, failed, aborted, spanned, borrowed>>
  BY DEF FreeSegment, commVars, historyVars
<1>6. refCount \in [Segments -> Int]
  BY <1>0 DEF RegCacheTypeOK
<1>7. CASE LastHolder(x)
  <2>. DEFINE taken == {a \in Addrs : Cached(a) /\ a \in segToRegElems[x]}
              r == [Idle EXCEPT !.pc = "deregister", !.list = taken]
  <2>1. /\ refCount' = [refCount EXCEPT ![x] = 0]
        /\ elems' = [a \in Addrs |->
               IF a \in taken THEN [elems[a] EXCEPT !.state = "leaving"] ELSE elems[a]]
        /\ segToRegElems' = [segToRegElems EXCEPT ![x] = {}]
        /\ thread' = [thread EXCEPT ![Main(c)] = r]
    BY <1>4, <1>7, Zenon DEF FreeSegment
  <2>. HIDE DEF taken
  <2>2. r.pc = "deregister" /\ r.list = taken
    BY DEF Idle
  <2>3. refCount' = [refCount EXCEPT ![x] = @ - 1]
    BY <1>6, <1>7, <2>1 DEF LastHolder
  <2>. HIDE DEF r
  <2>4. taken = {a \in Addrs : Cached(a) /\ a \in segToRegElems[x]}
    BY DEF taken
  <2>5. r.pc \in {"idle", "deregister"}
    BY <2>2
  <2>. QED
    BY <1>1, <1>2, <1>3, <1>5, <1>7, <2>1, <2>2, <2>3, <2>4, <2>5, Zenon
<1>8. CASE ~LastHolder(x)
  <2>1. /\ refCount' = [refCount EXCEPT ![x] = @ - 1]
        /\ thread' = [thread EXCEPT ![Main(c)] = Idle]
        /\ UNCHANGED <<elems, segToRegElems>>
    BY <1>4, <1>8, Zenon DEF FreeSegment
  <2>2. Idle.pc = "idle"
    BY DEF Idle
  <2>. QED
    BY <1>1, <1>2, <1>3, <1>5, <1>8, <2>1, <2>2
<1>. QED
  BY <1>7, <1>8

LEMMA FreeSegmentUse ==
    ASSUME UseInv, NEW c \in Comms, FreeSegment(c)
    PROVE  UsageSound'
<1>0. RegCacheTypeOK /\ UsageSound /\ CommTypeOK
  BY DEF UseInv, RegCacheInv
<1>11. PICK x \in Segments : \E r : Frees(c, x, r)
  BY FreeSegmentDoes
<1>1. PICK r : Frees(c, x, r)
  BY <1>11
<1>. USE DEF Frees
<1>2. c \in Holders(x) /\ \A s \in Segments : s \in held[c] <=> s # x /\ c \in Holders(s)
  BY <1>1 DEF Holders, AtWork, Working
<1>3. Counted'
  <2>1. GivesBack(c, r, x)
    BY <1>1, <1>2 DEF GivesBack, Working
  <2>. QED
    BY <2>1, CountLess
<1>4. \A a \in Addrs : elems[a] \in ElemType
  BY <1>0 DEF RegCacheTypeOK
<1>5. \A a \in Addrs : elems'[a] = elems[a] \/ elems'[a].state # "cached" \/ ~elems'[a].dynamic
  BY <1>1, <1>4 DEF ElemType
<1>6. \A a \in Addrs : elems'[a].state = "leaving" =>
           \/ r.pc = "deregister" /\ a \in r.list
           \/ /\ elems[a].state = "leaving"
              /\ thread[Main(c)].pc # "deregister" \/ a \notin thread[Main(c)].list
  BY <1>1, <1>4 DEF ElemType
<1>7. MainStep(c, r)
  BY <1>1, <1>3, <1>5, <1>6 DEF MainStep, Working
<1>. QED
  BY <1>7, MainFrame

LEMMA CollectiveUse ==
    ASSUME UseInv, NEW c \in Comms,
           (\E buf \in mode.buffers : Collective(c, buf)) \/ CollectiveStarts(c) \/ RegDynamicFails(c)
    PROVE  UsageSound'
<1>0. RegCacheTypeOK /\ UsageSound
  BY DEF UseInv, RegCacheInv
<1>1. thread[Gpe(c)] \in ThreadType
  BY <1>0, ThreadIds, ThreadTypes
<1>2. /\ UNCHANGED <<destroyed, held, refCount, elems, aborted>>
      /\ failed => failed'
      /\ thread[Gpe(c)].pc \notin InUsePcs
      /\ ~destroyed
  <2>1. ASSUME NEW buf \in mode.buffers, Collective(c, buf)
        PROVE  /\ UNCHANGED <<destroyed, held, refCount, elems, aborted, failed>>
               /\ thread[Gpe(c)].pc \notin InUsePcs /\ ~destroyed
    BY <2>1 DEF Collective, At, cacheVars, commVars, historyVars, InUsePcs
  <2>2. CASE CollectiveStarts(c)
    BY <1>0, <2>2 DEF CollectiveStarts, At, cacheVars, commVars, historyVars, InUsePcs, UsageSound, Resting
  <2>3. CASE RegDynamicFails(c)
    BY <1>0, <2>3 DEF RegDynamicFails, Failed, Failure, At, cacheVars, commVars, InUsePcs, UsageSound, Resting
  <2>. QED
    BY <2>1, <2>2, <2>3
<1>3. PICK r : /\ thread' = [thread EXCEPT ![Gpe(c)] = r]
               /\ r.pc # "idle" => r.buf # {}
               /\ r.pc \notin InUsePcs /\ r.list = {} /\ ~r.own
  <2>1. ASSUME NEW buf \in mode.buffers, Collective(c, buf)
        PROVE  \E r : /\ thread' = [thread EXCEPT ![Gpe(c)] = r]
                      /\ r.pc # "idle" => r.buf # {}
                      /\ r.pc \notin InUsePcs /\ r.list = {} /\ ~r.own
    <3>. DEFINE r == [Idle EXCEPT !.pc = "queued", !.buf = buf]
    <3>1. buf # {}
      <4>1. mode.buffers \subseteq Buffers
        BY <1>0 DEF RegCacheTypeOK, ModeType
      <4>. QED
        BY <4>1 DEF Buffers
    <3>2. r.pc = "queued" /\ r.buf = buf /\ r.list = {} /\ ~r.own
      BY DEF Idle
    <3>3. thread' = [thread EXCEPT ![Gpe(c)] = r]
      BY <2>1 DEF Collective
    <3>. HIDE DEF r
    <3>. QED
      BY <3>1, <3>2, <3>3 DEF InUsePcs
  <2>2. CASE CollectiveStarts(c)
    <3>. DEFINE r == [thread[Gpe(c)] EXCEPT !.pc = "search"]
    <3>1. /\ r.pc = "search" /\ r.buf = thread[Gpe(c)].buf /\ r.list = thread[Gpe(c)].list
          /\ r.own = thread[Gpe(c)].own
      BY <1>1 DEF ThreadType
    <3>2. thread[Gpe(c)].buf # {} /\ thread[Gpe(c)].list = {} /\ ~thread[Gpe(c)].own
      BY <1>0, <1>2, <2>2 DEF CollectiveStarts, At, UsageSound, GpeSound
    <3>3. thread' = [thread EXCEPT ![Gpe(c)] = r]
      BY <2>2 DEF CollectiveStarts, Goto
    <3>. HIDE DEF r
    <3>. QED
      BY <3>1, <3>2, <3>3 DEF InUsePcs
  <2>3. CASE RegDynamicFails(c)
    <3>1. thread' = [thread EXCEPT ![Gpe(c)] = Idle]
      BY <2>3 DEF RegDynamicFails, Failed
    <3>2. Idle.pc = "idle" /\ Idle.list = {} /\ ~Idle.own
      BY DEF Idle
    <3>. QED
      BY <3>1, <3>2 DEF InUsePcs
  <2>. QED
    BY <2>1, <2>2, <2>3
<1>4. GpeStep(c, r)
  BY <1>2, <1>3 DEF GpeStep, InUsePcs
<1>. QED
  BY <1>4, GpeFrame

LEMMA RegDynamicUse ==
    ASSUME UseInv, NEW c \in Comms, RegDynamic(c)
    PROVE  UsageSound'
<1>0. RegCacheTypeOK /\ UsageSound
  BY DEF UseInv, RegCacheInv
<1>1. thread[Gpe(c)] \in ThreadType /\ elems \in [Addrs -> ElemType]
  BY <1>0, ThreadIds, ThreadTypes DEF RegCacheTypeOK
<1>2. /\ UNCHANGED <<destroyed, held, refCount, aborted, failed>>
      /\ thread[Gpe(c)].pc = "dynamic"
  BY DEF RegDynamic, At, commVars, historyVars
<1>3. ~destroyed /\ thread[Gpe(c)].buf # {}
  BY <1>0, <1>2 DEF UsageSound, Resting, GpeSound
<1>4. PICK a \in Free :
        /\ NewElem(a, thread[Gpe(c)].buf, TRUE)
        /\ thread' = [thread EXCEPT ![Gpe(c)].pc = "use", ![Gpe(c)].hdl = a, ![Gpe(c)].list = {a}]
  BY DEF RegDynamic
<1>. DEFINE r == [thread[Gpe(c)] EXCEPT !.pc = "use", !.hdl = a, !.list = {a}]
<1>5. r.pc = "use" /\ r.buf = thread[Gpe(c)].buf /\ r.list = {a} /\ r.hdl = a
  BY <1>1 DEF ThreadType
<1>6. thread' = [thread EXCEPT ![Gpe(c)] = r]
  BY <1>4, Zenon
<1>. HIDE DEF r
<1>7. \A b \in Addrs : b # a => elems'[b] = elems[b]
  BY <1>1, <1>4 DEF NewElem
<1>8. a \in Addrs /\ elems'[a].state = "cached"
  BY <1>1, <1>4 DEF NewElem, Free
<1>9. \A b \in Addrs : elems'[b].state = "leaving" => elems[b].state = "leaving"
  BY <1>7, <1>8
<1>10. r.pc \in InUsePcs /\ r.list # {} /\ thread[Gpe(c)].pc \notin InUsePcs
  BY <1>2, <1>5 DEF InUsePcs
<1>11. GpeStep(c, r)
  BY <1>2, <1>3, <1>5, <1>6, <1>7, <1>9, <1>10 DEF GpeStep
<1>. QED
  BY <1>11, GpeFrame

LEMMA ExportMemUse ==
    ASSUME UseInv, NEW c \in Comms, ExportMem(c)
    PROVE  UsageSound'
<1>1. UNCHANGED <<thread, held, aborted, destroyed, refCount, elems, failed>>
  BY DEF ExportMem, cacheVars
<1>2. thread[Async].pc \in {"search", "slow"} => thread[Async].buf # {}
  BY DEF UseInv, UsageSound, GpeSound
<1>3. AsyncStep
  BY <1>1, <1>2 DEF AsyncStep
<1>. QED
  BY <1>3, AsyncFrame

LEMMA CollectiveEndsUse ==
    ASSUME UseInv, NEW c \in Comms, CollectiveEnds(c) \/ CollectiveThrows(c) \/ DeregDynamic(c)
    PROVE  UsageSound'
<1>0. RegCacheTypeOK /\ UsageSound
  BY DEF UseInv, RegCacheInv
<1>1. thread[Gpe(c)] \in ThreadType /\ elems \in [Addrs -> ElemType]
  BY <1>0, ThreadIds, ThreadTypes DEF RegCacheTypeOK
<1>2. /\ UNCHANGED <<destroyed, held, refCount>>
      /\ failed => failed'
      /\ aborted => aborted'
      /\ thread[Gpe(c)].pc \in InUsePcs
      /\ \A a \in Addrs : elems'[a] = elems[a] \/ elems'[a] = NoElem
  <2>1. CASE CollectiveEnds(c)
    BY <2>1 DEF CollectiveEnds, At, cacheVars, historyVars, InUsePcs
  <2>2. CASE CollectiveThrows(c)
    BY <2>2 DEF CollectiveThrows, At, cacheVars, commVars, InUsePcs
  <2>3. CASE DeregDynamic(c)
    BY <1>1, <2>3 DEF DeregDynamic, At, Failure, commVars, InUsePcs
  <2>. QED
    BY <2>1, <2>2, <2>3
<1>3. ~destroyed /\ thread[Gpe(c)].buf # {}
  BY <1>0, <1>2 DEF UsageSound, Resting, GpeSound, InUsePcs
<1>4. \A a \in Addrs : elems'[a].state = "leaving" => elems[a].state = "leaving"
  BY <1>2 DEF NoElem
<1>5. /\ Idle.pc = "idle" /\ Idle.list = {} /\ ~Idle.own
      /\ \A a \in Addrs : elems'[a].state = "cached" => elems'[a] = elems[a]
  BY <1>2 DEF Idle, NoElem
<1>6. CASE CollectiveEnds(c) /\ NeedsDereg(Gpe(c))
  <2>. DEFINE r == [thread[Gpe(c)] EXCEPT !.pc = "dereg"]
  <2>1. /\ r.pc = "dereg" /\ r.buf = thread[Gpe(c)].buf /\ r.list = thread[Gpe(c)].list
        /\ r.hdl = thread[Gpe(c)].hdl
    BY <1>1 DEF ThreadType
  <2>2. thread' = [thread EXCEPT ![Gpe(c)] = r]
    BY <1>6 DEF CollectiveEnds, Goto
  <2>. HIDE DEF r
  <2>3. r.list # {} /\ r.pc \in InUsePcs
    BY <1>6, <2>1 DEF NeedsDereg, Dynamic, InUsePcs
  <2>4. GpeStep(c, r)
    BY <1>2, <1>3, <1>4, <1>5, <2>1, <2>2, <2>3 DEF GpeStep
  <2>. QED
    BY <2>4, GpeFrame
<1>7. CASE ~(CollectiveEnds(c) /\ NeedsDereg(Gpe(c)))
  <2>1. thread' = [thread EXCEPT ![Gpe(c)] = Idle]
    BY <1>7 DEF CollectiveEnds, CollectiveThrows, DeregDynamic
  <2>2. ~aborted' => \A a \in Addrs : elems'[a].state = "cached" /\ elems'[a].dynamic =>
             ~(thread[Gpe(c)].pc \in InUsePcs /\ Dynamic(Gpe(c)) /\ thread[Gpe(c)].hdl = a)
    <3>1. CASE CollectiveEnds(c)
      BY <1>7, <3>1 DEF NeedsDereg
    <3>2. CASE CollectiveThrows(c)
      BY <3>2 DEF CollectiveThrows
    <3>3. CASE DeregDynamic(c)
      <4>1. thread[Gpe(c)].hdl \in Addrs => elems'[thread[Gpe(c)].hdl].state # "cached"
        BY <1>1, <3>3 DEF DeregDynamic, Cached, NoElem
      <4>. QED
        BY <4>1
    <3>. QED
      BY <3>1, <3>2, <3>3
  <2>3. GpeStep(c, Idle)
    BY <1>2, <1>3, <1>4, <1>5, <2>1, <2>2 DEF GpeStep
  <2>. QED
    BY <2>3, GpeFrame
<1>. QED
  BY <1>6, <1>7

LEMMA ProcessUse ==
    ASSUME UseInv, TakeRequest \/ Destroy
    PROVE  UsageSound'
<1>0. RegCacheTypeOK /\ UsageSound
  BY DEF UseInv, RegCacheInv
<1>1. CASE TakeRequest
  <2>1. PICK r : thread' = [thread EXCEPT ![Async] = r] /\ (r.pc \in {"search", "slow"} => r.buf # {})
    <3>. DEFINE ended == [Idle EXCEPT !.pc = "ended"]
                search == [Idle EXCEPT !.pc = "search", !.buf = Head(queue)]
    <3>1. ended.pc = "ended" /\ search.buf = Head(queue)
      BY DEF Idle
    <3>2. CASE Head(queue) = {}
      <4>1. thread' = [thread EXCEPT ![Async] = ended]
        BY <1>1, <3>2 DEF TakeRequest
      <4>. QED
        BY <3>1, <4>1
    <3>3. CASE Head(queue) # {}
      <4>1. thread' = [thread EXCEPT ![Async] = search]
        BY <1>1, <3>3 DEF TakeRequest
      <4>. QED
        BY <3>1, <3>3, <4>1
    <3>. QED
      BY <3>2, <3>3
  <2>2. UNCHANGED <<held, aborted, destroyed, refCount, elems, failed>>
    BY <1>1 DEF TakeRequest, cacheVars, commVars, historyVars
  <2>3. AsyncStep
    BY <1>0, <2>1, <2>2, AsyncMoves DEF AsyncStep
  <2>. QED
    BY <2>3, AsyncFrame
<1>2. CASE Destroy
  <2>1. /\ \A c \in Comms : thread[Main(c)].pc = "idle" /\ thread[Gpe(c)].pc = "idle"
        /\ destroyed' = TRUE
        /\ refCount' = [s \in Segments |-> 0]
        /\ elems' = [a \in Addrs |-> NoElem]
        /\ UNCHANGED <<thread, held, aborted>>
    BY <1>2 DEF Destroy, At, commVars, historyVars
  <2>2. \A a \in Addrs : elems'[a].state = "none"
    BY <2>1 DEF NoElem
  <2>3. WorksOnOne' /\ GpeSound' /\ Counted'
    BY <1>0, <2>1 DEF UsageSound, WorksOnOne, GpeSound, Counted
  <2>4. Resting'
    BY <2>1, <2>2 DEF Resting
  <2>5. DynamicOwned' /\ LeavingOwned'
    BY <2>2 DEF DynamicOwned, LeavingOwned, Cached
  <2>. QED
    BY <2>3, <2>4, <2>5 DEF UsageSound
<1>. QED
  BY <1>1, <1>2

LEMMA InitUse == Init => UseInv
<1>. SUFFICES ASSUME Init PROVE CommTypeOK /\ UsageSound
  BY InitRegCacheInv DEF UseInv
<1>1. /\ \A c \in Comms : thread[Main(c)] = Idle /\ thread[Gpe(c)] = Idle
      /\ thread[Async] = Idle
  BY ThreadIds DEF Init, Threads
<1>2. /\ \A s \in Segments : refCount[s] = 0
      /\ \A a \in Addrs : elems[a].state = "none"
      /\ \A c \in Comms : held[c] = {}
  BY DEF Init, NoElem
<1>3. CommTypeOK
  BY DEF Init, CommTypeOK
<1>4. WorksOnOne /\ GpeSound /\ Resting /\ DynamicOwned /\ LeavingOwned
  <2>1. Idle.pc = "idle" /\ Idle.list = {} /\ ~Idle.own
    BY DEF Idle
  <2>2. WorksOnOne /\ Resting
    BY <1>1, <2>1 DEF WorksOnOne, Working, Resting, Init
  <2>3. GpeSound
    BY <1>1, <2>1 DEF GpeSound, InUsePcs
  <2>4. DynamicOwned /\ LeavingOwned
    BY <1>2 DEF DynamicOwned, LeavingOwned, Cached
  <2>. QED
    BY <2>2, <2>3, <2>4
<1>5. Counted
  <2>1. \A s : Holders(s) = {}
    BY <1>1, <1>2 DEF Holders, AtWork, Idle, Working
  <2>. QED
    BY <1>2, <2>1, FS_EmptySet DEF Counted
<1>. QED
  BY <1>3, <1>4, <1>5 DEF UsageSound

\* The invariant of use is kept by every step.
LEMMA NextUse == UseInv /\ [Next]_vars => UseInv'
<1>1. UseInv /\ Next => RegCacheInv'
  BY NextTypes, NextRequestQueued, NextCache DEF UseInv, RegCacheInv
<1>2. UseInv /\ Next => UsageSound'
  BY RangeUse, RegMemUse, DeregMemUse, ReleaseUse, FreeSegmentUse, DeregElemsUse, CollectiveUse,
     RegDynamicUse, ExportMemUse, CollectiveEndsUse, ProcessUse DEF Next, RangeSteps
<1>3. ASSUME UseInv, UNCHANGED vars PROVE UseInv'
  <2>1. RegCacheInv'
    BY <1>3, StutterTypes DEF UseInv
  <2>2. UNCHANGED <<thread, held, aborted, destroyed, refCount, elems, failed, exported>>
    BY <1>3 DEF vars, cacheVars, commVars, historyVars
  <2>3. thread[Async].pc \in {"search", "slow"} => thread[Async].buf # {}
    BY <1>3 DEF UseInv, UsageSound, GpeSound
  <2>4. AsyncStep
    BY <2>2, <2>3 DEF AsyncStep
  <2>5. CommTypeOK'
    BY <1>3, <2>2 DEF UseInv, CommTypeOK
  <2>. QED
    BY <1>3, <2>1, <2>4, <2>5, AsyncFrame DEF UseInv
<1>. QED
  BY <1>1, <1>2, <1>3, CommTypes DEF UseInv

\* Nothing but a registration by regRange gets into reach of a search.
LEMMA SearchGrows ==
    ASSUME RegCacheTypeOK, Next, \A t \in Threads : ~Register(t)
    PROVE  \A a \in Addrs : elems'[a].state = "cached" /\ ~elems'[a].dynamic => elems'[a] = elems[a]
<1>1. elems \in [Addrs -> ElemType]
  BY DEF RegCacheTypeOK
<1>2. CASE elems' = elems
  BY <1>2
<1>3. ASSUME NEW c \in Comms, FreeSegment(c) \/ DeregElems(c) \/ RegDynamic(c) \/ DeregDynamic(c)
      PROVE  \A a \in Addrs : elems'[a].state = "cached" /\ ~elems'[a].dynamic => elems'[a] = elems[a]
  <2>1. CASE FreeSegment(c)
    <3>1. \/ elems' = elems
          \/ \E taken : elems' = [a \in Addrs |->
                 IF a \in taken THEN [elems[a] EXCEPT !.state = "leaving"] ELSE elems[a]]
      BY <2>1 DEF FreeSegment
    <3>. QED
      BY <1>1, <3>1 DEF ElemType
  <2>2. CASE DeregElems(c)
    BY <2>2 DEF DeregElems, NoElem
  <2>3. CASE RegDynamic(c)
    BY <1>1, <2>3 DEF RegDynamic, NewElem
  <2>4. CASE DeregDynamic(c)
    BY <1>1, <2>4 DEF DeregDynamic, NoElem
  <2>. QED
    BY <1>3, <2>1, <2>2, <2>3, <2>4
<1>4. CASE Destroy
  BY <1>4 DEF Destroy, NoElem
<1>. QED
  <2>1. ASSUME NEW t \in Threads,
               FastPath(t) \/ FoundLate(t) \/ RegisterFails(t) \/ NotCached(t)
        PROVE  elems' = elems
    BY <2>1 DEF FastPath, FoundLate, RegisterFails, NotCached, cacheVars
  <2>2. ASSUME NEW c \in Comms,
               \/ \E s \in Segments : RegMem(c, s) \/ DeregMem(c, s)
               \/ \E buf \in mode.buffers : Collective(c, buf)
               \/ Release(c) \/ CollectiveStarts(c) \/ RegDynamicFails(c) \/ ExportMem(c)
               \/ CollectiveEnds(c) \/ CollectiveThrows(c)
        PROVE  elems' = elems
    BY <2>2 DEF RegMem, DeregMem, Collective, Release, CollectiveStarts, RegDynamicFails, ExportMem,
       CollectiveEnds, CollectiveThrows, cacheVars
  <2>3. TakeRequest => elems' = elems
    BY DEF TakeRequest, cacheVars
  <2>. QED
    BY <1>2, <1>3, <1>4, <2>1, <2>2, <2>3 DEF Next

\* regRange never works on nothing.
LEMMA RangeOfSomething ==
    ASSUME UseInv, NEW t \in Threads, thread[t].pc \in {"search", "slow"}
    PROVE  thread[t].buf # {}
<1>1. UsageSound
  BY DEF UseInv
<1>2. CASE \E c \in Comms : t = Main(c)
  BY <1>1, <1>2 DEF UsageSound, WorksOnOne, Working
<1>3. CASE \E c \in Comms : t = Gpe(c)
  BY <1>1, <1>3 DEF UsageSound, GpeSound
<1>4. CASE t = Async
  BY <1>1, <1>4 DEF UsageSound, GpeSound
<1>. QED
  BY <1>2, <1>3, <1>4 DEF Threads

\* A search finds no regElem of an empty range.
CoverSomething == \A a \in Addrs : elems[a].state = "cached" /\ ~elems[a].dynamic => elems[a].segs # {}

LEMMA NextCover ==
    ASSUME UseInv, CoverSomething, [Next]_vars
    PROVE  CoverSomething'
<1>0. RegCacheTypeOK
  BY DEF UseInv, RegCacheInv
<1>1. ASSUME NEW t \in Threads, Register(t) PROVE CoverSomething'
  <2>1. PICK a \in Addrs :
          /\ elems'[a] = [state |-> "cached", segs |-> thread[t].buf, dynamic |-> FALSE]
          /\ \A b \in Addrs : b # a => elems'[b] = elems[b]
    BY <1>0, <1>1, RegisterMakes
  <2>2. thread[t].buf # {}
    BY <1>1, RangeOfSomething DEF Register, At
  <2>. QED
    BY <2>1, <2>2 DEF CoverSomething
<1>2. CASE Next /\ \A t \in Threads : ~Register(t)
  BY <1>0, <1>2, SearchGrows DEF CoverSomething
<1>3. CASE UNCHANGED vars
  BY <1>3 DEF vars, cacheVars, CoverSomething
<1>. QED
  BY <1>1, <1>2, <1>3

\* The invariant of use holds of every state.
LEMMA UseInvariant == Spec => [](UseInv /\ CoverSomething)
<1>1. Init => CoverSomething
  BY DEF Init, CoverSomething, NoElem
<1>2. UseInv /\ CoverSomething /\ [Next]_vars => (UseInv /\ CoverSomething)'
  BY NextUse, NextCover
<1>. QED
  BY InitUse, <1>1, <1>2, PTL DEF Spec

\* When all is freed or the cache destroyed and no thread works, no regElem is left in
\* regHdlToElemMap or out of it, unless a call failed or a collective threw
\* (CtranMapperRegMem.cc: freeSegment, deregElem, deregDynamic, destroy).
THEOREM NothingStaysRegistered == Spec => []NothingLeft
<1>1. UseInv /\ CoverSomething => NothingLeft
  <2>. SUFFICES ASSUME UseInv, CoverSomething, Quiet, ~failed, ~aborted,
                       destroyed \/ \A c \in Comms : held[c] = {},
                       NEW a \in Addrs
                PROVE  elems[a].state = "none"
    BY DEF NothingLeft
  <2>0. RegCacheTypeOK /\ LinkedBack /\ UsageSound
    BY DEF UseInv, RegCacheInv
  <2>1. elems[a] \in ElemType
    BY <2>0 DEF RegCacheTypeOK
  <2>2. \A c \in Comms : thread[Main(c)].pc \in {"idle", "ended"} /\ thread[Gpe(c)].pc \in {"idle", "ended"}
    BY ThreadIds DEF Quiet
  <2>3. CASE destroyed
    BY <2>0, <2>3 DEF UsageSound, Resting
  <2>4. CASE ~destroyed
    <3>1. elems[a].state # "leaving"
      BY <2>0, <2>2 DEF UsageSound, LeavingOwned
    <3>2. ~(elems[a].state = "cached" /\ elems[a].dynamic)
      BY <2>0, <2>2 DEF UsageSound, DynamicOwned, Cached, InUsePcs
    <3>3. \A s : Holders(s) = {}
      BY <2>2, <2>4 DEF Holders, AtWork, Working
    <3>4. \A s \in Segments : refCount[s] = 0
      BY <2>0, <2>4, <3>3, FS_EmptySet DEF UsageSound, Counted
    <3>5. ASSUME elems[a].state = "cached", ~elems[a].dynamic PROVE FALSE
      <4>1. PICK s \in elems[a].segs : TRUE
        BY <3>5 DEF CoverSomething
      <4>2. s \in Segments
        BY <2>1 DEF ElemType
      <4>. QED
        BY <2>0, <3>4, <3>5, <4>1, <4>2 DEF LinkedBack, Cached
    <3>. QED
      BY <2>1, <3>1, <3>2, <3>5 DEF ElemType
  <2>. QED
    BY <2>3, <2>4
<1>. QED
  BY UseInvariant, <1>1, PTL

-----------------------------------------------------------------------------
(* While no registration spans two segments: what keeps the parts of       *)
(* SingleInv.                                                              *)

HasDynamic(g) == g.pc \in InUsePcs /\ g.list # {}
UsesOwn(g) == g.pc = "use" /\ g.own /\ g.list = {}

\* The tables and the regElems a search finds stay as they are.
TablesStep ==
    /\ segToRegElems' = segToRegElems
    /\ \A a \in Addrs :
           \/ elems[a].state = "cached" /\ ~elems[a].dynamic
           \/ elems'[a].state = "cached" /\ ~elems'[a].dynamic
           => elems'[a] = elems[a]

LEMMA TablesKept ==
    ASSUME RegCacheTypeOK, TablesAgree, TablesStep
    PROVE  TablesAgree'
<1>. USE DEF TablesStep
<1>1. /\ \A s \in Segments : \A a \in segToRegElems[s] :
             a \in Addrs /\ elems[a].state = "cached" /\ ~elems[a].dynamic /\ elems[a].segs = {s}
      /\ \A a \in Addrs : elems[a].state = "cached" /\ ~elems[a].dynamic =>
             \E s \in Segments : elems[a].segs = {s}
  BY DEF TablesAgree, Findable, Cached, RegCacheTypeOK
<1>2. /\ \A s \in Segments : \A a \in segToRegElems'[s] :
             elems'[a].state = "cached" /\ ~elems'[a].dynamic /\ elems'[a].segs = {s}
      /\ \A a \in Addrs : elems'[a].state = "cached" /\ ~elems'[a].dynamic =>
             \E s \in Segments : elems'[a].segs = {s}
  BY <1>1
<1>. QED
  BY <1>2 DEF TablesAgree, Findable, Cached

\* No thread starts to deregister, and the regElems that leave stay.
ListsStep ==
    /\ \A d \in Comms : thread'[Main(d)].pc = "deregister" => thread'[Main(d)] = thread[Main(d)]
    /\ \A a \in Addrs : elems[a].state = "leaving" => elems'[a] = elems[a]

LEMMA ListsKept ==
    ASSUME RegCacheTypeOK, ListsApart, ListsStep
    PROVE  ListsApart'
<1>1. \A d \in Comms : thread[Main(d)].list \subseteq Addrs
  BY ThreadIds, ThreadTypes DEF ThreadType
<1>2. /\ \A d \in Comms : thread'[Main(d)].pc = "deregister" =>
             \A a \in thread'[Main(d)].list : elems'[a].state = "leaving"
      /\ \A d, e \in Comms :
             /\ d # e /\ thread'[Main(d)].pc = "deregister" /\ thread'[Main(e)].pc = "deregister"
             => thread'[Main(d)].list \cap thread'[Main(e)].list = {}
  BY <1>1 DEF ListsApart, ListsStep
<1>. QED
  BY <1>2 DEF ListsApart

\* No collective gets a dynamic registration, and those that stay in use stay.
DynamicStep ==
    \A d \in Comms : HasDynamic(thread'[Gpe(d)]) =>
        /\ HasDynamic(thread[Gpe(d)])
        /\ thread'[Gpe(d)].hdl = thread[Gpe(d)].hdl /\ thread'[Gpe(d)].buf = thread[Gpe(d)].buf
        /\ elems'[thread[Gpe(d)].hdl] = elems[thread[Gpe(d)].hdl]

LEMMA DynamicKept ==
    ASSUME DynamicHeld, DynamicStep
    PROVE  DynamicHeld'
<1>1. /\ \A d \in Comms : HasDynamic(thread[Gpe(d)]) =>
             LET a == thread[Gpe(d)].hdl IN
             a \in Addrs /\ elems[a].state = "cached" /\ elems[a].dynamic
             /\ elems[a].segs = thread[Gpe(d)].buf
      /\ \A d, e \in Comms : d # e /\ HasDynamic(thread[Gpe(d)]) /\ HasDynamic(thread[Gpe(e)])
             => thread[Gpe(d)].hdl # thread[Gpe(e)].hdl
  BY DEF DynamicHeld, HasDynamic, Dynamic, Cached
<1>2. /\ \A d \in Comms : HasDynamic(thread'[Gpe(d)]) =>
             LET a == thread'[Gpe(d)].hdl IN
             a \in Addrs /\ elems'[a].state = "cached" /\ elems'[a].dynamic
             /\ elems'[a].segs = thread'[Gpe(d)].buf
      /\ \A d, e \in Comms : d # e /\ HasDynamic(thread'[Gpe(d)]) /\ HasDynamic(thread'[Gpe(e)])
             => thread'[Gpe(d)].hdl # thread'[Gpe(e)].hdl
  BY <1>1 DEF DynamicStep
<1>. QED
  BY <1>2 DEF DynamicHeld, HasDynamic, Dynamic, Cached

\* The collectives that use what their communicator holds go on doing so.
OwnStep ==
    \A d \in Comms : UsesOwn(thread'[Gpe(d)]) =>
        /\ thread'[Gpe(d)] = thread[Gpe(d)]
        /\ thread[Gpe(d)].buf \subseteq held[d] => thread[Gpe(d)].buf \subseteq held'[d]
        /\ elems'[thread[Gpe(d)].hdl] = elems[thread[Gpe(d)].hdl]

LEMMA OwnKept ==
    ASSUME OwnHeld, OwnStep
    PROVE  OwnHeld'
<1>1. \A d \in Comms : UsesOwn(thread[Gpe(d)]) =>
          LET a == thread[Gpe(d)].hdl IN
          /\ thread[Gpe(d)].buf \subseteq held[d] /\ a \in Addrs
          /\ elems[a].state = "cached" /\ ~elems[a].dynamic /\ elems[a].segs = thread[Gpe(d)].buf
  BY DEF OwnHeld, UsesOwn, At, Dynamic, Findable, Cached
<1>2. \A d \in Comms : UsesOwn(thread'[Gpe(d)]) =>
          LET a == thread'[Gpe(d)].hdl IN
          /\ thread'[Gpe(d)].buf \subseteq held'[d] /\ a \in Addrs
          /\ elems'[a].state = "cached" /\ ~elems'[a].dynamic /\ elems'[a].segs = thread'[Gpe(d)].buf
  BY <1>1 DEF OwnStep
<1>. QED
  BY <1>2 DEF OwnHeld, UsesOwn, At, Dynamic, Findable, Cached

\* Nothing is exported, what was exported stays, and its owner stays.
ReleasesIt(m, a, segs) == m.pc = "release" /\ a \in m.list /\ segs = m.buf

ExportsStep ==
    /\ borrowed' = borrowed
    /\ \A d \in Comms \ borrowed : \A a \in exported'[d] :
           /\ a \in exported[d]
           /\ elems'[a] = elems[a]
           /\ /\ ~elems[a].dynamic
              /\ \/ elems[a].segs \subseteq held[d]
                 \/ ReleasesIt(thread[Main(d)], a, elems[a].segs)
              => \/ elems[a].segs \subseteq held'[d]
                 \/ ReleasesIt(thread'[Main(d)], a, elems[a].segs)
    /\ \A d \in Comms : HasDynamic(thread'[Gpe(d)]) =>
           \/ \A e \in Comms \ borrowed : thread'[Gpe(d)].hdl \notin exported'[e]
           \/ /\ HasDynamic(thread[Gpe(d)]) /\ thread'[Gpe(d)].hdl = thread[Gpe(d)].hdl
              /\ thread[Gpe(d)].pc = "use" => thread'[Gpe(d)].pc = "use"

LEMMA ExportsKept ==
    ASSUME ExportsOwned, ExportsStep
    PROVE  ExportsOwned'
<1>. USE DEF ExportsStep
<1>. SUFFICES ASSUME NEW c \in Comms \ borrowed, NEW a \in exported'[c]
              PROVE  /\ a \in Addrs /\ elems'[a].state = "cached"
                     /\ elems'[a].dynamic => \A d \in Comms :
                            HasDynamic(thread'[Gpe(d)]) /\ thread'[Gpe(d)].hdl = a =>
                            d = c /\ thread'[Gpe(d)].pc = "use"
                     /\ ~elems'[a].dynamic =>
                            \/ elems'[a].segs \subseteq held'[c]
                            \/ ReleasesIt(thread'[Main(c)], a, elems'[a].segs)
  BY DEF ExportsOwned, Cached, Dynamic, HasDynamic, ReleasesIt
<1>1. a \in exported[c] /\ elems'[a] = elems[a]
  OBVIOUS
<1>2. /\ a \in Addrs /\ elems[a].state = "cached"
      /\ elems[a].dynamic => \A d \in Comms :
             HasDynamic(thread[Gpe(d)]) /\ thread[Gpe(d)].hdl = a =>
             d = c /\ thread[Gpe(d)].pc = "use"
      /\ ~elems[a].dynamic =>
             \/ elems[a].segs \subseteq held[c]
             \/ ReleasesIt(thread[Main(c)], a, elems[a].segs)
  BY <1>1 DEF ExportsOwned, Cached, Dynamic, HasDynamic, ReleasesIt
<1>3. ASSUME elems[a].dynamic, NEW d \in Comms, HasDynamic(thread'[Gpe(d)]), thread'[Gpe(d)].hdl = a
      PROVE  d = c /\ thread'[Gpe(d)].pc = "use"
  <2>1. \/ thread'[Gpe(d)].hdl \notin exported'[c]
        \/ /\ HasDynamic(thread[Gpe(d)]) /\ thread'[Gpe(d)].hdl = thread[Gpe(d)].hdl
           /\ thread[Gpe(d)].pc = "use" => thread'[Gpe(d)].pc = "use"
    BY <1>3
  <2>. QED
    BY <1>2, <1>3, <2>1
<1>. QED
  BY <1>1, <1>2, <1>3

\* Nothing leaves the cache.
Grows ==
    /\ \A a \in Addrs : elems[a].state # "none" => elems'[a] = elems[a]
    /\ TablesAgree'

\* What SingleInv says of the handles in use and of what is exported.
LEMMA SingleFacts ==
    ASSUME SingleInv
    PROVE  /\ \A d \in Comms : HasDynamic(thread[Gpe(d)]) =>
                  LET a == thread[Gpe(d)].hdl IN
                  /\ a \in Addrs /\ elems[a].state = "cached" /\ elems[a].dynamic
                  /\ elems[a].segs = thread[Gpe(d)].buf
           /\ \A d, e \in Comms : d # e /\ HasDynamic(thread[Gpe(d)]) /\ HasDynamic(thread[Gpe(e)])
                  => thread[Gpe(d)].hdl # thread[Gpe(e)].hdl
           /\ \A d \in Comms : UsesOwn(thread[Gpe(d)]) =>
                  LET a == thread[Gpe(d)].hdl IN
                  /\ thread[Gpe(d)].buf \subseteq held[d] /\ a \in Addrs
                  /\ elems[a].state = "cached" /\ ~elems[a].dynamic
                  /\ elems[a].segs = thread[Gpe(d)].buf
           /\ \A d \in Comms \ borrowed : \A a \in exported[d] :
                  /\ a \in Addrs /\ elems[a].state = "cached"
                  /\ elems[a].dynamic => \A e \in Comms :
                         HasDynamic(thread[Gpe(e)]) /\ thread[Gpe(e)].hdl = a =>
                         e = d /\ thread[Gpe(e)].pc = "use"
                  /\ ~elems[a].dynamic =>
                         \/ elems[a].segs \subseteq held[d]
                         \/ ReleasesIt(thread[Main(d)], a, elems[a].segs)
<1>1. DynamicHeld /\ OwnHeld /\ ExportsOwned
  BY DEF SingleInv
<1>2. /\ \A d \in Comms : HasDynamic(thread[Gpe(d)]) =>
             LET a == thread[Gpe(d)].hdl IN
             /\ a \in Addrs /\ elems[a].state = "cached" /\ elems[a].dynamic
             /\ elems[a].segs = thread[Gpe(d)].buf
      /\ \A d, e \in Comms : d # e /\ HasDynamic(thread[Gpe(d)]) /\ HasDynamic(thread[Gpe(e)])
             => thread[Gpe(d)].hdl # thread[Gpe(e)].hdl
  BY <1>1 DEF DynamicHeld, HasDynamic, Dynamic, Cached
<1>3. \A d \in Comms : UsesOwn(thread[Gpe(d)]) =>
          LET a == thread[Gpe(d)].hdl IN
          /\ thread[Gpe(d)].buf \subseteq held[d] /\ a \in Addrs
          /\ elems[a].state = "cached" /\ ~elems[a].dynamic
          /\ elems[a].segs = thread[Gpe(d)].buf
  BY <1>1 DEF OwnHeld, UsesOwn, At, Dynamic, Findable, Cached
<1>4. \A d \in Comms \ borrowed : \A a \in exported[d] :
          /\ a \in Addrs /\ elems[a].state = "cached"
          /\ elems[a].dynamic => \A e \in Comms :
                 HasDynamic(thread[Gpe(e)]) /\ thread[Gpe(e)].hdl = a =>
                 e = d /\ thread[Gpe(e)].pc = "use"
          /\ ~elems[a].dynamic =>
                 \/ elems[a].segs \subseteq held[d]
                 \/ ReleasesIt(thread[Main(d)], a, elems[a].segs)
  BY <1>1 DEF ExportsOwned, Cached, Dynamic, HasDynamic, ReleasesIt
<1>. QED
  BY <1>2, <1>3, <1>4

MainGrows(c, r) ==
    /\ Grows
    /\ thread' = [thread EXCEPT ![Main(c)] = r]
    /\ r.pc # "deregister"
    /\ borrowed' = borrowed
    /\ \A d \in Comms : d # c => held'[d] = held[d] /\ exported'[d] = exported[d]
    /\ thread[Gpe(c)].buf \subseteq held[c] => thread[Gpe(c)].buf \subseteq held'[c]
    /\ c \notin borrowed =>
           \A a \in exported'[c] :
               /\ a \in exported[c]
               /\ /\ ~elems[a].dynamic
                  /\ \/ elems[a].segs \subseteq held[c]
                     \/ ReleasesIt(thread[Main(c)], a, elems[a].segs)
                  => \/ elems[a].segs \subseteq held'[c]
                     \/ ReleasesIt(r, a, elems[a].segs)

LEMMA MainSingle ==
    ASSUME UseInv, SingleInv, NEW c \in Comms, NEW r, MainGrows(c, r)
    PROVE  SingleInv'
<1>. USE DEF MainGrows, Grows
<1>0. RegCacheTypeOK /\ ListsApart /\ DynamicHeld /\ OwnHeld /\ ExportsOwned
  BY DEF UseInv, RegCacheInv, SingleInv
<1>1. /\ thread'[Main(c)] = r
      /\ \A d \in Comms : thread'[Gpe(d)] = thread[Gpe(d)]
      /\ \A d \in Comms : d # c => thread'[Main(d)] = thread[Main(d)]
  BY <1>0, MainMoves
<1>2. ListsApart'
  <2>1. ListsStep
    BY <1>1 DEF ListsStep
  <2>. QED
    BY <1>0, <2>1, ListsKept
<1>3. DynamicHeld'
  <2>1. DynamicStep
    BY <1>1, SingleFacts DEF DynamicStep
  <2>. QED
    BY <1>0, <2>1, DynamicKept
<1>4. OwnHeld'
  <2>1. OwnStep
    BY <1>1, SingleFacts DEF OwnStep
  <2>. QED
    BY <1>0, <2>1, OwnKept
<1>5. ExportsOwned'
  <2>1. \A d \in Comms \ borrowed : \A a \in exported[d] : a \in Addrs /\ elems[a].state = "cached"
    BY SingleFacts
  <2>2. \A d \in Comms \ borrowed : \A a \in exported'[d] :
           /\ a \in exported[d]
           /\ elems'[a] = elems[a]
           /\ /\ ~elems[a].dynamic
              /\ \/ elems[a].segs \subseteq held[d]
                 \/ ReleasesIt(thread[Main(d)], a, elems[a].segs)
              => \/ elems[a].segs \subseteq held'[d]
                 \/ ReleasesIt(thread'[Main(d)], a, elems[a].segs)
    <3>. SUFFICES ASSUME NEW d \in Comms \ borrowed, NEW a \in exported'[d]
                  PROVE  /\ a \in exported[d]
                         /\ /\ ~elems[a].dynamic
                            /\ \/ elems[a].segs \subseteq held[d]
                               \/ ReleasesIt(thread[Main(d)], a, elems[a].segs)
                            => \/ elems[a].segs \subseteq held'[d]
                               \/ ReleasesIt(thread'[Main(d)], a, elems[a].segs)
      BY <2>1
    <3>1. CASE d = c
      BY <1>1, <3>1
    <3>2. CASE d # c
      BY <1>1, <3>2
    <3>. QED
      BY <3>1, <3>2
  <2>3. ExportsStep
    BY <1>1, <2>2 DEF ExportsStep
  <2>. QED
    BY <1>0, <2>3, ExportsKept
<1>. QED
  BY <1>2, <1>3, <1>4, <1>5 DEF SingleInv

GpeGrows(c, r) ==
    /\ Grows
    /\ thread' = [thread EXCEPT ![Gpe(c)] = r]
    /\ held' = held /\ borrowed' = borrowed
    /\ \A d \in Comms : exported'[d] \subseteq exported[d]
    /\ HasDynamic(r) =>
           /\ HasDynamic(thread[Gpe(c)])
           /\ r.hdl = thread[Gpe(c)].hdl /\ r.buf = thread[Gpe(c)].buf
           /\ \/ r.pc = "use"
              \/ \A e \in Comms \ borrowed : r.hdl \notin exported'[e]
    /\ UsesOwn(r) =>
           /\ r.buf \subseteq held[c] /\ r.hdl \in Addrs
           /\ elems'[r.hdl].state = "cached" /\ ~elems'[r.hdl].dynamic
           /\ elems'[r.hdl].segs = r.buf

LEMMA GpeSingle ==
    ASSUME UseInv, SingleInv, NEW c \in Comms, NEW r, GpeGrows(c, r)
    PROVE  SingleInv'
<1>. USE DEF GpeGrows, Grows
<1>0. RegCacheTypeOK /\ ListsApart /\ DynamicHeld /\ OwnHeld /\ ExportsOwned
  BY DEF UseInv, RegCacheInv, SingleInv
<1>1. /\ thread'[Gpe(c)] = r
      /\ \A d \in Comms : thread'[Main(d)] = thread[Main(d)]
      /\ \A d \in Comms : d # c => thread'[Gpe(d)] = thread[Gpe(d)]
  BY <1>0, GpeMoves
<1>2. ListsApart'
  <2>1. ListsStep
    BY <1>1 DEF ListsStep
  <2>. QED
    BY <1>0, <2>1, ListsKept
<1>3. DynamicHeld'
  <2>1. DynamicStep
    <3>. SUFFICES ASSUME NEW d \in Comms, HasDynamic(thread'[Gpe(d)])
                  PROVE  /\ HasDynamic(thread[Gpe(d)])
                         /\ thread'[Gpe(d)].hdl = thread[Gpe(d)].hdl
                         /\ thread'[Gpe(d)].buf = thread[Gpe(d)].buf
                         /\ elems'[thread[Gpe(d)].hdl] = elems[thread[Gpe(d)].hdl]
      BY DEF DynamicStep
    <3>1. /\ HasDynamic(thread[Gpe(d)])
          /\ thread'[Gpe(d)].hdl = thread[Gpe(d)].hdl
          /\ thread'[Gpe(d)].buf = thread[Gpe(d)].buf
      BY <1>1
    <3>2. thread[Gpe(d)].hdl \in Addrs /\ elems[thread[Gpe(d)].hdl].state = "cached"
      BY <3>1, SingleFacts
    <3>. QED
      BY <3>1, <3>2
  <2>. QED
    BY <1>0, <2>1, DynamicKept
<1>4. OwnHeld'
  <2>. SUFFICES ASSUME NEW d \in Comms, UsesOwn(thread'[Gpe(d)])
                PROVE  LET a == thread'[Gpe(d)].hdl IN
                       /\ thread'[Gpe(d)].buf \subseteq held'[d] /\ a \in Addrs
                       /\ elems'[a].state = "cached" /\ ~elems'[a].dynamic
                       /\ elems'[a].segs = thread'[Gpe(d)].buf
    BY DEF OwnHeld, UsesOwn, At, Dynamic, Findable, Cached
  <2>1. CASE d = c
    BY <1>1, <2>1
  <2>2. CASE d # c
    BY <1>1, <2>2, SingleFacts
  <2>. QED
    BY <2>1, <2>2
<1>5. ExportsOwned'
  <2>1. \A d \in Comms \ borrowed : \A a \in exported[d] : a \in Addrs /\ elems[a].state = "cached"
    BY SingleFacts
  <2>2. \A d \in Comms : HasDynamic(thread'[Gpe(d)]) =>
           \/ \A e \in Comms \ borrowed : thread'[Gpe(d)].hdl \notin exported'[e]
           \/ /\ HasDynamic(thread[Gpe(d)]) /\ thread'[Gpe(d)].hdl = thread[Gpe(d)].hdl
              /\ thread[Gpe(d)].pc = "use" => thread'[Gpe(d)].pc = "use"
    BY <1>1
  <2>3. ExportsStep
    BY <1>1, <2>1, <2>2 DEF ExportsStep
  <2>. QED
    BY <1>0, <2>3, ExportsKept
<1>. QED
  BY <1>2, <1>3, <1>4, <1>5 DEF SingleInv

\* The asynchronous thread, or none.
AsyncGrows ==
    /\ Grows
    /\ \A d \in Comms : thread'[Main(d)] = thread[Main(d)] /\ thread'[Gpe(d)] = thread[Gpe(d)]
    /\ UNCHANGED <<held, exported, borrowed>>

LEMMA AsyncSingle ==
    ASSUME UseInv, SingleInv, AsyncGrows
    PROVE  SingleInv'
<1>. USE DEF AsyncGrows, Grows
<1>0. RegCacheTypeOK /\ ListsApart /\ DynamicHeld /\ OwnHeld /\ ExportsOwned
  BY DEF UseInv, RegCacheInv, SingleInv
<1>1. ListsStep /\ DynamicStep /\ OwnStep
  BY SingleFacts DEF ListsStep, DynamicStep, OwnStep
<1>2. ExportsStep
  BY SingleFacts DEF ExportsStep
<1>. QED
  BY <1>0, <1>1, <1>2, ListsKept, DynamicKept, OwnKept, ExportsKept DEF SingleInv

-----------------------------------------------------------------------------
(* The steps, while no registration spans two segments.                    *)

\* A step that leaves the cache alone.
LEMMA SameGrows ==
    ASSUME RegCacheTypeOK, TablesAgree, UNCHANGED <<elems, segToRegElems>>
    PROVE  Grows
<1>1. TablesStep
  BY DEF TablesStep
<1>. QED
  BY <1>1, TablesKept DEF Grows

\* A new dynamic regElem is in no table.
LEMMA DynamicGrows ==
    ASSUME RegCacheTypeOK, TablesAgree, NEW a \in Addrs, elems[a].state = "none",
           segToRegElems' = segToRegElems, elems'[a].dynamic,
           \A b \in Addrs : b # a => elems'[b] = elems[b]
    PROVE  Grows
<1>1. TablesStep
  BY DEF TablesStep
<1>2. \A b \in Addrs : elems[b].state # "none" => elems'[b] = elems[b]
  OBVIOUS
<1>. QED
  BY <1>1, <1>2, TablesKept DEF Grows

\* regRange registers one segment, for which the tables know the new regElem.
LEMMA RegisterSingle ==
    ASSUME UseInv, TablesAgree, NEW t \in Threads, Register(t), ~spanned'
    PROVE  Grows /\ \E s \in Segments : thread[t].buf = {s}
<1>0. RegCacheTypeOK
  BY DEF UseInv, RegCacheInv
<1>1. PICK a \in Addrs :
             /\ elems[a].state = "none"
             /\ elems'[a] = [state |-> "cached", segs |-> thread[t].buf, dynamic |-> FALSE]
             /\ \A b \in Addrs : b # a => elems'[b] = elems[b]
             /\ segToRegElems' = [s \in Segments |->
                    IF s \in thread[t].buf THEN segToRegElems[s] \cup {a} ELSE segToRegElems[s]]
             /\ spanned' = (spanned \/ Cardinality(thread[t].buf) > 1)
  BY <1>0, RegisterMakes
<1>2. thread[t].buf # {}
  BY RangeOfSomething DEF Register, At
<1>3. thread[t].buf \subseteq Segments
  BY <1>0, ThreadTypes DEF ThreadType
<1>4. PICK s \in Segments : thread[t].buf = {s}
  <2>1. IsFiniteSet(thread[t].buf) /\ Cardinality(thread[t].buf) \in Nat
    BY <1>3, RegCacheAssumption, FS_Subset, FS_CardinalityType
  <2>2. Cardinality(thread[t].buf) <= 1
    <3>1. ~(Cardinality(thread[t].buf) > 1)
      BY <1>1, Zenon
    <3>. QED
      BY <2>1, <3>1
  <2>3. PICK s \in thread[t].buf : TRUE
    BY <1>2
  <2>4. /\ Cardinality(thread[t].buf \ {s}) = Cardinality(thread[t].buf) - 1
        /\ IsFiniteSet(thread[t].buf \ {s})
    BY <2>1, <2>3, FS_RemoveElement
  <2>5. Cardinality(thread[t].buf \ {s}) \in Nat
    BY <2>4, FS_CardinalityType
  <2>6. thread[t].buf \ {s} = {}
    BY <2>1, <2>2, <2>4, <2>5, FS_EmptySet
  <2>. QED
    BY <1>3, <2>3, <2>6
<1>5. TablesAgree'
  <2>1. /\ \A r \in Segments : \A b \in segToRegElems[r] :
               b \in Addrs /\ elems[b].state = "cached" /\ ~elems[b].dynamic /\ elems[b].segs = {r}
        /\ \A b \in Addrs : elems[b].state = "cached" /\ ~elems[b].dynamic =>
               \E r \in Segments : elems[b].segs = {r}
    BY <1>0 DEF TablesAgree, Findable, Cached, RegCacheTypeOK
  <2>2. ASSUME NEW r \in Segments, NEW b \in segToRegElems'[r]
        PROVE  elems'[b].state = "cached" /\ ~elems'[b].dynamic /\ elems'[b].segs = {r}
    <3>1. CASE b = a
      <4>1. r = s
        BY <1>1, <1>4, <2>1, <2>2, <3>1
      <4>. QED
        BY <1>1, <1>4, <3>1, <4>1
    <3>2. CASE b # a
      <4>1. b \in segToRegElems[r]
        BY <1>1, <2>2, <3>2
      <4>. QED
        BY <1>1, <2>1, <3>2, <4>1
    <3>. QED
      BY <3>1, <3>2
  <2>3. ASSUME NEW b \in Addrs, elems'[b].state = "cached", ~elems'[b].dynamic
        PROVE  \E r \in Segments : elems'[b].segs = {r}
    BY <1>1, <1>4, <2>1, <2>3
  <2>. QED
    BY <2>2, <2>3 DEF TablesAgree, Findable, Cached
<1>. QED
  BY <1>1, <1>4, <1>5 DEF Grows

\* A search of one segment's tables finds the regElem of exactly the buffer.
LEMMA FoundExactly ==
    ASSUME RegCacheTypeOK, TablesAgree, NEW buf, buf # {}, NEW a \in Found(buf)
    PROVE  a \in Addrs /\ elems[a].state = "cached" /\ ~elems[a].dynamic /\ elems[a].segs = buf
<1>1. a \in Addrs /\ elems[a].state = "cached" /\ ~elems[a].dynamic /\ buf \subseteq elems[a].segs
  BY DEF Found, Cached
<1>2. PICK s \in Segments : elems[a].segs = {s}
  BY <1>1 DEF TablesAgree, Findable, Cached
<1>. QED
  BY <1>1, <1>2

LEMMA RangeSingle ==
    ASSUME UseInv, SingleInv, NEW t \in Threads, RangeSteps(t), ~spanned'
    PROVE  SingleInv'
<1>0. RegCacheTypeOK /\ UsageSound /\ CommTypeOK /\ TablesAgree
  BY DEF UseInv, RegCacheInv, SingleInv
<1>1. /\ UNCHANGED <<exported, borrowed>>
      /\ thread[t].pc \in {"search", "slow"}
      /\ Register(t) \/ UNCHANGED <<elems, segToRegElems>>
  BY <1>0, RangeFrame
<1>2. Grows
  BY <1>0, <1>1, SameGrows, RegisterSingle
<1>3. CASE \E c \in Comms : t = Main(c)
  <2>1. PICK c \in Comms : t = Main(c)
    BY <1>3
  <2>2. PICK r \in ThreadType :
          /\ thread' = [thread EXCEPT ![Main(c)] = r]
          /\ \/ r.pc = "slow" /\ held' = held
             \/ r = Idle /\ held' = [held EXCEPT ![c] = @ \cup thread[Main(c)].buf]
             \/ r = Idle /\ held' = held
    BY <1>0, <2>1, MainRange
  <2>3. /\ \A d \in Comms : d # c => held'[d] = held[d]
        /\ held[c] \subseteq held'[c]
    BY <1>0, <2>2 DEF CommTypeOK
  <2>4. r.pc # "deregister"
    BY <2>2 DEF Idle
  <2>5. \A a, segs : ~ReleasesIt(thread[Main(c)], a, segs)
    BY <1>1, <2>1 DEF ReleasesIt
  <2>6. MainGrows(c, r)
    BY <1>1, <1>2, <2>2, <2>3, <2>4, <2>5 DEF MainGrows
  <2>. QED
    BY <2>6, MainSingle
<1>4. CASE \E c \in Comms : t = Gpe(c)
  <2>1. PICK c \in Comms : t = Gpe(c)
    BY <1>4
  <2>2. PICK r \in ThreadType :
          /\ thread' = [thread EXCEPT ![Gpe(c)] = r] /\ held' = held
          /\ \/ r.pc \in {"slow", "dynamic"}
             \/ r = Idle
             \/ /\ r.pc = "use" /\ r.buf = thread[Gpe(c)].buf /\ r.list = thread[Gpe(c)].list
                /\ r.own <=> thread[Gpe(c)].buf \subseteq held[c]
                /\ \/ Register(Gpe(c)) /\ Resolve(Gpe(c), r.hdl)
                   \/ ~Register(Gpe(c)) /\ r.hdl \in Found(thread[Gpe(c)].buf)
    BY <1>0, <2>1, GpeRange
  <2>3. thread[Gpe(c)].list = {} /\ thread[Gpe(c)].buf # {}
    BY <1>0, <1>1, <2>1 DEF UsageSound, GpeSound, InUsePcs
  <2>4. ~HasDynamic(r)
    BY <2>2, <2>3 DEF HasDynamic, InUsePcs, Idle
  <2>5. ASSUME UsesOwn(r)
        PROVE  /\ r.buf \subseteq held[c] /\ r.hdl \in Addrs
               /\ elems'[r.hdl].state = "cached" /\ ~elems'[r.hdl].dynamic
               /\ elems'[r.hdl].segs = r.buf
    <3>1. /\ r.pc = "use" /\ r.buf = thread[Gpe(c)].buf /\ r.buf \subseteq held[c]
          /\ \/ Register(Gpe(c)) /\ Resolve(Gpe(c), r.hdl)
             \/ ~Register(Gpe(c)) /\ r.hdl \in Found(thread[Gpe(c)].buf)
      BY <2>2, <2>5 DEF UsesOwn, Idle
    <3>2. CASE Register(Gpe(c)) /\ Resolve(Gpe(c), r.hdl)
      <4>1. PICK a \in Addrs :
              /\ Resolve(Gpe(c), a)
              /\ elems'[a] = [state |-> "cached", segs |-> thread[Gpe(c)].buf, dynamic |-> FALSE]
        BY <1>0, <2>1, <3>2, RegisterMakes
      <4>2. r.hdl = a
        <5>1. thread'[Gpe(c)] = r
          BY <1>0, <2>2, GpeMoves
        <5>2. PICK own : thread' = [thread EXCEPT ![Gpe(c)].pc = "use", ![Gpe(c)].hdl = a,
                                                  ![Gpe(c)].own = own]
          BY <4>1 DEF Resolve, Gpe
        <5>3. thread[Gpe(c)] \in ThreadType /\ thread \in [Threads -> ThreadType] /\ Gpe(c) \in Threads
          BY <1>0, ThreadIds, ThreadTypes DEF RegCacheTypeOK
        <5>. QED
          BY <5>1, <5>2, <5>3 DEF ThreadType
      <4>. QED
        BY <3>1, <4>1, <4>2
    <3>3. CASE ~Register(Gpe(c)) /\ r.hdl \in Found(thread[Gpe(c)].buf)
      <4>1. elems' = elems
        BY <1>1, <2>1, <3>3
      <4>. QED
        BY <1>0, <2>3, <3>1, <3>3, <4>1, FoundExactly
    <3>. QED
      BY <3>1, <3>2, <3>3
  <2>6. GpeGrows(c, r)
    BY <1>1, <1>2, <2>2, <2>4, <2>5 DEF GpeGrows
  <2>. QED
    BY <2>6, GpeSingle
<1>5. CASE t = Async
  <2>1. PICK r \in ThreadType : thread' = [thread EXCEPT ![Async] = r] /\ held' = held
    BY <1>0, <1>5, AsyncRange
  <2>2. AsyncGrows
    BY <1>0, <1>1, <1>2, <2>1, AsyncMoves DEF AsyncGrows
  <2>. QED
    BY <2>2, AsyncSingle
<1>. QED
  BY <1>3, <1>4, <1>5 DEF Threads

LEMMA RegMemSingle ==
    ASSUME UseInv, SingleInv, NEW c \in Comms, NEW x \in Segments, RegMem(c, x)
    PROVE  SingleInv'
<1>0. RegCacheTypeOK /\ CommTypeOK /\ TablesAgree
  BY DEF UseInv, RegCacheInv, SingleInv
<1>1. UNCHANGED <<elems, segToRegElems, exported, borrowed>> /\ thread[Main(c)].pc = "idle"
  BY DEF RegMem, At, historyVars
<1>2. PICK r : /\ thread' = [thread EXCEPT ![Main(c)] = r]
               /\ r.pc # "deregister"
               /\ held' = held \/ held' = [held EXCEPT ![c] = @ \cup {x}]
  <2>1. CASE mode.register = "eager"
    <3>. DEFINE r == [Idle EXCEPT !.pc = "search", !.buf = {x}]
    <3>1. r.pc = "search"
      BY DEF Idle
    <3>2. thread' = [thread EXCEPT ![Main(c)] = r] /\ held' = held
      BY <2>1 DEF RegMem
    <3>. HIDE DEF r
    <3>. QED
      BY <3>1, <3>2
  <2>2. CASE mode.register # "eager"
    <3>. DEFINE r == thread[Main(c)]
    <3>1. thread' = [thread EXCEPT ![Main(c)] = r]
      BY <1>0, <2>2 DEF RegMem, RegCacheTypeOK
    <3>2. r.pc = "idle" /\ held' = [held EXCEPT ![c] = @ \cup {x}]
      BY <1>1, <2>2 DEF RegMem
    <3>. HIDE DEF r
    <3>. QED
      BY <3>1, <3>2
  <2>. QED
    BY <2>1, <2>2
<1>3. (\A d \in Comms : d # c => held'[d] = held[d]) /\ held[c] \subseteq held'[c]
  BY <1>0, <1>2 DEF CommTypeOK
<1>4. \A a, segs : ~ReleasesIt(thread[Main(c)], a, segs)
  BY <1>1 DEF ReleasesIt
<1>5. MainGrows(c, r)
  BY <1>0, <1>1, <1>2, <1>3, <1>4, SameGrows DEF MainGrows
<1>. QED
  BY <1>5, MainSingle

LEMMA DeregMemSingle ==
    ASSUME UseInv, SingleInv, NEW c \in Comms, NEW x \in Segments, DeregMem(c, x)
    PROVE  SingleInv'
<1>0. RegCacheTypeOK /\ CommTypeOK /\ TablesAgree /\ LinkedBack
  BY DEF UseInv, RegCacheInv, SingleInv
<1>1. /\ UNCHANGED <<elems, segToRegElems, exported, borrowed>>
      /\ thread[Main(c)].pc = "idle" /\ x \notin thread[Gpe(c)].buf
      /\ held' = [held EXCEPT ![c] = @ \ {x}]
  BY DEF DeregMem, At, historyVars, cacheVars
<1>2. PICK r : /\ thread' = [thread EXCEPT ![Main(c)] = r]
               /\ r.pc = "release" /\ r.buf = {x} /\ r.list = segToRegElems[x]
  <2>. DEFINE r == [Idle EXCEPT !.pc = "release", !.buf = {x}, !.list = segToRegElems[x]]
  <2>1. r.pc = "release" /\ r.buf = {x} /\ r.list = segToRegElems[x]
    BY DEF Idle
  <2>2. thread' = [thread EXCEPT ![Main(c)] = r]
    BY DEF DeregMem
  <2>. HIDE DEF r
  <2>. QED
    BY <2>1, <2>2
<1>3. (\A d \in Comms : d # c => held'[d] = held[d]) /\ held'[c] = held[c] \ {x}
  BY <1>0, <1>1 DEF CommTypeOK
<1>4. thread[Gpe(c)].buf \subseteq held[c] => thread[Gpe(c)].buf \subseteq held'[c]
  BY <1>1, <1>3
<1>5. ASSUME c \notin borrowed, NEW a \in exported[c], ~elems[a].dynamic
      PROVE  elems[a].segs \subseteq held'[c] \/ ReleasesIt(r, a, elems[a].segs)
  <2>1. a \in Addrs /\ elems[a].state = "cached" /\ elems[a].segs \subseteq held[c]
    BY <1>1, <1>5, SingleFacts DEF ReleasesIt
  <2>2. PICK s \in Segments : elems[a].segs = {s}
    BY <1>0, <1>5, <2>1 DEF TablesAgree, Findable, Cached
  <2>3. CASE s = x
    <3>1. a \in segToRegElems[x]
      BY <1>0, <1>5, <2>1, <2>2, <2>3 DEF LinkedBack, Cached
    <3>. QED
      BY <1>2, <2>2, <2>3, <3>1 DEF ReleasesIt
  <2>4. CASE s # x
    BY <1>3, <2>1, <2>2, <2>4
  <2>. QED
    BY <2>3, <2>4
<1>6. MainGrows(c, r)
  BY <1>0, <1>1, <1>2, <1>3, <1>4, <1>5, SameGrows DEF MainGrows
<1>. QED
  BY <1>6, MainSingle

LEMMA ReleaseSingle ==
    ASSUME UseInv, SingleInv, NEW c \in Comms, Release(c)
    PROVE  SingleInv'
<1>0. RegCacheTypeOK /\ CommTypeOK /\ TablesAgree
  BY DEF UseInv, RegCacheInv, SingleInv
<1>1. /\ UNCHANGED <<elems, segToRegElems, held, borrowed>>
      /\ exported' = [exported EXCEPT ![c] = @ \ thread[Main(c)].list]
  BY DEF Release, Released, historyVars, cacheVars
<1>2. PICK r : thread' = [thread EXCEPT ![Main(c)] = r] /\ r.pc = "free"
  <2>. DEFINE r == [thread[Main(c)] EXCEPT !.pc = "free"]
  <2>1. thread[Main(c)] \in ThreadType
    BY <1>0, ThreadIds, ThreadTypes
  <2>2. r.pc = "free"
    BY <2>1 DEF ThreadType
  <2>3. thread' = [thread EXCEPT ![Main(c)] = r]
    BY DEF Release, Goto
  <2>. HIDE DEF r
  <2>. QED
    BY <2>2, <2>3
<1>3. /\ \A d \in Comms : d # c => exported'[d] = exported[d]
      /\ exported'[c] = exported[c] \ thread[Main(c)].list
  BY <1>0, <1>1 DEF CommTypeOK
<1>4. \A segs : \A a \in exported'[c] : ~ReleasesIt(thread[Main(c)], a, segs)
  BY <1>3 DEF ReleasesIt
<1>5. MainGrows(c, r)
  BY <1>0, <1>1, <1>2, <1>3, <1>4, SameGrows DEF MainGrows
<1>. QED
  BY <1>5, MainSingle

\* The registrations of a segment nobody else holds are nobody's handle and no export.
LEMMA NobodyUses ==
    ASSUME UseInv, SingleInv, ~destroyed, NEW c \in Comms, NEW x \in Segments,
           thread[Main(c)].pc = "free", thread[Main(c)].buf = {x}, x \notin held[c],
           LastHolder(x), NEW a \in segToRegElems[x]
    PROVE  /\ a \in Addrs /\ elems[a].state = "cached" /\ ~elems[a].dynamic
           /\ \A d \in Comms : UsesOwn(thread[Gpe(d)]) => thread[Gpe(d)].hdl # a
           /\ \A d \in Comms \ borrowed : a \notin exported[d]
<1>0. RegCacheTypeOK /\ TablesAgree
  BY DEF UseInv, RegCacheInv, SingleInv
<1>1. a \in Addrs /\ elems[a].state = "cached" /\ ~elems[a].dynamic /\ elems[a].segs = {x}
  BY <1>0 DEF RegCacheTypeOK, TablesAgree, Findable, Cached
<1>2. Holders(x) = {c}
  <2>1. c \in Holders(x)
    BY DEF Holders, AtWork, Working
  <2>. QED
    BY <2>1, OnlyHolder
<1>3. \A d \in Comms : x \notin held[d]
  BY <1>2 DEF Holders
<1>4. \A d \in Comms : ~ReleasesIt(thread[Main(d)], a, {x})
  <2>. SUFFICES ASSUME NEW d \in Comms, ReleasesIt(thread[Main(d)], a, {x})
                PROVE  FALSE
    OBVIOUS
  <2>1. d \in Holders(x) /\ thread[Main(d)].pc = "release"
    BY DEF ReleasesIt, Holders, AtWork, Working
  <2>. QED
    BY <1>2, <2>1
<1>5. ASSUME NEW d \in Comms, UsesOwn(thread[Gpe(d)]), thread[Gpe(d)].hdl = a PROVE FALSE
  <2>1. thread[Gpe(d)].buf \subseteq held[d] /\ elems[a].segs = thread[Gpe(d)].buf
    BY <1>5, SingleFacts
  <2>. QED
    BY <1>1, <1>3, <2>1
<1>6. ASSUME NEW d \in Comms \ borrowed, a \in exported[d] PROVE FALSE
  <2>1. elems[a].segs \subseteq held[d] \/ ReleasesIt(thread[Main(d)], a, elems[a].segs)
    BY <1>1, <1>6, SingleFacts
  <2>. QED
    BY <1>1, <1>3, <1>4, <2>1
<1>. QED
  BY <1>1, <1>5, <1>6

LEMMA FreeSegmentSingle ==
    ASSUME UseInv, SingleInv, NEW c \in Comms, FreeSegment(c)
    PROVE  SingleInv'
<1>0. RegCacheTypeOK /\ TablesAgree /\ ListsApart
  BY DEF UseInv, RegCacheInv, SingleInv
<1>11. PICK x \in Segments : \E r : Frees(c, x, r)
  BY FreeSegmentDoes
<1>1. PICK r : Frees(c, x, r)
  BY <1>11
<1>. USE DEF Frees
<1>2. /\ thread'[Main(c)] = r
      /\ \A d \in Comms : thread'[Gpe(d)] = thread[Gpe(d)]
      /\ \A d \in Comms : d # c => thread'[Main(d)] = thread[Main(d)]
  BY <1>0, <1>1, MainMoves
<1>3. \A a, segs : ~ReleasesIt(thread[Main(c)], a, segs)
  BY <1>1 DEF ReleasesIt
<1>4. CASE ~LastHolder(x)
  <2>1. r.pc = "idle" /\ UNCHANGED <<elems, segToRegElems>>
    BY <1>1, <1>4
  <2>2. MainGrows(c, r)
    BY <1>0, <1>1, <1>3, <2>1, SameGrows DEF MainGrows
  <2>. QED
    BY <2>2, MainSingle
<1>5. CASE LastHolder(x)
  <2>1. /\ r.list = {a \in Addrs : Cached(a) /\ a \in segToRegElems[x]}
        /\ elems' = [a \in Addrs |->
               IF a \in r.list THEN [elems[a] EXCEPT !.state = "leaving"] ELSE elems[a]]
        /\ segToRegElems' = [segToRegElems EXCEPT ![x] = {}]
    BY <1>1, <1>5
  <2>2. \A a \in r.list :
           /\ a \in Addrs /\ a \in segToRegElems[x] /\ elems[a].state = "cached" /\ ~elems[a].dynamic
           /\ elems'[a].state = "leaving"
           /\ \A d \in Comms : UsesOwn(thread[Gpe(d)]) => thread[Gpe(d)].hdl # a
           /\ \A d \in Comms \ borrowed : a \notin exported[d]
    <3>. SUFFICES ASSUME NEW a \in r.list
                  PROVE  /\ a \in Addrs /\ a \in segToRegElems[x] /\ elems[a].state = "cached"
                         /\ ~elems[a].dynamic
                         /\ elems'[a].state = "leaving"
                         /\ \A d \in Comms : UsesOwn(thread[Gpe(d)]) => thread[Gpe(d)].hdl # a
                         /\ \A d \in Comms \ borrowed : a \notin exported[d]
      OBVIOUS
    <3>1. a \in Addrs /\ a \in segToRegElems[x]
      BY <2>1
    <3>2. elems[a] \in ElemType
      BY <1>0, <3>1 DEF RegCacheTypeOK
    <3>3. elems'[a].state = "leaving"
      BY <2>1, <3>1, <3>2 DEF ElemType
    <3>. QED
      BY <1>1, <1>5, <3>1, <3>3, NobodyUses
  <2>3. \A a \in Addrs : a \notin r.list => elems'[a] = elems[a]
    BY <2>1
  <2>4. TablesAgree'
    <3>1. /\ \A s \in Segments : \A a \in segToRegElems[s] :
                 a \in Addrs /\ elems[a].state = "cached" /\ ~elems[a].dynamic /\ elems[a].segs = {s}
          /\ \A a \in Addrs : elems[a].state = "cached" /\ ~elems[a].dynamic =>
                 \E s \in Segments : elems[a].segs = {s}
      BY <1>0 DEF TablesAgree, Findable, Cached, RegCacheTypeOK
    <3>2. ASSUME NEW s \in Segments, NEW a \in segToRegElems'[s]
          PROVE  elems'[a].state = "cached" /\ ~elems'[a].dynamic /\ elems'[a].segs = {s}
      <4>1. s # x /\ a \in segToRegElems[s]
        BY <1>0, <2>1, <3>2 DEF RegCacheTypeOK
      <4>2. a \notin r.list
        BY <2>2, <3>1, <4>1
      <4>. QED
        BY <2>3, <3>1, <4>1, <4>2
    <3>3. ASSUME NEW a \in Addrs, elems'[a].state = "cached", ~elems'[a].dynamic
          PROVE  \E s \in Segments : elems'[a].segs = {s}
      <4>1. a \notin r.list
        BY <2>2, <3>3
      <4>. QED
        BY <2>3, <3>1, <3>3, <4>1
    <3>. QED
      BY <3>2, <3>3 DEF TablesAgree, Findable, Cached
  <2>5. ListsApart'
    <3>1. \A d \in Comms : thread[Main(d)].list \subseteq Addrs
      BY <1>0, ThreadIds, ThreadTypes DEF ThreadType
    <3>2. \A d \in Comms : thread[Main(d)].pc = "deregister" =>
              \A a \in thread[Main(d)].list : elems[a].state = "leaving" /\ a \notin r.list
                                              /\ elems'[a].state = "leaving"
      BY <1>0, <2>2, <2>3, <3>1 DEF ListsApart
    <3>3. \A d \in Comms : thread'[Main(d)].pc = "deregister" =>
              \A a \in thread'[Main(d)].list : elems'[a].state = "leaving"
      BY <1>2, <2>2, <3>2
    <3>4. \A d, e \in Comms :
             /\ d # e /\ thread'[Main(d)].pc = "deregister" /\ thread'[Main(e)].pc = "deregister"
             => thread'[Main(d)].list \cap thread'[Main(e)].list = {}
      BY <1>0, <1>2, <3>2 DEF ListsApart
    <3>. QED
      BY <3>3, <3>4 DEF ListsApart
  <2>6. DynamicHeld'
    <3>1. DynamicStep
      BY <1>2, <2>2, <2>3, SingleFacts DEF DynamicStep
    <3>. QED
      BY <3>1, DynamicKept DEF SingleInv
  <2>7. OwnHeld'
    <3>1. OwnStep
      BY <1>1, <1>2, <2>2, <2>3, SingleFacts DEF OwnStep
    <3>. QED
      BY <3>1, OwnKept DEF SingleInv
  <2>8. ExportsOwned'
    <3>1. \A d \in Comms \ borrowed : \A a \in exported[d] : elems'[a] = elems[a]
      BY <2>2, <2>3, SingleFacts
    <3>2. \A d \in Comms : \A a, segs :
              ReleasesIt(thread[Main(d)], a, segs) => ReleasesIt(thread'[Main(d)], a, segs)
      BY <1>2, <1>3
    <3>3. ExportsStep
      BY <1>1, <1>2, <3>1, <3>2 DEF ExportsStep
    <3>. QED
      BY <3>3, ExportsKept DEF SingleInv
  <2>. QED
    BY <2>4, <2>5, <2>6, <2>7, <2>8 DEF SingleInv
<1>. QED
  BY <1>4, <1>5

LEMMA DeregElemsSingle ==
    ASSUME UseInv, SingleInv, NEW c \in Comms, DeregElems(c)
    PROVE  SingleInv'
<1>0. RegCacheTypeOK /\ TablesAgree /\ ListsApart
  BY DEF UseInv, RegCacheInv, SingleInv
<1>1. /\ thread[Main(c)].pc = "deregister"
      /\ UNCHANGED <<segToRegElems, held, exported, borrowed>>
      /\ thread' = [thread EXCEPT ![Main(c)] = Idle]
      /\ elems' = [a \in Addrs |-> IF a \in thread[Main(c)].list THEN NoElem ELSE elems[a]]
  BY DEF DeregElems, At, commVars
<1>2. /\ thread'[Main(c)] = Idle
      /\ \A d \in Comms : thread'[Gpe(d)] = thread[Gpe(d)]
      /\ \A d \in Comms : d # c => thread'[Main(d)] = thread[Main(d)]
  BY <1>0, <1>1, MainMoves
<1>3. /\ \A a \in Addrs : elems[a].state # "leaving" => elems'[a] = elems[a]
      /\ \A a \in Addrs : elems'[a].state = "cached" => elems'[a] = elems[a]
  BY <1>0, <1>1 DEF ListsApart, NoElem
<1>4. TablesAgree'
  <2>1. TablesStep
    BY <1>1, <1>3 DEF TablesStep
  <2>. QED
    BY <1>0, <2>1, TablesKept
<1>5. ListsApart'
  <2>1. Idle.pc # "deregister"
    BY DEF Idle
  <2>2. ASSUME NEW d \in Comms, thread'[Main(d)].pc = "deregister", NEW a \in thread'[Main(d)].list
        PROVE  elems'[a].state = "leaving"
    <3>1. d # c /\ thread'[Main(d)] = thread[Main(d)]
      BY <1>2, <2>1, <2>2
    <3>2. elems[a].state = "leaving" /\ a \notin thread[Main(c)].list
      BY <1>0, <1>1, <2>2, <3>1 DEF ListsApart
    <3>3. a \in Addrs
      BY <1>0, <2>2, <3>1, ThreadIds, ThreadTypes DEF ThreadType
    <3>. QED
      BY <1>1, <3>2, <3>3
  <2>3. \A d, e \in Comms :
           /\ d # e /\ thread'[Main(d)].pc = "deregister" /\ thread'[Main(e)].pc = "deregister"
           => thread'[Main(d)].list \cap thread'[Main(e)].list = {}
    BY <1>0, <1>2, <2>1 DEF ListsApart
  <2>. QED
    BY <2>2, <2>3 DEF ListsApart
<1>6. DynamicHeld'
  <2>1. DynamicStep
    BY <1>2, <1>3, SingleFacts DEF DynamicStep
  <2>. QED
    BY <2>1, DynamicKept DEF SingleInv
<1>7. OwnHeld'
  <2>1. OwnStep
    BY <1>1, <1>2, <1>3, SingleFacts DEF OwnStep
  <2>. QED
    BY <2>1, OwnKept DEF SingleInv
<1>8. ExportsOwned'
  <2>1. \A d \in Comms \ borrowed : \A a \in exported[d] : elems'[a] = elems[a]
    BY <1>3, SingleFacts
  <2>2. \A d \in Comms : \A a, segs :
            ReleasesIt(thread[Main(d)], a, segs) => ReleasesIt(thread'[Main(d)], a, segs)
    BY <1>1, <1>2 DEF ReleasesIt
  <2>3. ExportsStep
    BY <1>1, <1>2, <2>1, <2>2 DEF ExportsStep
  <2>. QED
    BY <2>3, ExportsKept DEF SingleInv
<1>. QED
  BY <1>4, <1>5, <1>6, <1>7, <1>8 DEF SingleInv

LEMMA CollectiveSingle ==
    ASSUME UseInv, SingleInv, NEW c \in Comms,
           \/ \E buf \in mode.buffers : Collective(c, buf)
           \/ CollectiveStarts(c) \/ RegDynamicFails(c) \/ CollectiveThrows(c)
    PROVE  SingleInv'
<1>0. RegCacheTypeOK /\ TablesAgree
  BY DEF UseInv, RegCacheInv, SingleInv
<1>1. UNCHANGED <<elems, segToRegElems, held, exported, borrowed>>
  <2>1. CASE \E buf \in mode.buffers : Collective(c, buf)
    BY <2>1 DEF Collective, cacheVars, commVars, historyVars
  <2>2. CASE CollectiveStarts(c)
    BY <2>2 DEF CollectiveStarts, cacheVars, commVars, historyVars
  <2>3. CASE RegDynamicFails(c) \/ CollectiveThrows(c)
    BY <2>3 DEF RegDynamicFails, CollectiveThrows, cacheVars, commVars
  <2>. QED
    BY <2>1, <2>2, <2>3
<1>2. PICK r : thread' = [thread EXCEPT ![Gpe(c)] = r] /\ r.pc \in {"queued", "search", "idle"}
  <2>1. ASSUME NEW buf \in mode.buffers, Collective(c, buf)
        PROVE  \E r : thread' = [thread EXCEPT ![Gpe(c)] = r] /\ r.pc \in {"queued", "search", "idle"}
    <3>. DEFINE r == [Idle EXCEPT !.pc = "queued", !.buf = buf]
    <3>1. r.pc = "queued"
      BY DEF Idle
    <3>2. thread' = [thread EXCEPT ![Gpe(c)] = r]
      BY <2>1 DEF Collective
    <3>. HIDE DEF r
    <3>. QED
      BY <3>1, <3>2
  <2>2. CASE CollectiveStarts(c)
    <3>. DEFINE r == [thread[Gpe(c)] EXCEPT !.pc = "search"]
    <3>1. thread[Gpe(c)] \in ThreadType
      BY <1>0, ThreadIds, ThreadTypes
    <3>2. r.pc = "search"
      BY <3>1 DEF ThreadType
    <3>3. thread' = [thread EXCEPT ![Gpe(c)] = r]
      BY <2>2 DEF CollectiveStarts, Goto
    <3>. HIDE DEF r
    <3>. QED
      BY <3>2, <3>3
  <2>3. CASE RegDynamicFails(c) \/ CollectiveThrows(c)
    <3>1. thread' = [thread EXCEPT ![Gpe(c)] = Idle]
      BY <2>3 DEF RegDynamicFails, Failed, CollectiveThrows
    <3>2. Idle.pc = "idle"
      BY DEF Idle
    <3>. QED
      BY <3>1, <3>2
  <2>. QED
    BY <2>1, <2>2, <2>3
<1>3. ~HasDynamic(r) /\ ~UsesOwn(r)
  BY <1>2 DEF HasDynamic, UsesOwn, InUsePcs
<1>4. GpeGrows(c, r)
  BY <1>0, <1>1, <1>2, <1>3, SameGrows DEF GpeGrows
<1>. QED
  BY <1>4, GpeSingle

LEMMA RegDynamicSingle ==
    ASSUME UseInv, SingleInv, NEW c \in Comms, RegDynamic(c)
    PROVE  SingleInv'
<1>0. RegCacheTypeOK /\ TablesAgree
  BY DEF UseInv, RegCacheInv, SingleInv
<1>1. thread[Gpe(c)] \in ThreadType /\ elems \in [Addrs -> ElemType]
  BY <1>0, ThreadIds, ThreadTypes DEF RegCacheTypeOK
<1>2. UNCHANGED <<held, segToRegElems, exported, borrowed>>
  BY DEF RegDynamic, commVars, historyVars
<1>3. PICK a \in Free :
        /\ NewElem(a, thread[Gpe(c)].buf, TRUE)
        /\ thread' = [thread EXCEPT ![Gpe(c)].pc = "use", ![Gpe(c)].hdl = a, ![Gpe(c)].list = {a}]
  BY DEF RegDynamic
<1>. DEFINE r == [thread[Gpe(c)] EXCEPT !.pc = "use", !.hdl = a, !.list = {a}]
<1>4. r.pc = "use" /\ r.buf = thread[Gpe(c)].buf /\ r.list = {a} /\ r.hdl = a
  BY <1>1 DEF ThreadType
<1>5. thread' = [thread EXCEPT ![Gpe(c)] = r]
  BY <1>3, Zenon
<1>. HIDE DEF r
<1>6. /\ thread'[Gpe(c)] = r
      /\ \A d \in Comms : thread'[Main(d)] = thread[Main(d)]
      /\ \A d \in Comms : d # c => thread'[Gpe(d)] = thread[Gpe(d)]
  BY <1>0, <1>5, GpeMoves
<1>7. /\ a \in Addrs /\ elems[a].state = "none"
      /\ elems'[a] = [state |-> "cached", segs |-> thread[Gpe(c)].buf, dynamic |-> TRUE]
      /\ \A b \in Addrs : b # a => elems'[b] = elems[b]
  BY <1>1, <1>3 DEF NewElem, Free
<1>8. Grows
  BY <1>0, <1>2, <1>7, DynamicGrows
<1>9. \A b \in Addrs : elems[b].state # "none" => elems'[b] = elems[b] /\ b # a
  BY <1>7
<1>10. ListsApart'
  <2>1. ListsStep
    BY <1>6, <1>9 DEF ListsStep
  <2>. QED
    BY <1>0, <2>1, ListsKept DEF SingleInv
<1>11. OwnHeld'
  <2>1. ~UsesOwn(r)
    BY <1>4 DEF UsesOwn
  <2>2. OwnStep
    BY <1>2, <1>6, <1>9, <2>1, SingleFacts DEF OwnStep
  <2>. QED
    BY <2>2, OwnKept DEF SingleInv
<1>12. DynamicHeld'
  <2>1. \A d \in Comms : HasDynamic(thread'[Gpe(d)]) =>
            LET b == thread'[Gpe(d)].hdl IN
            /\ b \in Addrs /\ elems'[b].state = "cached" /\ elems'[b].dynamic
            /\ elems'[b].segs = thread'[Gpe(d)].buf
            /\ d # c => b # a
    BY <1>4, <1>6, <1>7, <1>9, SingleFacts
  <2>2. \A d, e \in Comms : d # e /\ HasDynamic(thread'[Gpe(d)]) /\ HasDynamic(thread'[Gpe(e)])
            => thread'[Gpe(d)].hdl # thread'[Gpe(e)].hdl
    BY <1>4, <1>6, <2>1, SingleFacts
  <2>. QED
    BY <2>1, <2>2 DEF DynamicHeld, HasDynamic, Dynamic, Cached
<1>13. ExportsOwned'
  <2>1. \A d \in Comms \ borrowed : a \notin exported[d] /\ \A b \in exported[d] : elems'[b] = elems[b]
    BY <1>9, <1>7, SingleFacts
  <2>2. ExportsStep
    BY <1>2, <1>4, <1>6, <2>1 DEF ExportsStep
  <2>. QED
    BY <2>2, ExportsKept DEF SingleInv
<1>. QED
  BY <1>8, <1>10, <1>11, <1>12, <1>13 DEF SingleInv, Grows

LEMMA ExportMemSingle ==
    ASSUME UseInv, SingleInv, NEW c \in Comms, ExportMem(c)
    PROVE  SingleInv'
<1>0. RegCacheTypeOK /\ CommTypeOK /\ TablesAgree
  BY DEF UseInv, RegCacheInv, SingleInv
<1>1. /\ UNCHANGED <<elems, segToRegElems, thread, held>>
      /\ thread[Gpe(c)].pc = "use"
      /\ exported' = [exported EXCEPT ![c] = @ \cup {thread[Gpe(c)].hdl}]
      /\ borrowed' = IF thread[Gpe(c)].own \/ Dynamic(Gpe(c)) THEN borrowed ELSE borrowed \cup {c}
  BY DEF ExportMem, At, cacheVars
<1>2. TablesAgree'
  BY <1>0, <1>1, SameGrows DEF Grows
<1>3. ListsApart' /\ DynamicHeld' /\ OwnHeld'
  <2>1. ListsStep /\ DynamicStep /\ OwnStep
    BY <1>1 DEF ListsStep, DynamicStep, OwnStep
  <2>. QED
    BY <1>0, <2>1, ListsKept, DynamicKept, OwnKept DEF SingleInv
<1>4. ExportsOwned'
  <2>. SUFFICES ASSUME NEW d \in Comms \ borrowed', NEW a \in exported'[d]
                PROVE  /\ a \in Addrs /\ elems[a].state = "cached"
                       /\ elems[a].dynamic => \A e \in Comms :
                              HasDynamic(thread[Gpe(e)]) /\ thread[Gpe(e)].hdl = a =>
                              e = d /\ thread[Gpe(e)].pc = "use"
                       /\ ~elems[a].dynamic =>
                              \/ elems[a].segs \subseteq held[d]
                              \/ ReleasesIt(thread[Main(d)], a, elems[a].segs)
    BY <1>1 DEF ExportsOwned, Cached, Dynamic, HasDynamic, ReleasesIt
  <2>1. d \in Comms \ borrowed
    BY <1>1
  <2>2. CASE a \in exported[d]
    BY <2>1, <2>2, SingleFacts
  <2>3. CASE a \notin exported[d]
    <3>1. d = c /\ a = thread[Gpe(c)].hdl
      BY <1>0, <1>1, <2>3 DEF CommTypeOK
    <3>2. thread[Gpe(c)].own \/ thread[Gpe(c)].list # {}
      BY <1>1, <2>1, <3>1 DEF Dynamic
    <3>3. CASE thread[Gpe(c)].list # {}
      <4>1. HasDynamic(thread[Gpe(c)])
        BY <1>1, <3>3 DEF HasDynamic, InUsePcs
      <4>2. a \in Addrs /\ elems[a].state = "cached" /\ elems[a].dynamic
        BY <3>1, <4>1, SingleFacts
      <4>3. \A e \in Comms : HasDynamic(thread[Gpe(e)]) /\ thread[Gpe(e)].hdl = a => e = c
        BY <3>1, <4>1, SingleFacts
      <4>. QED
        BY <1>1, <3>1, <4>2, <4>3
    <3>4. CASE thread[Gpe(c)].list = {}
      <4>1. UsesOwn(thread[Gpe(c)])
        BY <1>1, <3>2, <3>4 DEF UsesOwn
      <4>. QED
        BY <3>1, <4>1, SingleFacts
    <3>. QED
      BY <3>3, <3>4
  <2>. QED
    BY <2>2, <2>3
<1>. QED
  BY <1>2, <1>3, <1>4 DEF SingleInv

LEMMA CollectiveEndsSingle ==
    ASSUME UseInv, SingleInv, NEW c \in Comms, CollectiveEnds(c)
    PROVE  SingleInv'
<1>0. RegCacheTypeOK /\ CommTypeOK /\ TablesAgree
  BY DEF UseInv, RegCacheInv, SingleInv
<1>1. UNCHANGED <<elems, segToRegElems, held, borrowed>> /\ thread[Gpe(c)].pc = "use"
  BY DEF CollectiveEnds, At, cacheVars, historyVars
<1>2. Grows
  BY <1>0, <1>1, SameGrows
<1>3. CASE thread[Gpe(c)].list # {}
  <2>. DEFINE r == [thread[Gpe(c)] EXCEPT !.pc = "dereg"]
  <2>1. thread[Gpe(c)] \in ThreadType
    BY <1>0, ThreadIds, ThreadTypes
  <2>2. r.pc = "dereg" /\ r.hdl = thread[Gpe(c)].hdl /\ r.buf = thread[Gpe(c)].buf
    BY <2>1 DEF ThreadType
  <2>3. /\ thread' = [thread EXCEPT ![Gpe(c)] = r]
        /\ exported' = [exported EXCEPT ![c] = @ \ {thread[Gpe(c)].hdl}]
    BY <1>3 DEF CollectiveEnds, NeedsDereg, Dynamic, Goto
  <2>. HIDE DEF r
  <2>4. HasDynamic(thread[Gpe(c)])
    BY <1>1, <1>3 DEF HasDynamic, InUsePcs
  <2>5. \A d \in Comms : exported'[d] \subseteq exported[d]
    BY <1>0, <2>3 DEF CommTypeOK
  <2>6. ASSUME NEW e \in Comms \ borrowed, r.hdl \in exported'[e]
        PROVE  FALSE
    <3>1. r.hdl \in exported[e] /\ e # c
      BY <1>0, <2>2, <2>3, <2>5, <2>6 DEF CommTypeOK
    <3>2. elems[r.hdl].dynamic
      BY <2>2, <2>4, SingleFacts
    <3>. QED
      BY <2>2, <2>4, <3>1, <3>2, SingleFacts
  <2>7. ~UsesOwn(r)
    BY <2>2 DEF UsesOwn
  <2>8. GpeGrows(c, r)
    BY <1>1, <1>2, <2>2, <2>3, <2>4, <2>5, <2>6, <2>7 DEF GpeGrows
  <2>. QED
    BY <2>8, GpeSingle
<1>4. CASE thread[Gpe(c)].list = {}
  <2>1. thread' = [thread EXCEPT ![Gpe(c)] = Idle] /\ exported' = exported
    BY <1>4 DEF CollectiveEnds, NeedsDereg, Dynamic
  <2>2. ~HasDynamic(Idle) /\ ~UsesOwn(Idle)
    BY DEF HasDynamic, UsesOwn, Idle, InUsePcs
  <2>3. GpeGrows(c, Idle)
    BY <1>1, <1>2, <2>1, <2>2 DEF GpeGrows
  <2>. QED
    BY <2>3, GpeSingle
<1>. QED
  BY <1>3, <1>4

LEMMA DeregDynamicSingle ==
    ASSUME UseInv, SingleInv, NEW c \in Comms, DeregDynamic(c)
    PROVE  SingleInv'
<1>. DEFINE a == thread[Gpe(c)].hdl
<1>0. RegCacheTypeOK /\ UsageSound /\ TablesAgree
  BY DEF UseInv, RegCacheInv, SingleInv
<1>1. /\ UNCHANGED <<segToRegElems, held, exported, borrowed>>
      /\ thread[Gpe(c)].pc = "dereg"
      /\ thread' = [thread EXCEPT ![Gpe(c)] = Idle]
  BY DEF DeregDynamic, At, commVars
<1>2. HasDynamic(thread[Gpe(c)])
  BY <1>0, <1>1 DEF UsageSound, GpeSound, HasDynamic, InUsePcs
<1>3. a \in Addrs /\ elems[a].state = "cached" /\ elems[a].dynamic
  BY <1>2, SingleFacts
<1>4. elems' = [elems EXCEPT ![a] = NoElem]
  BY <1>3 DEF DeregDynamic, Cached
<1>5. /\ \A b \in Addrs : b # a => elems'[b] = elems[b]
      /\ elems'[a].state = "none"
  BY <1>0, <1>3, <1>4 DEF RegCacheTypeOK, NoElem
<1>6. /\ thread'[Gpe(c)] = Idle
      /\ \A d \in Comms : thread'[Main(d)] = thread[Main(d)]
      /\ \A d \in Comms : d # c => thread'[Gpe(d)] = thread[Gpe(d)]
  BY <1>0, <1>1, GpeMoves
<1>7. ~HasDynamic(Idle) /\ ~UsesOwn(Idle)
  BY DEF HasDynamic, UsesOwn, Idle, InUsePcs
<1>. HIDE DEF a
<1>8. TablesAgree'
  <2>1. TablesStep
    BY <1>1, <1>3, <1>5 DEF TablesStep
  <2>. QED
    BY <1>0, <2>1, TablesKept
<1>9. ListsApart'
  <2>1. ListsStep
    BY <1>3, <1>5, <1>6 DEF ListsStep
  <2>. QED
    BY <1>0, <2>1, ListsKept DEF SingleInv
<1>10. DynamicHeld'
  <2>1. \A d \in Comms : d # c /\ HasDynamic(thread[Gpe(d)]) =>
            thread[Gpe(d)].hdl \in Addrs /\ thread[Gpe(d)].hdl # a
    BY <1>2, SingleFacts DEF a
  <2>2. DynamicStep
    BY <1>5, <1>6, <1>7, <2>1 DEF DynamicStep
  <2>. QED
    BY <2>2, DynamicKept DEF SingleInv
<1>11. OwnHeld'
  <2>1. \A d \in Comms : UsesOwn(thread[Gpe(d)]) =>
            thread[Gpe(d)].hdl \in Addrs /\ thread[Gpe(d)].hdl # a
    BY <1>3, SingleFacts
  <2>2. OwnStep
    BY <1>1, <1>5, <1>6, <1>7, <2>1 DEF OwnStep
  <2>. QED
    BY <2>2, OwnKept DEF SingleInv
<1>12. ExportsOwned'
  <2>1. ASSUME NEW d \in Comms \ borrowed, a \in exported[d] PROVE FALSE
    <3>1. thread[Gpe(c)].pc = "use"
      BY <1>2, <1>3, <2>1, SingleFacts DEF a
    <3>. QED
      BY <1>1, <3>1
  <2>2. \A d \in Comms \ borrowed : \A b \in exported[d] : elems'[b] = elems[b]
    BY <1>5, <2>1, SingleFacts
  <2>3. ExportsStep
    BY <1>1, <1>6, <1>7, <2>2 DEF ExportsStep
  <2>. QED
    BY <2>3, ExportsKept DEF SingleInv
<1>. QED
  BY <1>8, <1>9, <1>10, <1>11, <1>12 DEF SingleInv

LEMMA RestSingle ==
    ASSUME UseInv, SingleInv, TakeRequest \/ UNCHANGED vars
    PROVE  SingleInv'
<1>0. RegCacheTypeOK /\ TablesAgree
  BY DEF UseInv, RegCacheInv, SingleInv
<1>1. UNCHANGED <<elems, segToRegElems, held, exported, borrowed>>
  BY DEF TakeRequest, vars, cacheVars, commVars, historyVars
<1>2. \A d \in Comms : thread'[Main(d)] = thread[Main(d)] /\ thread'[Gpe(d)] = thread[Gpe(d)]
  <2>1. CASE TakeRequest
    BY <1>0, <2>1, AsyncMoves DEF TakeRequest
  <2>2. CASE UNCHANGED vars
    BY <2>2 DEF vars
  <2>. QED
    BY <2>1, <2>2
<1>3. AsyncGrows
  BY <1>0, <1>1, <1>2, SameGrows DEF AsyncGrows
<1>. QED
  BY <1>3, AsyncSingle

LEMMA NextSingle ==
    ASSUME UseInv, SingleInv, [Next]_vars, ~spanned', ~destroyed'
    PROVE  SingleInv'
<1>1. ~Destroy
  BY DEF Destroy
<1>. QED
  BY <1>1, RangeSingle, RegMemSingle, DeregMemSingle, ReleaseSingle, FreeSegmentSingle,
     DeregElemsSingle, CollectiveSingle, RegDynamicSingle, ExportMemSingle, CollectiveEndsSingle,
     DeregDynamicSingle, RestSingle DEF Next, RangeSteps

\* What spanned and destroyed record stays recorded.
LEMMA Recorded == [Next]_vars => (spanned => spanned') /\ (destroyed => destroyed')
<1>1. ASSUME NEW t \in Threads, RangeSteps(t) PROVE (spanned => spanned') /\ destroyed' = destroyed
  <2>1. CASE Register(t)
    <3>1. spanned' = (spanned \/ Cardinality(thread[t].buf) > 1)
      BY <2>1, Zenon DEF Register
    <3>2. destroyed' = destroyed
      BY <2>1 DEF Register
    <3>. QED
      BY <3>1, <3>2, Zenon
  <2>2. CASE FastPath(t) \/ FoundLate(t) \/ RegisterFails(t) \/ NotCached(t)
    BY <2>2 DEF FastPath, FoundLate, RegisterFails, NotCached, historyVars
  <2>. QED
    BY <1>1, <2>1, <2>2 DEF RangeSteps
<1>2. ASSUME NEW c \in Comms,
             \/ \E s \in Segments : RegMem(c, s) \/ DeregMem(c, s)
             \/ Release(c) \/ FreeSegment(c) \/ DeregElems(c)
             \/ \E buf \in mode.buffers : Collective(c, buf)
             \/ CollectiveStarts(c) \/ RegDynamic(c) \/ RegDynamicFails(c) \/ ExportMem(c)
             \/ CollectiveEnds(c) \/ CollectiveThrows(c) \/ DeregDynamic(c)
      PROVE  UNCHANGED <<spanned, destroyed>>
  BY <1>2 DEF RegMem, DeregMem, Release, FreeSegment, DeregElems, Collective, CollectiveStarts,
     RegDynamic, RegDynamicFails, ExportMem, CollectiveEnds, CollectiveThrows, DeregDynamic,
     historyVars
<1>3. ASSUME TakeRequest \/ Destroy \/ UNCHANGED vars
      PROVE  (spanned => spanned') /\ (destroyed => destroyed')
  BY <1>3 DEF TakeRequest, Destroy, vars, historyVars
<1>. QED
  BY <1>1, <1>2, <1>3 DEF Next, RangeSteps

\* The invariant of use, and SingleInv until a registration spans two segments or the
\* cache is destroyed.
LEMMA HeldInvariant == Spec => []HeldInv
<1>1. Init => SingleInv
  <2>. SUFFICES ASSUME Init PROVE SingleInv
    OBVIOUS
  <2>1. /\ \A s \in Segments : segToRegElems[s] = {}
        /\ \A a \in Addrs : elems[a].state = "none"
        /\ \A c \in Comms : exported[c] = {}
    BY DEF Init, NoElem
  <2>2. \A c \in Comms : thread[Main(c)].pc = "idle" /\ thread[Gpe(c)].pc = "idle"
    BY ThreadIds DEF Init, Idle
  <2>3. TablesAgree /\ ListsApart
    BY <2>1, <2>2 DEF TablesAgree, ListsApart, Findable, Cached
  <2>4. DynamicHeld /\ OwnHeld /\ ExportsOwned
    BY <2>1, <2>2 DEF DynamicHeld, OwnHeld, ExportsOwned, At, InUsePcs
  <2>. QED
    BY <2>3, <2>4 DEF SingleInv
<1>2. HeldInv /\ [Next]_vars => HeldInv'
  BY NextUse, NextSingle, Recorded DEF HeldInv
<1>. QED
  BY InitUse, <1>1, <1>2, PTL DEF Spec, HeldInv

\* The handle a collective uses is a registration of its buffer and stays one, its own or
\* one of a segment its communicator has cached, whoever frees the segment meanwhile
\* (CtranMapperRegMem.cc: regRange, regDynamic, freeSegment, deregElem).
THEOREM HandlesInUseStayRegistered == Spec => []UsedStaysRegistered
<1>1. HeldInv => UsedStaysRegistered
  <2>. SUFFICES ASSUME HeldInv, ~spanned, NEW c \in Comms, thread[Gpe(c)].pc = "use",
                       thread[Gpe(c)].own \/ thread[Gpe(c)].list # {}
                PROVE  LET e == elems[thread[Gpe(c)].hdl]
                       IN  /\ e.state = "cached" /\ thread[Gpe(c)].buf \subseteq e.segs
                           /\ e.dynamic = (thread[Gpe(c)].list # {})
    BY DEF UsedStaysRegistered, At, Dynamic
  <2>1. SingleInv /\ RegCacheTypeOK
    BY DEF HeldInv, UseInv, UsageSound, Resting, RegCacheInv
  <2>2. CASE thread[Gpe(c)].list # {}
    <3>1. HasDynamic(thread[Gpe(c)])
      BY <2>2 DEF HasDynamic, InUsePcs
    <3>2. /\ thread[Gpe(c)].hdl \in Addrs /\ elems[thread[Gpe(c)].hdl].state = "cached"
          /\ elems[thread[Gpe(c)].hdl].dynamic
          /\ elems[thread[Gpe(c)].hdl].segs = thread[Gpe(c)].buf
      BY <2>1, <3>1, SingleFacts
    <3>3. elems[thread[Gpe(c)].hdl].dynamic \in BOOLEAN
      BY <2>1, <3>2 DEF RegCacheTypeOK, ElemType
    <3>. QED
      BY <2>2, <3>2, <3>3
  <2>3. CASE thread[Gpe(c)].list = {}
    <3>1. UsesOwn(thread[Gpe(c)])
      BY <2>3 DEF UsesOwn
    <3>2. /\ thread[Gpe(c)].hdl \in Addrs /\ elems[thread[Gpe(c)].hdl].state = "cached"
          /\ ~elems[thread[Gpe(c)].hdl].dynamic
          /\ elems[thread[Gpe(c)].hdl].segs = thread[Gpe(c)].buf
      BY <2>1, <3>1, SingleFacts
    <3>3. elems[thread[Gpe(c)].hdl].dynamic \in BOOLEAN
      BY <2>1, <3>2 DEF RegCacheTypeOK, ElemType
    <3>. QED
      BY <2>3, <3>2, <3>3
  <2>. QED
    BY <2>2, <2>3
<1>. QED
  BY HeldInvariant, <1>1, PTL

\* What remReleaseMem finds in a communicator's table are live regElems, whose addresses
\* were not given to others meanwhile (CtranMapper.cc: exportMem, remReleaseMem).
THEOREM ExportsStayLive == Spec => []ExportsLive
<1>1. HeldInv => ExportsLive
  BY DEF HeldInv, ExportsLive, SingleInv, ExportsOwned
<1>. QED
  BY HeldInvariant, <1>1, PTL

=============================================================================
