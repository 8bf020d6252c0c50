------------------------------ MODULE RegCache ------------------------------
(***************************************************************************)
(* CtranMapperRegCache: the registration cache all communicators of a      *)
(* process share.  Users cache segments (regMem) and free them (deregMem); *)
(* a regElem registers a run of segments with the network and is made when *)
(* a collective first needs it, ahead of it by the asynchronous thread, or *)
(* at once in eager mode.  A buffer nobody cached is registered for one    *)
(* collective ("dynamic").                                                 *)
(*                                                                         *)
(* Handles of regElems are raw pointers: an address is used again once its *)
(* regElem is destroyed, while tables may still hold it.                   *)
(*                                                                         *)
(* Threads: each communicator's main thread and GPE thread, and one        *)
(* asynchronous thread.  The steps are cut where segmentsAvl_ or           *)
(* regElemsMaps_ is locked.                                                *)
(***************************************************************************)
EXTENDS Naturals, Sequences, FiniteSets

CONSTANTS
    Comms,       \* communicators (mappers)
    Segments,    \* the physical ranges pinRange finds
    Addrs,       \* addresses of CtranMapperRegElem objects
    NoAddr,      \* nullptr
    Modes,       \* the settings to explore: see ModeType
    MaxColls     \* bound: collectives

\* A buffer, as pinRange sees it: the segments it touches.
Buffers == (SUBSET Segments) \ {{}}

\* A setting: NCCL_CTRAN_REGISTER, the buffers of the program's collectives, and what
\* may go wrong: a registration or deregistration, a collective.
ModeType ==
    [register : {"lazy", "eager", "async"}, buffers : SUBSET Buffers,
     faults : BOOLEAN, aborts : BOOLEAN]

ASSUME RegCacheAssumption ==
    /\ IsFiniteSet(Comms) /\ IsFiniteSet(Segments)
    /\ NoAddr \notin Addrs /\ MaxColls \in Nat
    /\ Modes \subseteq ModeType

Main(c) == <<"main", c>>
Gpe(c) == <<"gpe", c>>
Async == <<"async">>
Threads == {Main(c) : c \in Comms} \cup {Gpe(c) : c \in Comms} \cup {Async}

VARIABLES
    mode,            \* the setting, fixed
    refCount,        \* per segment: its refCount, 0 when it is not in segmentsAvl_
    elems,           \* per address: the regElem there
    segToRegElems,   \* segToRegElemsMap: per cached segment, addresses
    queue,           \* asyncRegQueue_
    thread,          \* per thread: where it is and what it carries
    held,            \* per communicator: the segments its user has a handle of
    exported,        \* per communicator: exportRegCache_
    colls,           \* collectives so far
    destroyed,       \* destroy was called
    failed,          \* history: a registration or deregistration failed
    aborted,         \* history: a collective threw
    spanned,         \* history: some cached regElem covered more than one segment
    borrowed         \* history: communicators that exported another one's registration

cacheVars == <<refCount, elems, segToRegElems>>
commVars == <<held, exported>>
historyVars == <<failed, aborted, spanned, borrowed>>
vars == <<mode, cacheVars, queue, thread, commVars, colls, destroyed, historyVars>>

\* state "cached": regHdlToElemMap owns it; "leaving": freeSegment has taken it out.
NoElem == [state |-> "none", segs |-> {}, dynamic |-> FALSE]
Idle == [pc |-> "idle", buf |-> {}, hdl |-> NoAddr, own |-> FALSE, list |-> {}]

Init ==
    /\ mode \in Modes
    /\ refCount = [s \in Segments |-> 0]
    /\ elems = [a \in Addrs |-> NoElem]
    /\ segToRegElems = [s \in Segments |-> {}]
    /\ queue = << >>
    /\ thread = [t \in Threads |-> Idle]
    /\ held = [c \in Comms |-> {}]
    /\ exported = [c \in Comms |-> {}]
    /\ colls = 0
    /\ destroyed = FALSE
    /\ failed = FALSE
    /\ aborted = FALSE
    /\ spanned = FALSE
    /\ borrowed = {}

-----------------------------------------------------------------------------
(* The cache.                                                              *)

At(t, pc) == thread[t].pc = pc
Goto(t, pc) == thread' = [thread EXCEPT ![t].pc = pc]

Cached(a) == elems[a].state = "cached"
Free == {a \in Addrs : elems[a].state = "none"}

\* searchRegElem: a regElem that covers the buffer; dynamic ones are skipped.
Found(buf) == {a \in Addrs : Cached(a) /\ ~elems[a].dynamic /\ buf \subseteq elems[a].segs}

\* Fault: the cache is not searched again under the lock.
FoundAgain_Skipped(buf) == {}

\* The second search of regRange, which holds segmentsAvl_.
FoundAgain(buf) == Found(buf)

\* Fault: only the first segment knows the regElem.
Linked_First(buf) == {CHOOSE s \in buf : TRUE}

\* The segments whose entry of segToRegElemsMap gets the new regElem.
Linked(buf) == buf

NewElem(a, buf, dynamic) ==
    elems' = [elems EXCEPT ![a] = [state |-> "cached", segs |-> buf, dynamic |-> dynamic]]

\* What a thread does with the handle regRange gave it: regMem returns the segment's
\* handle to the user; a collective goes on; the asynchronous thread pops its request.
Resolve(t, a) ==
    /\ CASE t[1] = "main" -> /\ thread' = [thread EXCEPT ![t] = Idle]
                             /\ held' = [held EXCEPT ![t[2]] = @ \cup thread[t].buf]
                             /\ queue' = queue
         [] t[1] = "gpe" -> /\ thread' = [thread EXCEPT ![t].pc = "use", ![t].hdl = a,
                                              ![t].own = thread[t].buf \subseteq held[t[2]]]
                            /\ UNCHANGED <<held, queue>>
         [] t[1] = "async" -> /\ thread' = [thread EXCEPT ![t] = Idle]
                              /\ queue' = Tail(queue)
                              /\ held' = held

\* The same for an error: the user gets no handle for the segment that was cached, the
\* collective ends; an error in the asynchronous thread ends the process.  Bound: one
\* failure.
Failure == mode.faults /\ ~failed /\ failed' = TRUE
Failed(t) ==
    /\ t # Async /\ Failure
    /\ thread' = [thread EXCEPT ![t] = Idle]

\* regRange, fast path.
FastPath(t) ==
    /\ At(t, "search")
    /\ IF Found(thread[t].buf) # {}
       THEN \E a \in Found(thread[t].buf) : Resolve(t, a)
       ELSE Goto(t, "slow") /\ UNCHANGED <<held, queue>>
    /\ UNCHANGED <<mode, cacheVars, exported, colls, destroyed, historyVars>>

\* regRange, slow path, under segmentsAvl_: another thread registered the buffer ...
FoundLate(t) ==
    /\ At(t, "slow")
    /\ \E a \in FoundAgain(thread[t].buf) : Resolve(t, a)
    /\ UNCHANGED <<mode, cacheVars, exported, colls, destroyed, historyVars>>

\* ... or every segment is cached and they are registered ...
Register(t) ==
    LET buf == thread[t].buf IN
    /\ At(t, "slow") /\ FoundAgain(buf) = {}
    /\ \A s \in buf : refCount[s] > 0
    /\ \E a \in Free :
        /\ NewElem(a, buf, FALSE)
        /\ segToRegElems' = [s \in Segments |->
               IF s \in Linked(buf) THEN segToRegElems[s] \cup {a} ELSE segToRegElems[s]]
        /\ Resolve(t, a)
    /\ spanned' = (spanned \/ Cardinality(buf) > 1)
    /\ UNCHANGED <<mode, refCount, exported, colls, destroyed, failed, aborted, borrowed>>

RegisterFails(t) ==
    /\ At(t, "slow") /\ FoundAgain(thread[t].buf) = {}
    /\ \A s \in thread[t].buf : refCount[s] > 0
    /\ Failed(t)
    /\ UNCHANGED <<mode, cacheVars, queue, commVars, colls, destroyed, aborted, spanned, borrowed>>

\* ... or one is not: the collective registers dynamically, the asynchronous thread
\* leaves the request alone.
NotCached(t) ==
    /\ At(t, "slow") /\ FoundAgain(thread[t].buf) = {}
    /\ \E s \in thread[t].buf : refCount[s] = 0
    /\ IF t[1] = "gpe" THEN Goto(t, "dynamic") /\ UNCHANGED <<held, queue>>
       ELSE Resolve(t, NoAddr)
    /\ UNCHANGED <<mode, cacheVars, exported, colls, destroyed, historyVars>>

-----------------------------------------------------------------------------
(* The main threads: regMem and deregMem.                                  *)

\* cacheSegment; the segment is registered at once in eager mode only.
RegMem(c, s) ==
    /\ At(Main(c), "idle") /\ ~destroyed
    /\ s \in (UNION mode.buffers) \ held[c]
    /\ refCount' = [refCount EXCEPT ![s] = @ + 1]
    /\ IF mode.register = "eager"
       THEN /\ thread' = [thread EXCEPT ![Main(c)] = [Idle EXCEPT !.pc = "search", !.buf = {s}]]
            /\ UNCHANGED held
       ELSE /\ held' = [held EXCEPT ![c] = @ \cup {s}]
            /\ UNCHANGED thread
    /\ UNCHANGED <<mode, elems, segToRegElems, queue, exported, colls, destroyed, historyVars>>

\* deregMem: getRegElems copies the segment's list.  A user does not free a buffer that
\* a collective of the same communicator is using.
DeregMem(c, s) ==
    /\ At(Main(c), "idle") /\ ~destroyed
    /\ s \in held[c] \ thread[Gpe(c)].buf
    /\ held' = [held EXCEPT ![c] = @ \ {s}]
    /\ thread' = [thread EXCEPT ![Main(c)] =
           [Idle EXCEPT !.pc = "release", !.buf = {s}, !.list = segToRegElems[s]]]
    /\ UNCHANGED <<mode, cacheVars, queue, exported, colls, destroyed, historyVars>>

\* Fault: the remote side is not told.
Released_Nothing(list) == {}

\* The exports remReleaseMem takes back.
Released(list) == list

\* remReleaseMem needs the epoch lock of the InfiniBand backend, which the GPE thread
\* holds while it runs a collective.
Release(c) ==
    /\ At(Main(c), "release") /\ thread[Gpe(c)].pc \in {"idle", "queued"}
    /\ exported' = [exported EXCEPT ![c] = @ \ Released(thread[Main(c)].list)]
    /\ Goto(Main(c), "free")
    /\ UNCHANGED <<mode, cacheVars, queue, held, colls, destroyed, historyVars>>

\* Fault: the first communicator to free a segment takes it from the others.
LastHolder_Any(s) == TRUE

\* askFree.
LastHolder(s) == refCount[s] = 1

\* freeSegment, with both locks: the regElems of the segment leave the cache, whatever
\* other segments they cover; only this segment's list is dropped.
FreeSegment(c) ==
    LET s == CHOOSE x \in thread[Main(c)].buf : TRUE
        taken == {a \in Addrs : Cached(a) /\ a \in segToRegElems[s]}
    IN
    /\ At(Main(c), "free")
    /\ IF ~LastHolder(s)
       THEN /\ refCount' = [refCount EXCEPT ![s] = @ - 1]
            /\ thread' = [thread EXCEPT ![Main(c)] = Idle]
            /\ UNCHANGED <<elems, segToRegElems>>
       ELSE /\ refCount' = [refCount EXCEPT ![s] = 0]
            /\ elems' = [a \in Addrs |->
                   IF a \in taken THEN [elems[a] EXCEPT !.state = "leaving"] ELSE elems[a]]
            /\ segToRegElems' = [segToRegElems EXCEPT ![s] = {}]
            /\ thread' = [thread EXCEPT ![Main(c)] =
                   [Idle EXCEPT !.pc = "deregister", !.list = taken]]
    /\ UNCHANGED <<mode, queue, commVars, colls, destroyed, historyVars>>

\* deregElem for each of them, outside the locks; then their memory is free.  If one
\* fails the rest stay registered with nobody left to know.
DeregElems(c) ==
    /\ At(Main(c), "deregister")
    /\ \/ UNCHANGED failed
       \/ thread[Main(c)].list # {} /\ Failure
    /\ elems' = [a \in Addrs |-> IF a \in thread[Main(c)].list THEN NoElem ELSE elems[a]]
    /\ thread' = [thread EXCEPT ![Main(c)] = Idle]
    /\ UNCHANGED <<mode, refCount, segToRegElems, queue, commVars, colls, destroyed,
                   aborted, spanned, borrowed>>

-----------------------------------------------------------------------------
(* Collectives: submitted by the main thread, run by the GPE thread.       *)

\* The submission; regAsync sends the asynchronous thread ahead.
Collective(c, buf) ==
    /\ At(Main(c), "idle") /\ At(Gpe(c), "idle") /\ ~destroyed
    /\ colls < MaxColls
    /\ colls' = colls + 1
    /\ thread' = [thread EXCEPT ![Gpe(c)] = [Idle EXCEPT !.pc = "queued", !.buf = buf]]
    /\ queue' = IF mode.register = "async" /\ Found(buf) = {} THEN Append(queue, buf) ELSE queue
    /\ UNCHANGED <<mode, cacheVars, commVars, destroyed, historyVars>>

\* The GPE thread takes the epoch lock and calls the algorithm.
CollectiveStarts(c) ==
    /\ At(Gpe(c), "queued") /\ Goto(Gpe(c), "search")
    /\ UNCHANGED <<mode, cacheVars, queue, commVars, colls, destroyed, historyVars>>

\* regDynamic.
RegDynamic(c) ==
    /\ At(Gpe(c), "dynamic")
    /\ \E a \in Free :
        /\ NewElem(a, thread[Gpe(c)].buf, TRUE)
        /\ thread' = [thread EXCEPT ![Gpe(c)].pc = "use", ![Gpe(c)].hdl = a, ![Gpe(c)].list = {a}]
    /\ UNCHANGED <<mode, refCount, segToRegElems, queue, commVars, colls, destroyed, historyVars>>

RegDynamicFails(c) ==
    /\ At(Gpe(c), "dynamic")
    /\ Failed(Gpe(c))
    /\ UNCHANGED <<mode, cacheVars, queue, commVars, colls, destroyed, aborted, spanned, borrowed>>

Dynamic(t) == thread[t].list # {}

\* exportMem to a peer the NVL backend reaches.
ExportMem(c) ==
    LET t == Gpe(c) IN
    /\ At(t, "use") /\ thread[t].hdl \notin exported[c]
    /\ exported' = [exported EXCEPT ![c] = @ \cup {thread[t].hdl}]
    /\ borrowed' = IF thread[t].own \/ Dynamic(t) THEN borrowed ELSE borrowed \cup {c}
    /\ UNCHANGED <<mode, cacheVars, queue, thread, held, colls, destroyed, failed, aborted, spanned>>

\* Fault: nobody deregisters.
NeedsDereg_Never(t) == FALSE

\* dynamicRegist.
NeedsDereg(t) == Dynamic(t)

\* The collective ends; remReleaseMem for a dynamic registration.
CollectiveEnds(c) ==
    LET t == Gpe(c) IN
    /\ At(t, "use")
    /\ IF NeedsDereg(t)
       THEN Goto(t, "dereg") /\ exported' = [exported EXCEPT ![c] = @ \ {thread[t].hdl}]
       ELSE thread' = [thread EXCEPT ![t] = Idle] /\ UNCHANGED exported
    /\ UNCHANGED <<mode, cacheVars, queue, held, colls, destroyed, historyVars>>

\* The algorithm throws, as waitRequest does on an abort: nothing is cleaned up.
CollectiveThrows(c) ==
    /\ mode.aborts
    /\ At(Gpe(c), "use")
    /\ aborted' = TRUE
    /\ thread' = [thread EXCEPT ![Gpe(c)] = Idle]
    /\ UNCHANGED <<mode, cacheVars, queue, commVars, colls, destroyed, failed, spanned, borrowed>>

\* deregDynamic, which returns commInvalidUsage when the map has no such regElem.
DeregDynamic(c) ==
    LET t == Gpe(c)
        a == thread[t].hdl
    IN
    /\ At(t, "dereg")
    /\ IF Cached(a)
       THEN /\ elems' = [elems EXCEPT ![a] = NoElem]
            /\ UNCHANGED failed \/ Failure
       ELSE UNCHANGED <<elems, failed>>
    /\ thread' = [thread EXCEPT ![t] = Idle]
    /\ UNCHANGED <<mode, refCount, segToRegElems, queue, commVars, colls, destroyed,
                   aborted, spanned, borrowed>>

-----------------------------------------------------------------------------
(* The asynchronous thread, and the end of the process.                    *)

\* asyncRegThreadFn: the request stays at the front until it is done.
TakeRequest ==
    /\ At(Async, "idle") /\ queue # << >>
    /\ thread' = [thread EXCEPT ![Async] =
           IF Head(queue) = {} THEN [Idle EXCEPT !.pc = "ended"]
           ELSE [Idle EXCEPT !.pc = "search", !.buf = Head(queue)]]
    /\ UNCHANGED <<mode, cacheVars, queue, commVars, colls, destroyed, historyVars>>

\* destroy, when the communicators are done: everything is deregistered and dropped,
\* then the thread is sent the stop request ({}) and joined.
Destroy ==
    /\ ~destroyed
    /\ \A c \in Comms : At(Main(c), "idle") /\ At(Gpe(c), "idle")
    /\ destroyed' = TRUE
    /\ refCount' = [s \in Segments |-> 0]
    /\ elems' = [a \in Addrs |-> NoElem]
    /\ segToRegElems' = segToRegElems
    /\ queue' = IF mode.register = "async" THEN Append(queue, {}) ELSE queue
    /\ UNCHANGED <<mode, thread, commVars, colls, historyVars>>

Next ==
    \/ \E t \in Threads :
        FastPath(t) \/ FoundLate(t) \/ Register(t) \/ RegisterFails(t) \/ NotCached(t)
    \/ \E c \in Comms :
        \/ \E s \in Segments : RegMem(c, s) \/ DeregMem(c, s)
        \/ Release(c) \/ FreeSegment(c) \/ DeregElems(c)
        \/ \E buf \in mode.buffers : Collective(c, buf)
        \/ CollectiveStarts(c) \/ RegDynamic(c) \/ RegDynamicFails(c) \/ ExportMem(c)
        \/ CollectiveEnds(c) \/ CollectiveThrows(c) \/ DeregDynamic(c)
    \/ TakeRequest \/ Destroy

Spec == Init /\ [][Next]_vars
-----------------------------------------------------------------------------
(* Properties.                                                             *)

\* A registration that later collectives may find covers segments that are all still
\* cached: whoever frees one of them, from whatever communicator, takes it out, and
\* the slow asynchronous thread does not put it back.
CoveredByCache ==
    \A a \in Addrs : Cached(a) /\ ~elems[a].dynamic => \A s \in elems[a].segs : refCount[s] > 0

\* The threads that need the same buffer at the same time register it once.
RegisteredOnce ==
    \A a, b \in Addrs :
        /\ a # b /\ Cached(a) /\ Cached(b)
        /\ ~elems[a].dynamic /\ ~elems[b].dynamic
        => elems[a].segs # elems[b].segs

\* A running collective's handle is a registration of its buffer, and stays one: its own
\* dynamic one, or one of segments its communicator had cached when it got the handle
\* ("own").  As long as no registration spans two segments: see the README.
UsedStaysRegistered ==
    ~spanned =>
        \A c \in Comms : At(Gpe(c), "use") /\ (thread[Gpe(c)].own \/ Dynamic(Gpe(c))) =>
            LET e == elems[thread[Gpe(c)].hdl]
            IN  /\ e.state = "cached" /\ thread[Gpe(c)].buf \subseteq e.segs
                /\ e.dynamic = Dynamic(Gpe(c))

\* A communicator's table of exports, whose pointers remReleaseMem follows, names live
\* regElems only until destroy, if the communicator exported no registration of another
\* one's segments.
ExportsLive ==
    ~spanned /\ ~destroyed => \A c \in Comms \ borrowed : \A a \in exported[c] : Cached(a)

Quiet == \A t \in Threads : thread[t].pc \in {"idle", "ended"}

\* Nothing stays registered when every user has freed what it cached, or the cache was
\* destroyed, and no thread is at work, unless a call failed or a collective threw.
NothingLeft ==
    /\ Quiet
    /\ queue = << >> \/ thread[Async].pc = "ended"
    /\ destroyed \/ \A c \in Comms : held[c] = {}
    /\ ~failed /\ ~aborted
    => \A a \in Addrs : elems[a].state = "none"
=============================================================================
