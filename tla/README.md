# TLA+ models of torchcomms

torchcomms is a communication library for PyTorch: a front end (`TorchComm`)
over backends that run collectives on GPUs (NCCLX, NCCL, RCCL, Gloo), and CTRAN,
a host-driven transport with its own collective algorithms. This directory holds
TLA+ models of the parts with the library's own control logic, the TLC
configurations that check them, and TLAPS proofs about them.

    TorchCommNCCLX.tla   a rank's communicator: operations, work queue, watchdog, finalize
    CommContract.tla     what that communicator promises its caller
    WorkLifetime.tla     who keeps works, events and the communicator alive
    AllocatorHook.tla    the hook that registers allocator segments with communicators
    Collectives.tla      the operations as NCCL calls, on all ranks
    Bootstrap.tla        how ranks agree on the unique id of a communicator
    CtranGpe.tla         CTRAN's host thread beside a GPU kernel
    RegCache.tla         CTRAN's registration cache
    AllReduceRing.tla    CTRAN's pipelined ring all-reduce: host, kernel, network
    CtranSchedules.tla   CTRAN's other collective algorithms
    CtranIbVc.tla        puts over an InfiniBand connection of CTRAN
    CtranIbConnect.tla   how such connections are made, and their control messages
    *Proofs.tla          theorems about the module they extend
    MC*.tla, *.cfg       the instances TLC checks
    PROJECT.json         components, runs, mutants, source lines, hazards, theorems

Paths below are relative to `src/comms/`; `ncclx/` stands for `torchcomms/ncclx/`.

    tlc -config MCTorchCommNCCLX_live.cfg MCTorchCommNCCLX        # a run
    tlapm TorchCommNCCLXProofs.tla                                # the proofs

## 1. Inventory

### NCCLX backend (`torchcomms/ncclx`)

*Communicator* (`TorchCommNCCLX.cpp`, `TorchCommNCCLXUtils.cpp`). State: the NCCL
communicator, `init_state_`, the atomic `comm_state_` (NORMAL, TIMEOUT, ERROR),
an internal stream, an event pool, a work queue, a watchdog thread with a
condition variable and `shutdown_`, references to the works of captured graphs.
Operations: `init`, `finalize`, `split`, seventeen data operations of one
shape, `window_allocate`. Hard: the watchdog and the user thread collect the
same queue and write `comm_state_` outside its mutex; failures are found late,
by polling; captures skip the checks; finalize has to wait for work of several
streams and to stop a thread. Correct when completion is reported in stream
order and never before the GPU is done, when a failure is never lost and stops
everything that follows, when nothing else does, and when finalize neither
hangs nor pulls the communicator from under a running work.

*Work and queue* (`TorchWorkNCCLX.cpp`, `TorchWorkNCCLXQueue.cpp`). State: per
work two CUDA events, a status and a deadline that starts when the start event
is seen; per stream a FIFO of works; the pool of events; the works a captured graph
keeps. Operations: `checkStatus`, `wait`, `enqueueWork`, `garbageCollect`, `finalize`,
`getEvent`, `returnEvent`, the graph's cleanup callback. Hard: statuses are computed by
whichever thread holds the mutex; one return value stands for all streams; works hold
the communicator and the communicator holds works, so that references have to be cut
by whoever is left to do it. Correct when an event belongs to one work at a time and
nothing is left once the program has let go.

*Collectives* (`TorchCommNCCLX.cpp`). No state of their own: each operation
computes counts and displacements and makes a sequence of NCCL calls, some in
groups. Hard: sender and receiver compute their counts on different ranks; loops
of point-to-point calls must not deadlock; an exception inside a group. Correct
when every rank ends up with what the collective is for.

*Allocator hook* (`TorchCommNCCLXCCA.cpp`). State: a process-wide singleton with
the known segments and the attached communicators, under one mutex; per
communicator a map of registration handles. Operations: the allocator's trace
callback, `registerComm`, `deregisterComm`. Hard: allocations of any thread in any
order with the life of several communicators; any registration may fail halfway.
Correct when it holds no dangling communicator and no registration of freed memory.

*Bootstrap* (`TorchCommNCCLXBootstrap.cpp`, `torchcomms/StoreManager.cpp`). State: a
per-process counter, used store names, a store shared by the ranks. Hard: every
rank advances its counter on its own. Correct when ranks that NCCL brings
together are creating the same communicator.

*Windows* (`TorchCommWindowNCCLX.cpp`). One-sided put, signal and wait on
registered memory, enqueued as works without the operations' checks.

*API wrapper* (`NcclxApi.cpp`). Forwarding.

### Other backends and the front end (`torchcomms`)

*NCCL, RCCL*: near copies of the NCCLX backend. *Gloo*: operations on the CPU, by
the Gloo library. *Front end, factory*: forwarding, `dlopen` of backends.
*Python layer*: bindings, object collectives, device meshes. *RDMA transport*:
a state machine over a CTRAN InfiniBand connection.

### CTRAN (`ctran`) and utilities (`utils`, `common`)

*GPE* (`ctran/gpe`). State: a command queue, a pool of flag items in pinned memory
(one word per thread block), an abort flag with a deadline, events that order kernels
of different streams. Operations: `submit`, `submitHost`, `terminate`, the thread's
loop, the device functions that share the words. Hard: host thread and blocks read and
write the words without locks; timeouts, aborts, failing launches and replayed graphs.
Correct when a flag serves one command at a time and comes back, and every kernel exits.

*Mapper and registration cache* (`ctran/mapper`). State: reference-counted segments,
registrations of runs of them, a queue of asynchronous requests, what was exported to
peers. Hard: communicators of one process share the cache, each from two threads, beside
the asynchronous thread; handles are raw pointers. Correct when a registration in use
is never taken away, none is made twice, and none outlives its segments.

*Algorithms* (`ctran/algos`). The ring all-reduce is a pipeline of five operations
between host, kernel and network; the others are programs of control messages, puts and
waits that the GPE thread runs. Hard: temporary buffers are reused across steps, ranks
and operations with nothing but messages and notifications between. Correct when
each rank ends with what the operation is for.

*Backends* (`ctran/backends`). InfiniBand: connections with several queue pairs, puts
split over them, sequence numbers, control messages with credits; NVLink, sockets, TCP
device memory. Hard: queue pairs deliver independently, connections are made by two
threads while messages are asked for. Correct when a notification means the data is
there and a receive gets its own message.

*Memory*: slab and cached allocators. *Abort, bootstrap sockets, window, profiler,
tracing*. *Collective tracing*: a worker thread that follows collectives through events.
*Device algorithms*: CUDA kernels.

`PROJECT.json` lists every part with its files and what is left out of it, and
the hazards: 40 places where a test would hardly reach what can go wrong.

### Interactions

    program --operation--> communicator --calls--> NCCL --kernels--> streams
                               |  ^                                     |
                      enqueues |  | comm_state_                 events  |
                               v  |                                     |
                        work queue <--collects-- watchdog <-------------+
    allocator --segment events--> hook --register/deregister--> communicators
    init --> bootstrap --key/value--> store <--> the other ranks' bootstraps

    collective --submit--> GPE thread <--flag words--> kernel on the user's stream
                               |
                           algorithm --search, export--> registration cache
                               |
                  control messages, puts, notifications
                               v
                     InfiniBand connection <--listen thread, QPs--> peers

## 2. Plan

Done: `TorchCommNCCLX` with its invariants, liveness, proofs, and the contract it
refines; `AllocatorHook`, `WorkLifetime`, `RegCache`, `Bootstrap`, `CtranGpe`,
`CtranIbConnect` and `AllReduceRing`, each with proofs; `Collectives`; `CtranSchedules`;
`CtranIbVc`.

Left, most important first:

1. Theorems: `NotifiedHaveLanded` and `CompleteHaveLanded` of `CtranIbVc`, in terms of
   functions instead of sequences.
2. The composition of `CtranGpe` with `CtranSchedules`: operations on two streams that
   share a communicator's staging buffers (section 3).
3. The composition of hook and communicator abort.
4. InfiniBand gets, which share the queue pairs' windows with puts; failing peers.
5. Dynamic and deduplicating all-to-alls, direct and ARG all-reduce.
6. Slab and cached allocators; socket retries; collective tracing; the RDMA transport;
   what NCCL and RCCL do differently from NCCLX.

## 3. Modules and code

### TorchCommNCCLX

Two threads and the GPU. `pc["user"]` follows an operation: `idle`, `check` (before
the mutex), `gc` (inside `garbageCollect`), `store` (mutex released, result not yet
in `comm_state_`), `decide` and `iserror` (the two tests of `comm_state_`), `issue`,
`enqueue`; or finalize: `join`, `drain`, `settle`; or `thrown`, after an init that
threw. `pc["watchdog"]` follows `timeoutWatchdog`: `wait`, the same three, `test`,
`exited`. The steps are cut where another thread can see the difference: at
the mutex and at each read or write of the atomic `comm_state_`. Inside the mutex each
`checkStatus` is a step of its own (`CheckHead`), since the GPU and the clock go on.

| model | code |
|---|---|
| `gpu[w]`, `GpuStart`, `GpuFinish`, `DeadlinePasses` | what the two events of a work reveal, and the time since `start_completed_time_` |
| `Observed`, `CheckStatus` | `TorchWorkNCCLX::checkStatus`, with the answers CUDA gives during a capture |
| `GcLock`, `CheckHead`, `GcUnlock` | `TorchWorkNCCLXQueue::garbageCollect(Locked)` |
| `StoreCommState` | `checkWorkQueue` after the collection |
| `WatchdogWake`, `WatchdogTest` | `timeoutWatchdog` |
| `InitComm`, `InitFails` | `TorchCommNCCLX::init`, which marks the communicator initialized before steps that may throw |
| `CallOp` | `checkInitialized` |
| `DecideTimeout`, `DecideError`, `AbortNcclComm` | `checkAndAbortIfTimedOutOrError`, which loads `comm_state_` once for each test, and `abortNcclComm` |
| `OpIssue`, `OpFails`, `Enqueue`, `CapturedOp` | the shape shared by all operations |
| `WorkWait` | `TorchWorkNCCLX::wait` |
| `FinalizeBegin` ... `FinalizeSettle` | `TorchCommNCCLX::finalize`, `TorchWorkNCCLXQueue::finalize` |

`after[w]` is the set of works the GPU must finish before it reaches w: those on
w's stream and those that stream was made to wait for. Left out: events as
resources (`WorkLifetime`), releasing of buffers and streams, messages, split.

Between the two tests the watchdog may store. With one failed work that changes nothing.
With an errored work on one stream and a timed-out one on another it may replace ERROR, which
the operation has seen is not TIMEOUT, by TIMEOUT, which the operation then sees is not
ERROR: the operation is given to NCCL after a failure, and, when the process is not aborted, to
a communicator that an earlier call has aborted (finding 4). The history variable `overwritten`
marks that the watchdog replaced ERROR by TIMEOUT between the two loads of the operation
in progress, `sawFailure` that a work had failed when that operation was called.
`NoIssueAfterFailure` and `IssueNeedsComm` hold of every operation for which `overwritten` is
false, and nothing else is excepted. `ncclx_live`, with two works, cannot reach the exception,
which needs a third operation; `ncclx_overlooked` does, and the proofs cover it.

`CommContract` is the same communicator seen by its caller: works settle in the order of
their stream; an operation called after a failure is never given to NCCL, unless two works
failed in different ways and the report of the timeout hides that of the error (`Overlook`);
and finalize ends well only if no failure was found. Captured works are outside the contract:
nothing watches them. `KeepsContract` is its specification under the mapping `OutcomeOf`,
`PhaseOf`, `CallingOf`: threads, queues, mutex, clock and `comm_state_` are hidden.

### WorkLifetime

A work is kept by the operation that creates it, the program, the queue, or the
table of its graph (`holders`), and keeps the communicator and two events (`ev`).
`CreateWork` draws the events, `Issue` records them, `Enqueue` gives the work to the
queue or, in a capture, to the graph; `IssueFails`, `EnqueueFails` and `EnqueueUnhooked` are
the exceptions on the way; `GarbageCollect`, `FinalizeQueue`,
`GraphCleanupCallback`, `DropWork` let go; `Release` and `ReturnEvents` are the destructor
and `returnEvent` with the pool's limit. The program's thread, the watchdog and CUDA's
callback thread interleave at the mutexes. A window holds the communicator and enqueues
without the checks of other operations, after finalize too.

`enqueueWork` keeps a captured work before it registers the callback that will let go of it.
When `cudaUserObjectCreate` or `cudaGraphRetainUserObject` fails (`TorchCommNCCLXUtils.cpp`
335-355), it throws with the work in the table, and the later works of that graph find an entry and
register no callback either: the works and the communicator are never freed. `unhooked`
has the graphs this happened to; `NoLeak` excepts their works and those a window enqueued
after finalize (`late`). Two assumptions about the program: when a capture's operation
throws it may end the capture and drop the graph (`Unwound`), which it need not after
`EnqueueUnhooked`; and it does not finalize during a capture.
Observed: works that outlive finalize return their events to a pool that finalize has already
emptied and that the destructor does not empty. `EventsFreed` says that after a finalize that
destroyed the NCCL communicator these are the only events left; a finalize that throws
destroys none.

### AllocatorHook

`allocated` is the allocator's truth, `memMap`, `regComms` and `handles` what hook and
communicators believe, `life` where each communicator object is between its creation
and its destruction. Hook operations hold the hook's mutex and are one step; the
steps around them in `init`, `abortNcclComm`, `finalize` and the destructor are separate.
Each call that can fail has a throwing variant with what was done before it.
Two facts are PyTorch's and assumed: the allocator calls the hook before it gives a segment
back, and an exception from the callback leaves the segment with the allocator.
Only `SEGMENT_ALLOC` and `SEGMENT_FREE` occur in the model, as the hook ignores every
other event (those of expandable segments too); `clear()`, for tests, is left out.

### Collectives

Every rank runs the same program `prog`. An operation appends launches to the
rank's stream; a launch is the calls of one NCCL group. NCCL is external: it
serves any send and receive at the heads of two streams that name each other,
and a broadcast or reduction when it is every rank's first remaining collective call. A
tensor element is the set of input elements in it, so that a wrong offset, a
missing copy, or a part reduced twice into the wrong slot shows. `Result`
says what each operation is for, independently of the calls. A rank whose
operation throws ends its program; its peers may then wait for it.
Observed: `all_gather_v` and `reduce_scatter_v` throw between `groupStart` and `groupEnd` and leave
the group open (`GroupAfterThrow`); `batch_op_issue` closes its group in that case.

### Bootstrap

`Begin` makes the key and advances `counter_`, `PublishId` and `ReadId` are the two
sides of `exchangeUniqueId`, `CallInit` and `InitReturns` the rendezvous of
`commInitRankConfig`, `CleanupReturns` the barrier of `cleanupTCPStore`, `Throw` any
failure or timeout. `plan` is the program: the names a rank will create.

### CtranGpe

The main thread submits (`Submit` up to the launch, `Launch`, `SubmitHost`, `Terminate`,
`UserAbort`), captures, replays and destroys a graph. `submit` returns at its first CUDA error
and undoes nothing but, for a failed launch, the words of the item:

| model | what failed, and what is left |
|---|---|
| `SubmitFails` | asking for the capture's state or preparing the graph's buffers: an item marked SCHEDULED that no command has |
| `PreLaunchFails` | `preKernelLaunch`, after it set `lastUserStream_`: the command in the queue, its item SCHEDULED, no kernel, and a stream that will not be made to wait |
| `LaunchFails` | the launch: the command in the queue, its item reset |
| `PostKernelLaunch`, second case | recording the order: a running kernel that kernels of other streams do not wait for |
 The GPE
thread's `gpe.pc` follows `gpeThreadFn`: `idle` (`Dequeue`), `start` (`WaitStart`),
`run` (`RunFunc`, `FuncFails`), then `Signal`, and `Drain`, `Await`, `Convert` on the way
after an abort or a kernel that does not wait. Each block of each kernel is a process
(`KernelStartGpe`, `KernelWaitGpeTerminate`, ...) that may run once its stream reaches it. `flag`
holds the words; each load and store of one is a step, except that host loops over
the words of an item are one step where the other side cannot tell. `Available` is
the pool with its reclaiming of items whose words are all UNSET.

Kernels exit but for the situations `Stuck` names, each of which the model reaches: the GPE
thread is gone (an algorithm threw with aborts disabled), the launch failed after the
command was queued, a block starts after the thread has seen the first block's
word and released the item (lines 499-505 of `CtranGpeImpl.cc` test `flag_[0]` only; the later
block overwrites its TERMINATE), an item issued to a second command while the thread
still awaits the first, and a graph's item given to another command (`Lent`). The last is
the pool's: a captured kernel keeps its item as long as the graph lives, but after a launch the
words read UNSET, so that `reclaim` of a pool that has run out takes the item back and the
next launch of the graph writes words that belong to another kernel. With different numbers of
blocks such a word may keep TERMINATE for good, with no command left to clear it:
`FlagsComeBack` excepts items that were lent (`IsLent`). Both the run and the proof cover
failed launches and failed algorithms.

History variables name what a failed CUDA call leaves: `abandoned` the items of the first two
rows, which never come back and which `FlagsComeBack` excepts; `missed` that the stream in
`lastUserStream_` was not made to wait, `unwaited` the kernels launched on such a stream, and
`unrecorded` those whose order was not recorded. `KernelsInOrder` claims order for two
kernels on one stream, and on two streams when the earlier is recorded and the later not
unwaited (`Ordered`). A host node or a launch that fails under capture is left out.

`FlagExclusive` holds until `Compromised`, whose three cases the model reaches as well: the
communicator was aborted (`Convert` writes HOST_ABORT into an item that may be another
command's by then), a launch failed (its command is still queued and will write to the item
that was reset), or a graph's item was lent. `nodes` are the captured kernels of a stream in
the order of their capture, which is how a launch of the graph puts them on that stream.

### RegCache

Threads are each communicator's main and GPE threads and the asynchronous one; a step
is what a thread does under one lock of `segmentsAvl_` or `regElemsMaps_`, so that a
`FastPath` that misses, a `FoundLate` or `Register`, and `FreeSegment` and
`DeregElems` interleave as in the code. `RegMem`, `DeregMem`, `Collective`,
`CollectiveEnds`, `Destroy`, `TakeRequest` are the callers'. `elems` is by address: a
destroyed element's address may be used again, which is what a stale handle would show. A
registration may cover two segments; one rank may export a registration made by another
(`borrowed`). The epoch lock of the InfiniBand backend is respected where the code takes it.
At most one registration or deregistration fails per behaviour. Observed: when
`remReleaseMem` fails its caller leaves with the epoch lock held (`CtranMapper.cc`, around
510); the model has no such failure.

### AllReduceRing

Each rank is a host (`impl`), the blocks of its kernel (`algoFn`) and two channels. The
host polls five operations, each with posted and done rounds; one action is one poll
that succeeds (`SendCopyPost`, `SendCopyDone`, `SendTransPost`, ..., `RecvRedCopyDone`,
`PartitionDone`), and the order in which the host polls them is not kept: any may be next.
`BlockSend`, `BlockRecv`, `BlockNextPartition` and `BlockAbort` are the kernel, `posted` and
`completed` the words of `GpeKernelSync`; blocks split the positions of a chunk. `Land`
and `Settle` are the network: a put has arrived, and the GPU can see it after a
flush. An element is the set of contributions summed into it. The buffer is reduced in place.
The kernel's copy and its reduction split a chunk between blocks in two ways; the model has one
partition (`PartOf`), as the host waits for all blocks between the operations on a chunk.
The flush is optional in the code (`enableLocalFlush`, `CtranIb.cc` 294-319) and completes
at once when it is off; the model has it on.
`SendTransDone` relies on requests completing in order, which `CompleteHaveLanded` of
`CtranIbVc` gives. Observed: the comment on the minimum shard size speaks of a single-shard
ring the code does not have, and a minimum below one element would allow empty shards,
which `RingAssumption` excludes; an exception in the host leaves `GpeKernelSync`s neither
reset nor released.

### CtranSchedules

An algorithm is a program of steps per rank: `sendCtrl`, `waitCtrl`, `put`, `putAny`,
`waitPuts`, `waitNotify`, `reduce`, `copy`. `AllGatherRing` to `SendRecv` compute it as
the functions of the same name issue calls; `DoSendCtrl` to `NextOp` run it; `Land` is the
network, first in first out per pair, a put's read, arrival and completion in one step.
That is what `CtranIbVc` shows of spray mode and of dqplb mode when every put notifies,
and not of puts that notify last in dqplb mode (finding 5). Every rank is on a node of
its own; one stream; counts above zero.
Observed: recursive doubling needs a power of two of ranks, which `ReduceScatterRHD` tests
and `AllGatherRecDbl` does not; a ring that does not divide its block sends `NUM_SPLIT + 1`
messages although its variable says "split equally"; the staging buffers of small messages
(`AllGather.cc` 127-147, `BroadcastDirect.cc` 294, `ReduceScatterRHD.cc` 373-409) are
filled and emptied outside the order `submit` keeps between streams
(`CtranGpeImpl.cc` 96-109), so that operations on two streams may overwrite them.

### CtranIbVc

One action is one call or one polled completion, both under the connection's
mutex: `Iput` (`PostFast`, `PostRegular`, batches), `WriteComplete`, `NotifyComplete`,
`WriteImmRcvd`. `snd` is the sender's fields, `rcv` the receiver's; `TryToPostOp`,
`BurnDownPuts`, `TryPostNotifies`, `InOrder` are the functions of those names. `LandWrite`
and `LandNotify` are the network: in order per QP, any order between QPs, waiting for a posted
receive. Sequence numbers wrap at `seqMod` (2^24 in the code). One mode per connection;
options per operation could change it. Observed, and not a run: with two devices per
rank a fast put's completion polled before that of a regular put takes the latter's place in
the sequence and a notification is lost, unless the caller waits in between; nothing bounds
how far one QP may run ahead of another, so that sequence numbers are unique only while that
stays below 2^24; gets share `pendingWqeQs_` with puts, but their completion posts no
pending put.

### CtranIbConnect

The lower rank connects, from the call that needs it: `StartConnect`, `ClientSetup`,
`ClientReturn`; the listen thread of the higher accepts one peer at a time: `Accept`,
`ServerSetup`, `ServerPublish`, `ServerReturn`. `Call` is the next call of the
program (`isendCtrl`, `irecvCtrl`, `preConnect`, wait), `Progress` is `progressInternal`, `Land` the
network. `pendingOps` holds what was asked for before the connection, messages apart from
receives: issuing the one kind never depends on the other. `landed` holds what the receiver has
not polled yet. A send or receive to a peer that `preConnect` has marked skips the check for
held requests (`CtranIb.h` 733-814), so that the callers of `preConnect` must have none for its
peers. `ProgramsSound` says so of the programs (`WaitsFirst`); it is met by the three callers
(`AllToAllvImpl.h` 142, `AllToAllvDynamicCommon.cc` 249, `AllReduceARG.cc` 383), which connect
first in a function of the host thread: the functions before it returned after
waiting for their receives, puts and notifications, and a peer's notification comes after it
received our message. The unprotected erase of `pendingVcs_` (`CtranIb.cc` 1042) is left out.

### Composition for TLC

`MCAlgorithms` and `MCExchange` put models that do not interact into one
specification, as alternatives of a behaviour: its first state says which one it
runs, and the others' variables never change. A property is that of the part at hand.
`MCExchange` extends `Bootstrap` and `CtranIbConnect`, whose theorems are about the same
definitions; hence the latter's `LinkInit`, `LinkNext`, `mesh` and `Peers`.

## 4. Runs

| run | instance | result |
|---|---|---|
| `ncclx_live` | 2 works on two streams, 1 capture, abort option on and off, init may throw, fair | types, the safety invariants, liveness, and the contract hold |
| `ncclx_drain` | 2 works on two streams | **violated**: finding 1 |
| `ncclx_overlooked` | 3 works on two streams, one fails and one times out | **violated**: finding 4 |
| `lifetime_owners` | 3 works on a communicator and a window, 1 graph, pool of 3, failing CUDA calls | events are conserved, statuses are of their own work, nothing leaks |
| `hook_faults` | 3 communicators, 2 segments, every call may fail | the four properties hold |
| `hook_preexisting` | 2 communicators, 2 segments, no failures | **violated**: finding 2 |
| `collectives_empty_input` | 2 ranks, a rank with nothing to send | **violated**: finding 3 |
| `exchange` | bootstrap: 3 ranks, 3 communicators, or 2 in any orders with failures; collectives: every ordered pair on 2 ranks, each one but `all_to_all` on 3; 3 to 6 puts on 2 queue pairs; 2 and 3 ranks that connect | the parts' properties hold, and all end |
| `ib_notify_last` | 2 puts on 2 queue pairs, the last notifies | **violated**: finding 5 |
| `gpe_service` | 3 commands, 2 streams, 1 or 2 blocks, 2 or 3 flag items, abort, timeout, failing algorithms and CUDA calls, or a graph | flags are exclusive and come back, kernels are ordered, and exit or are named by `Stuck` |
| `regcache_shared` | 2 communicators, 2 segments, 2 collectives, 3 addresses, lazy, eager, asynchronous | the five invariants hold |
| `algorithms` | all-reduce: 2 and 3 ranks, 1 or 2 partitions, 2 blocks or aborts; the others: ten jobs on 2 to 5 ranks | results are right, nothing is overwritten early, all end |

Why the bounds are enough. *Works*: two streams give a collection that meets an
unsettled or failed head and one stream's status overwriting another's; the theorems
remove the bound for every safety property. *Owners*: three works and three events make
the pool overflow, and let an event go from a work to a later one beside a captured work.
*Segments and communicators*: a
failure in the middle needs a communicator before it and one after it (three),
and a partial registration two segments; proved for all. *Ranks*: with two,
ring neighbours coincide and displacements have one summand, hence also three; an
operation leaves nothing behind on a rank but its remaining launches, so pairs of
operations cover what one can do to the next. *Communicators of a job*: three
give a call before and a call after the one whose key is read. *GPE*: more commands than
items make the pool reclaim one, also beside a graph launched twice; two blocks make them disagree. *Cache*: a run of two
segments, two communicators that race for it, and three addresses, so that
a dynamic registration of each can live beside a cached one. *Ring*: three steps of reduction, then forwarding, need two
or three ranks; two partitions reuse the temporary buffers; a chunk less than a shard
wraps the chunks. *Schedules*: four ranks are two rounds of doubling, five a tree of
three levels that is not full, three a non-power of two; each job is followed by another
that shares its buffers where both fit. *Queue pairs*: more writes than the pairs take
and than there are receives, and sequence numbers that wrap. *Connections*: one
client of two, and two clients of one listen thread.
Segments of the hook, and communicators and addresses of the registration cache, are
symmetric in safety-only runs; the hook's communicators are not, since `std::set` orders them.

Deadlock is checked for TorchCommNCCLX, where the end of the program is a step
(`Terminated`). In the other modules a program simply ends, or waits for a rank or thread that
failed; there `NeverStuck`, `KernelsExitOrStuck`, `ExchangeEnds`, `AlgorithmsEnd` and
`NothingLeft` say what must not wait or stay.

Each property of a passing run has a mutant in `PROJECT.json`: a form of
an action or operator with a plausible bug in it (the definitions commented "Fault"), under
which TLC finds that property violated.

### Fairness

*TorchCommNCCLX*: a thread inside a call goes on; the watchdog is scheduled and
its interval ends; a stream reaches a work when what is before it has ended; time
passes. Nothing makes a kernel end, which is the point of the watchdog, nor the
program call again, nor a capture end. *CtranGpe*: a submission at hand goes on to its
launch, the GPE thread, the callbacks of a launched graph, and the blocks of a
kernel the device has reached go on, and an algorithm returns, as its peers take part in it;
nothing makes the program call, abort or terminate, or a timeout expire. *Ring, schedules, bootstrap, puts, connections*: processes and the network go on, and
blocked calls return when they can; weak fairness of the next-state relation as a whole (for
the ring, without the program's abort) is all that is used, as nothing there goes on for ever.
*Collectives*: none; `NeverStuck` is an invariant.

### Findings

1. `ncclx_drain`. `TorchWorkNCCLXQueue::finalize` repeats its collection while the
   returned status is unsettled, but that status is of the head visited last: with
   works on two streams it can be COMPLETED while the other stream's head is
   running. finalize then clears the queues and destroys the communicator under
   that work. With one stream this cannot happen (`FinalizeDrainsOneStream`,
   proved as `OneStreamDrains`).
2. `hook_preexisting`. `registerComm` registers "all memory that has already been
   allocated", but the hook knows only what was allocated since the first
   communicator created it. Such a segment is never registered, and freeing it throws.
3. `collectives_empty_input`. `all_to_all_v_single` derives the elements of a slice
   from the input; a rank with an empty input expects 0 elements from everyone.
4. `ncclx_overlooked`. `checkAndAbortIfTimedOutOrError` loads `comm_state_` for TIMEOUT
   (`TorchCommNCCLXUtils.cpp` 233) and again for ERROR (241). The watchdog, having collected a
   timed-out work, can store TIMEOUT between the loads over the ERROR that the operation
   itself stored for another stream's work: the operation passes both tests and is issued,
   while "if work errors, calling TorchCommNCCLX method calls commAbort and" "throws
   NCCLException" (`TorchCommNCCLXTest.cpp` 386).
5. `ib_notify_last`. In dqplb mode only writes of puts that notify carry a sequence number.
   A put without notification is a plain write the receiver does not count: on another
   queue pair it may still be under way when a later put's notification is counted,
   although "every write that is posted by the sender has a sequential sequence
   number". `AllGatherRecDbl`, `AllGatherBrucksFF` and `ReduceScatterRHD` notify so.

## 5. Proofs

All theorems hold for any streams, works, captures, graphs, options, segments,
communicators, ranks and names; they rest on the named ASSUME of their module and, where
one is stated, a hypothesis of the theorem.

**TorchCommNCCLXProofs.** `TypeCorrect`; then `FailureKept`, `FailureStopsOps`,
`OpsUseLiveComm` and `AbortHasCause` from one inductive invariant, `SafetyInv`:

- `ControlInv`: who holds the mutex is where in the code; nothing is left to scan when
  no one holds it or a failure was met; `init_state_` agrees with where the threads are;
- `QueueInv`: a queued work was issued, on the stream of its queue, and is not the one
  about to be enqueued;
- `FailureStaysAtHead` itself;
- `CarryInv`: how the failure that existed when an operation was called reaches its
  decision: a failed work on a stream still to be scanned, then the status the
  collection returns, then `comm_state_`, and at the second test ERROR, unless `overwritten`.
  This makes `NoIssueAfterFailure`
  inductive although `comm_state_` is written outside the mutex: the failed work is a
  head, no collection can pass it, and no thread puts `comm_state_` back to NORMAL, so that
  the only way past both tests is the watchdog's store of TIMEOUT between them;
- `CommInv`: a failing status a thread carries is the status of some work, the
  communicator is live or aborted until finalize, and an operation that finds it aborted
  was called after a failure, which gives `IssueNeedsComm` with the same one exception;
- `NoSpuriousAbort` itself.

In the same module, `CompletionOrder`, `StatusesForward` and
`OneStreamDrains` need `OrderInv`: a work whose status is COMPLETED is done on
the GPU (`DoneInv`), queues are in the order of issue (`SortedInv`), and until finalize
clears the queues no work is lost: it is completed, queued, or about to be enqueued
(`KeptInv`). For `OneStreamDrains` `QueuedRuns` adds that captured works are never queued,
so that the heads of two queues would be works on two streams (`OneQueue`), and `DrainInv`
that, while there is one stream, the status of the last head is the status of everything
queued: when finalize's loop ends on COMPLETED no queue holds anything. That all works
are on one stream is a premise of the property; finding 1 shows it cannot be dropped.
`AsyncFinalizeDrains`: a program of asynchronous operations (`OpModes \subseteq {TRUE}`, the
theorem's hypothesis) meets it, on whatever streams it calls them.

The last part of the module is `KeepsItsContract`: the initial states map to the
contract's, and every step to one of its steps or to a stutter. The store of TIMEOUT between
the two tests maps to `Overlook`: it finds works that failed in both ways, since
`comm_state_` names a kind of failure that happened (`OverwriteStep`). `ContractInv` adds to
`OrderInv` that a failed work was issued on the GPU (`RanInv`, so a step never fails a
work the contract has not seen) and that finalize, once its loop has ended, carries a failure
or there is none (`ToldInv`, so that it ends well only then).

**AllocatorHookProofs.** One invariant, `HookInv`: the hook knows only segments the
allocator holds, and handles are for such segments; before the hook exists nothing is
registered; a communicator that is not attached has no handle for a segment the hook
knows, which is why it suffices to deregister a freed segment from the attached ones;
an attached one is `ready` or `closed` and has its NCCL communicator; until a
deregistration fails, handles are for known segments of attached communicators
only; until any NCCL call fails, an attached communicator has exactly the known ones.
From it `HookTypeCorrect`, `NoDangling`, `HandlesValid`, `AttachedHaveAll` and
`HandlesGoFirst`.

**WorkLifetimeProofs.** `LifetimeInv` is `Types`, `OpInv` (the operation in progress is the
only holder of its work), `GraphInv` (a work is held by its graph only while CUDA's
callback is still to come, or if none was registered), `CommInv` (the program holds the
communicator until finalize
is over, and after that the queue holds late works only), `FreedInv` (once the NCCL
communicator is destroyed, the works left outlived it or are late, and the pool has events of
such works), `EventInv` (an
event is in the pool, or with one work that exists, or gone) and `RecordInv` (what an
issued work's events recorded is that work). From it `EventsAreConserved`, `StatusIsAlwaysOwn`,
`CleanupAlwaysHasComm`, `NeverLeaks`, `EventsAreFreed`, `PoolStaysWithinLimit`.

**RegCacheProofs.** Three layers. `RegCacheInv`: types; the request the asynchronous thread
works on is in the queue until it is done (`RequestQueued`); every cached element is linked
from each of its segments, which are cached (`LinkedBack`: what `freeSegment` relies on); and
`RegisteredOnce`. From it `SearchFindsCachedSegments` and `EachRangeRegisteredOnce`.
`UseInv` adds who works on what: a thread on its own communicator's segments and one at a time
(`WorksOnOne`), what a GPE thread's handle is at each step (`GpeSound`), what an idle thread
leaves behind (`Resting`), that a segment's reference count is the number of
communicators that hold it, plus one that is about to give it back (`Counted`), and that
what is registered beside the cache, or on its way out of it, has a thread that will remove it
(`DynamicOwned`, `LeavingOwned`). When all have let go nothing is left: `NothingStaysRegistered`.
`HeldInv` adds, until a registration spans two segments or the cache is destroyed, that every
cached element is of one segment, which some communicator holds (`SingleInv`): `TablesAgree`
(what a segment's list names is of that segment), `ListsApart` (two threads never remove the
same element), and that a dynamic registration, a handle in use and an export each have the
holder that keeps them (`DynamicHeld`, `OwnHeld`, `ExportsOwned`). From it
`HandlesInUseStayRegistered` and `ExportsStayLive`. `RegCacheAssumption` has finite sets of
communicators and segments: the reference count is a number.

**CtranGpeProofs.** `BaseInv`: types, and how the words of program order hang together on both
sides of the pinned memory: queue, `gpe.pc` and the numbers of the commands submitted,
served and signalled. `OrderInv`, for `KernelsRunInOrder`: a kernel submitted later has
the earlier one before it, on its stream or through the event `postKernelLaunch` records,
also where `preKernelLaunch` left the wait out because the stream is the last one. Every
launched kernel is in `order` or in `unrecorded`, and the last stream waits for all of `order`
but its own, unless `missed`; a failed wait therefore costs the order of the kernels
launched before another stream's wait succeeds, and a failed record that of one kernel. `GpeInv` is `BaseInv`, `Converting` (only an aborted
communicator converts) and, until `Compromised`, `HoldInv`: which words an item may read at
each place of its command, its blocks and the GPE thread; that the words read UNSET only
when no party of that command will touch them again; and that an item which is free or
reclaimed is nobody's. It is what `reclaim`, which looks at the words alone, relies on. From
it `ItemsAreExclusive`. `ComeBackInv`, for `FlagsAlwaysComeBack`, goes on where `HoldInv` ends:
without aborts it follows every item that is neither lent nor abandoned (`Exempt`) through
failed launches as well. Such an
item may have several owners, of which all but the last are over (`Current`, `Over`); `WaitReads`
and `ExitReads` relate the words to the places of the last owner's blocks, and `ThreadReads` says
that the thread, possibly still serving an earlier owner whose launch failed, goes past
the start only on a word that the last owner's first block has written. What makes it
inductive is that all blocks are released by one step and none exits before block 1 has
started. Its search found the exception for lent items; the invariant was model-checked
on instances with failing launches and lent items first.

**CtranIbConnectProofs.** `LinkInv`, for any programs that meet `ProgramsSound`. The
handshake: the lower of two ranks is the client (`Roles`); what a listen thread acknowledged it
has published, and a client that is back from `connectVc` has a server that published
(`Published`); a client publishes in the step that makes its connection (`ClientKnows`); so
nothing goes from a lower rank to a higher one that does not know the connection
(`SentIsKnown`). From these
`PolledConnectionsAreKnown`. The messages: requests held for a connected peer are waited for
before its next `preConnect` (`HeldAreWaitedFor`), which is why none is overtaken; and
`InNumber`: for each ordered pair there is a number l of messages that have landed such that
what is held, queued for a packet and on the wire are, in this order, the numbers above l
(`SendSide`), and receives wait, or landed messages do, for consecutive numbers that meet at
those matched (`ReceiveSide`). From it `ControlMessagesMatch`.

**BootstrapProofs.** `IdsDoNotCross`: ranks that share an NCCL id are creating the same
communicator. Over a caller's store keys are counters, and a key names the same
communicator on every rank only if all ranks create theirs in one order P; P is a
witness of the invariant (`\E P`), fixed by the initial state. The hypothesis `CallersAgree`
says that, and that no call throws: with different orders, or a retry on some ranks
only, ids do cross, as the code has nothing against it. Over the store manager's stores, where
the communicator's name is part of the key, neither is needed.

**AllReduceRingProofs.** `RingInv` says where everything is, for every setting that meets
`RingAssumption`. The round counters of a partition are put in closed form first: the step
`s` of a rank starts in round `Start`, its round `R` works on the `Numel` elements from `Elem`
on, and what a rank sends in step `s + 1` is what its left neighbour sent in step `s`
(`StartFacts`, `ShardAtFacts`, `Forward`). No induction is needed: the steps before `s` are `s`
shards, of which those that passed the last, longer one are counted (`Passed`). Then
three parts. `Types`. `Control`: how the counters of a host follow each other (`HostRounds`,
with the windows of `numChunks` rounds), a rank and its right neighbour are in the same
partition or one apart (`Same`, `Ahead`, `Behind`: what of the old partition is then certainly
over), a block works on its host's partition or is through with the previous one (`SameBlock`,
`BehindBlock`), and what the flags show. `Content`: which round's partial sum (`Value`) each
chunk of `tmpSendBuf`, each put on the wire, each chunk of `tmpRecvBuf` and each element of the
data holds (`SendOK`, `WireOK`, `ArrivedOK`, `SeenOK`, `DataOK`). A write disturbs no other
chunk in use because these belong to at most `numChunks` rounds in a row, which have different
remainders (`ModDistinct`). `RingInv` was model-checked on the all-reduces of `algorithms` before
it was proved. From it `AllReducedHolds` and `ReceivedIsDueHolds`.

**Only model-checked.** Liveness (`HangDetected`, `FailureStopsProcess`,
`FinalizeReturns`, `KernelsExitOrStuck`, `ExchangeEnds`, `AlgorithmsEnd`): fairness and ENABLED
are outside what TLAPS supports. `Collectives` and `CtranSchedules` (`ResultsCorrect`,
`NeverStuck`, `SchedulesCorrect`): what their loops compute for every number of ranks needs
induction over data. `CtranIbVc` (`NotifiedHaveLanded`, `CompleteHaveLanded`): its queues are built with
`SelectSeq` and `FlattenSeq`, recursive operators over sequences of which the library states
no facts, and whose properties need the same induction.

## 6. Not modelled, and why

*Forwarding*: the NCCLX API wrapper, the front end and its factory, the Python layer.
*External*: NCCL and Gloo, the verbs of InfiniBand, CUDA (as far as their callers rely on
them they are part of the models; NCCL's own sources under `ncclx/v2_27` are a copy of that
library). *Outside what TLC can explore*: CUDA kernels and device-side algorithms, other than
the words and chunks they share with the host. *Near copies*: the NCCL and RCCL backends.
*No state that acts*: generated configuration variables, logging, profiling, tracing output,
environment parsing. *Planned*: the list of section 2. Within modelled components: `split`;
InfiniBand gets, atomics, flushes, and notifications without data; NVLink, socket and TCP
backends and the algorithms' paths within a node; the direct and ARG all-reduce, the direct
reduce-scatter, dynamic, compressed and deduplicating all-to-alls; the mapper's import side
and requests; failures to create or destroy a CUDA event, and of a host node or
launch under capture. `PROJECT.json` gives the reason for each component.
