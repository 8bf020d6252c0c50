--------------------------- MODULE TorchCommNCCLX ---------------------------
(***************************************************************************)
(* One rank's NCCLX communicator: the user thread that issues collectives  *)
(* and finalizes, the timeout watchdog thread, the work queue they share,  *)
(* and the GPU that executes what is issued.                               *)
(*                                                                         *)
(* Every operation of TorchCommNCCLX (send, recv, all_reduce, barrier,     *)
(* ...) has one shape: check the queue, abort if something failed, pick a  *)
(* stream, create a work, record its start event, call NCCL, record its    *)
(* end event, enqueue the work.  The model keeps that shape, and keeps of  *)
(* a work what the queue sees of it: the progress its two events reveal.   *)
(***************************************************************************)
EXTENDS Naturals, Sequences

CONSTANTS
    UserStreams,    \* the CUDA streams the program makes current
    Internal,       \* internal_stream_, where asynchronous operations run
    OpModes,        \* the values of async_op the program uses
    MaxWork,        \* bound: works issued in one behaviour
    MaxCaptures,    \* bound: graph captures begun in one behaviour
    AbortModes,     \* the values of abort_process_on_timeout_or_error explored
    NoOne           \* no thread holds the mutex; no stream is being scanned

Streams == UserStreams \cup {Internal}
Works == 1 .. MaxWork
Threads == {"user", "watchdog"}

ASSUME ConstantsAssumption ==
    /\ Internal \notin UserStreams
    /\ UserStreams # {}
    /\ NoOne \notin Streams \cup Threads
    /\ OpModes \subseteq BOOLEAN
    /\ MaxWork \in Nat
    /\ MaxCaptures \in Nat
    /\ AbortModes \subseteq BOOLEAN

Status == {"NOT_STARTED", "INPROGRESS", "COMPLETED", "TIMEDOUT", "ERROR"}
Failing == {"TIMEDOUT", "ERROR"}
Terminal == Failing \cup {"COMPLETED"}

VARIABLES
    gpu,         \* per work: what the GPU has done of it
    status,      \* per work: state_
    expired,     \* per work: more than timeout_ms_ has passed since
                 \*   start_completed_time_
    place,       \* per work: the stream it was issued on
    after,       \* per work: the works its stream waits for before it
    issued,      \* number of works issued so far; works are numbered in order
    streamTail,  \* per stream: the works the next one on it has to wait for
    queue,       \* stream_work_queues_ (an empty queue is an absent key)
    mutex,       \* holder of work_queues_mutex_
    todo,        \* streams the running garbage collection has not finished
    scanning,    \* stream whose queue its inner loop is working on
    last,        \* per thread: last_status, then the value returned
    pc,          \* per thread: where it is
    commState,   \* comm_state_
    initState,   \* init_state_
    comm,        \* nccl_comm_: "live", or null after "aborted" / "destroyed"
    shutdown,    \* shutdown_
    process,     \* "running", or "aborted" by abort()
    abortProcess, \* options_.abort_process_on_timeout_or_error, fixed
    capturing,   \* the current stream is capturing a graph
    captures,    \* captures begun so far
    sawFailure,  \* history: some work had failed when the operation in
                 \*   progress was called
    overwritten  \* history: while that operation was between its two tests of
                 \*   comm_state_, the watchdog stored TIMEOUT over ERROR

workVars == <<gpu, status, expired, place, after, issued, streamTail>>
queueVars == <<queue, mutex, todo, scanning>>
commVars == <<commState, initState, comm, shutdown, process>>
captureVars == <<capturing, captures, abortProcess>>
historyVars == <<sawFailure, overwritten>>
vars == <<workVars, queueVars, last, pc, commVars, captureVars, historyVars>>

Init ==
    /\ gpu = [w \in Works |-> "none"]
    /\ status = [w \in Works |-> "NOT_STARTED"]
    /\ expired = [w \in Works |-> FALSE]
    /\ place = [w \in Works |-> Internal]
    /\ after = [w \in Works |-> {}]
    /\ issued = 0
    /\ streamTail = [s \in Streams |-> {}]
    /\ queue = [s \in Streams |-> << >>]
    /\ mutex = NoOne
    /\ todo = {}
    /\ scanning = NoOne
    /\ last = [t \in Threads |-> "COMPLETED"]
    /\ pc = [user |-> "idle", watchdog |-> "none"]
    /\ commState = "NORMAL"
    /\ initState = "UNINITIALIZED"
    /\ comm = "none"
    /\ shutdown = FALSE
    /\ process = "running"
    /\ abortProcess \in AbortModes
    /\ capturing = FALSE
    /\ captures = 0
    /\ sawFailure = FALSE
    /\ overwritten = FALSE

NonEmpty == {s \in Streams : queue[s] # << >>}

goto(t, label) == pc' = [pc EXCEPT ![t] = label]

-----------------------------------------------------------------------------
(* The GPU and the clock.                                                   *)

Finished == {"done", "failed"}

\* The stream reaches w's start event once everything before it is finished.
GpuStart(w) ==
    /\ gpu[w] = "queued"
    /\ \A v \in after[w] : gpu[v] \in Finished
    /\ gpu' = [gpu EXCEPT ![w] = "running"]
    /\ UNCHANGED <<status, expired, place, after, issued, streamTail, queueVars,
                   last, pc, commVars, captureVars, historyVars>>

\* The kernel ends and the end event with it; or CUDA reports an error for one
\* of the two events.  A kernel whose peers never arrive does neither.
GpuFinish(w) ==
    /\ \/ gpu[w] = "running" /\ gpu' = [gpu EXCEPT ![w] = "done"]
       \/ gpu[w] \in {"queued", "running"} /\ gpu' = [gpu EXCEPT ![w] = "failed"]
    /\ UNCHANGED <<status, expired, place, after, issued, streamTail, queueVars,
                   last, pc, commVars, captureVars, historyVars>>

\* The deadline is measured from the moment checkStatus saw the start event.
DeadlinePasses(w) ==
    /\ status[w] = "INPROGRESS"
    /\ ~expired[w]
    /\ expired' = [expired EXCEPT ![w] = TRUE]
    /\ UNCHANGED <<gpu, status, place, after, issued, streamTail, queueVars, last,
                   pc, commVars, captureVars, historyVars>>

-----------------------------------------------------------------------------
(* TorchWorkNCCLX::checkStatus and the queue's garbage collection.          *)

\* Faults: the end event's error is taken for completion; the start event is
\* queried in its place; the elapsed time is never compared.
Observed_IgnoresError(w) ==
    IF gpu[w] \in Finished THEN "COMPLETED"
    ELSE IF gpu[w] = "running" THEN "INPROGRESS" ELSE "NOT_STARTED"
Observed_StartEvent(w) ==
    IF gpu[w] = "failed" THEN "ERROR"
    ELSE IF gpu[w] = "queued" THEN "NOT_STARTED" ELSE "COMPLETED"
Observed_NoTimeout(w) ==
    IF gpu[w] = "done" THEN "COMPLETED"
    ELSE IF gpu[w] = "failed" THEN "ERROR"
    ELSE IF gpu[w] = "running" THEN "INPROGRESS" ELSE "NOT_STARTED"

\* What checkStatus makes of a work that is not settled, both event queries
\* being answered.
Observed(w) ==
    CASE gpu[w] = "running" ->
             IF status[w] = "INPROGRESS" /\ expired[w] THEN "TIMEDOUT"
                                                       ELSE "INPROGRESS"
      [] gpu[w] = "done"    -> "COMPLETED"
      [] gpu[w] = "failed"  -> "ERROR"
      [] OTHER              -> "NOT_STARTED"

\* Fault: a settled status is evaluated again.
CheckStatus_NoEarlyReturn(w) == {Observed(w)}

\* The results checkStatus may leave in state_.  While a capture is active CUDA
\* may answer either query with cudaErrorStreamCaptureUnsupported, which
\* changes nothing.
CheckStatus(w) ==
    IF status[w] \in Terminal
    THEN {status[w]}
    ELSE {Observed(w)}
         \cup {st \in {status[w]} : capturing}
         \cup {st \in {"INPROGRESS"} : capturing /\ gpu[w] \in {"running", "done"}}

\* garbageCollectLocked up to its outer loop, by the thread t holding the mutex.
BeginScan(t) ==
    /\ todo' = NonEmpty
    /\ scanning' = NoOne
    /\ last' = [last EXCEPT ![t] = "COMPLETED"]

\* Faults: a failed head is popped too; a failure does not end the collection.
Pops_Settled(st) == st \in Terminal
StopsScan_Never(st) == FALSE

\* The head is popped when it is completed, and the whole collection returns
\* when it has failed.
Pops(st) == st = "COMPLETED"
StopsScan(st) == st \in Failing

\* One round of the inner loop, for the head of s.  The order of an
\* unordered_map's keys is arbitrary, but the loop leaves a stream only when
\* its queue is empty or its head is not completed.
CheckHead(t, s) ==
    LET w == Head(queue[s]) IN
    /\ mutex = t
    /\ s \in todo
    /\ scanning \in {NoOne, s}
    /\ \E st \in CheckStatus(w) :
        /\ status' = [status EXCEPT ![w] = st]
        /\ last' = [last EXCEPT ![t] = st]
        /\ queue' = [queue EXCEPT ![s] = IF Pops(st) THEN Tail(@) ELSE @]
        /\ todo' = IF StopsScan(st) THEN {}
                   ELSE IF Pops(st) /\ queue'[s] # << >> THEN todo
                   ELSE todo \ {s}
        /\ scanning' = IF Pops(st) /\ s \in todo' THEN s ELSE NoOne
    /\ UNCHANGED <<gpu, expired, place, after, issued, streamTail, mutex, pc,
                   commVars, captureVars, historyVars>>

\* garbageCollect takes the mutex ...
GcLock(t) ==
    /\ pc[t] = "check"
    /\ mutex = NoOne
    /\ mutex' = t
    /\ BeginScan(t)
    /\ goto(t, "gc")
    /\ UNCHANGED <<workVars, queue, commVars, captureVars, historyVars>>

\* ... and releases it when the loops are done.
GcUnlock(t) ==
    /\ pc[t] = "gc"
    /\ todo = {}
    /\ mutex' = NoOne
    /\ goto(t, "store")
    /\ UNCHANGED <<workVars, queue, todo, scanning, last, commVars, captureVars,
                   historyVars>>

\* Fault: the work's status is stored as the communicator's state.
StateOf_Raw(st) == st

StateOf(st) == IF st = "TIMEDOUT" THEN "TIMEOUT" ELSE "ERROR"

\* The history of the user's two tests: it passes the first only while
\* comm_state_ is not TIMEOUT, and a TIMEOUT stored before the second hides an
\* ERROR from it.
NoteOverwrite(t) ==
    overwritten' = \/ overwritten
                   \/ /\ t = "watchdog"
                      /\ pc["user"] = "iserror"
                      /\ commState = "ERROR"
                      /\ commState' = "TIMEOUT"

\* Fault: an unsettled work is taken for a failed one.
StoreCommState_Unsettled(t) ==
    /\ pc[t] = "store"
    /\ commState' = IF last[t] # "COMPLETED" THEN StateOf(last[t]) ELSE commState
    /\ last' = [last EXCEPT ![t] = "COMPLETED"]
    /\ NoteOverwrite(t)
    /\ goto(t, IF t = "user" THEN "decide" ELSE "test")
    /\ UNCHANGED <<workVars, queueVars, initState, comm, shutdown, process,
                   captureVars, sawFailure>>

\* Fault: an error is not told from success.
StoreCommState_TimeoutOnly(t) ==
    /\ pc[t] = "store"
    /\ commState' = IF last[t] = "TIMEDOUT" THEN "TIMEOUT" ELSE commState
    /\ last' = [last EXCEPT ![t] = "COMPLETED"]
    /\ NoteOverwrite(t)
    /\ goto(t, IF t = "user" THEN "decide" ELSE "test")
    /\ UNCHANGED <<workVars, queueVars, initState, comm, shutdown, process,
                   captureVars, sawFailure>>

\* checkWorkQueue stores the outcome after the mutex is released; its status
\* goes out of scope (last is reset, as no one reads it again).
StoreCommState(t) ==
    /\ pc[t] = "store"
    /\ commState' = IF last[t] \in Failing THEN StateOf(last[t]) ELSE commState
    /\ last' = [last EXCEPT ![t] = "COMPLETED"]
    /\ NoteOverwrite(t)
    /\ goto(t, IF t = "user" THEN "decide" ELSE "test")
    /\ UNCHANGED <<workVars, queueVars, initState, comm, shutdown, process,
                   captureVars, sawFailure>>

-----------------------------------------------------------------------------
(* The watchdog thread.                                                     *)

\* wait_for returns after the interval, or on shutdown.
WatchdogWake ==
    /\ pc["watchdog"] = "wait"
    /\ goto("watchdog", IF shutdown THEN "exited" ELSE "check")
    /\ UNCHANGED <<workVars, queueVars, last, commVars, captureVars, historyVars>>

\* Fault: the watchdog leaves the abort to the user thread.
WatchdogTest_NoAbort ==
    /\ pc["watchdog"] = "test"
    /\ goto("watchdog", "wait")
    /\ UNCHANGED <<workVars, queueVars, last, commVars, captureVars, historyVars>>

WatchdogTest ==
    /\ pc["watchdog"] = "test"
    /\ process' = IF commState # "NORMAL" /\ abortProcess THEN "aborted"
                                                          ELSE process
    /\ goto("watchdog", "wait")
    /\ UNCHANGED <<workVars, queueVars, last, commState, initState, comm, shutdown,
                   captureVars, historyVars>>

-----------------------------------------------------------------------------
(* The user thread: init and the operations.                                *)

InitComm ==
    /\ initState = "UNINITIALIZED"
    /\ pc["user"] = "idle"
    /\ initState' = "INITIALIZED"
    /\ comm' = "live"
    /\ goto("watchdog", "wait")
    /\ UNCHANGED <<workVars, queueVars, last, commState, shutdown, process,
                   captureVars, historyVars>>

\* init throws after it has set init_state_, before or after the NCCL
\* communicator exists and before it starts the watchdog: the factory drops the
\* object, and the program cannot call it again.
InitFails ==
    /\ initState = "UNINITIALIZED"
    /\ pc["user"] = "idle"
    /\ initState' = "INITIALIZED"
    /\ comm' \in {"none", "live"}
    /\ goto("user", "thrown")
    /\ UNCHANGED <<workVars, queueVars, last, commState, shutdown, process,
                   captureVars, historyVars>>

\* checkInitialized, and the entry of checkAndAbortIfTimedOutOrError.
CallOp ==
    /\ pc["user"] = "idle"
    /\ initState = "INITIALIZED"
    /\ ~capturing
    /\ issued < MaxWork
    /\ sawFailure' = \E w \in Works : status[w] \in Failing
    /\ overwritten' = FALSE
    /\ goto("user", "check")
    /\ UNCHANGED <<workVars, queueVars, last, commVars, captureVars>>

\* abortNcclComm: commAbort once, then abort() if the option asks for it.
AbortNcclComm ==
    /\ comm' = IF comm = "live" THEN "aborted" ELSE comm
    /\ process' = IF abortProcess THEN "aborted" ELSE process

\* The operation ends here: nothing of it is in progress any more.
OpOver ==
    /\ goto("user", "idle")
    /\ sawFailure' = FALSE
    /\ overwritten' = FALSE

\* The rest of checkAndAbortIfTimedOutOrError loads comm_state_ twice, and the
\* watchdog may store between the loads.  The first one tests for TIMEOUT: abort
\* and throw, or go on to the second.
DecideTimeout ==
    /\ pc["user"] = "decide"
    /\ \/ /\ commState = "TIMEOUT"
          /\ AbortNcclComm
          /\ OpOver
       \/ /\ commState # "TIMEOUT"
          /\ goto("user", "iserror")
          /\ UNCHANGED <<comm, process, historyVars>>
    /\ UNCHANGED <<workVars, queueVars, last, commState, initState, shutdown,
                   captureVars>>

\* The second one tests for ERROR.  Anything else lets the operation go on, a
\* TIMEOUT stored since the first test included.
DecideError ==
    /\ pc["user"] = "iserror"
    /\ \/ /\ commState = "ERROR"
          /\ AbortNcclComm
          /\ OpOver
       \/ /\ commState # "ERROR"
          /\ goto("user", "issue")
          /\ UNCHANGED <<comm, process, historyVars>>
    /\ UNCHANGED <<workVars, queueVars, last, commState, initState, shutdown,
                   captureVars>>

\* getOperationStream: an asynchronous operation runs on the internal stream,
\* which first waits for the stream current at the call.
OperationStream(current, async) == IF async THEN Internal ELSE current

WaitsFor(current, async) ==
    IF async THEN streamTail[Internal] \cup streamTail[current]
             ELSE streamTail[current]

\* createWork, recordStart, the NCCL call and recordEnd put the work on its
\* stream, behind what the stream already holds.
OpIssue(current, async) ==
    LET w == issued + 1
        s == OperationStream(current, async)
    IN
    /\ pc["user"] = "issue"
    /\ issued' = w
    /\ gpu' = [gpu EXCEPT ![w] = "queued"]
    /\ place' = [place EXCEPT ![w] = s]
    /\ after' = [after EXCEPT ![w] = WaitsFor(current, async)]
    /\ streamTail' = [streamTail EXCEPT ![s] = WaitsFor(current, async) \cup {w}]
    /\ goto("user", "enqueue")
    /\ UNCHANGED <<status, expired, queueVars, last, commVars, captureVars,
                   historyVars>>

\* The NCCL call fails: the operation throws and its work is dropped.
OpFails ==
    /\ pc["user"] = "issue"
    /\ OpOver
    /\ UNCHANGED <<workVars, queueVars, last, commVars, captureVars>>

\* enqueueWork outside a capture.
Enqueue ==
    /\ pc["user"] = "enqueue"
    /\ mutex = NoOne
    /\ queue' = [queue EXCEPT ![place[issued]] = Append(@, issued)]
    /\ OpOver
    /\ UNCHANGED <<workVars, mutex, todo, scanning, last, commVars, captureVars>>

\* An operation during a capture skips the check of the queue; its work is kept
\* with the graph and never enters the queue.
CapturedOp ==
    /\ pc["user"] = "idle"
    /\ initState = "INITIALIZED"
    /\ capturing
    /\ issued < MaxWork
    /\ issued' = issued + 1
    /\ gpu' = [gpu EXCEPT ![issued + 1] = "captured"]
    /\ UNCHANGED <<status, expired, place, after, streamTail, queueVars, last, pc,
                   commVars, captureVars, historyVars>>

\* TorchWorkNCCLX::wait: a work that is not settled makes the current stream
\* wait for its end event; for a settled one it returns at once.
WorkWait(w, current) ==
    /\ pc["user"] = "idle"
    /\ gpu[w] \notin {"none", "captured"}
    /\ status[w] \notin Terminal
    /\ w \notin streamTail[current]
    /\ streamTail' = [streamTail EXCEPT ![current] = @ \cup {w}]
    /\ UNCHANGED <<gpu, status, expired, place, after, issued, queueVars, last, pc,
                   commVars, captureVars, historyVars>>

CaptureBegin ==
    /\ pc["user"] = "idle"
    /\ ~capturing
    /\ captures < MaxCaptures
    /\ capturing' = TRUE
    /\ captures' = captures + 1
    /\ UNCHANGED <<workVars, queueVars, last, pc, commVars, abortProcess, historyVars>>

CaptureEnd ==
    /\ pc["user"] = "idle"
    /\ capturing
    /\ capturing' = FALSE
    /\ UNCHANGED <<workVars, queueVars, last, pc, commVars, captures, abortProcess,
                   historyVars>>

-----------------------------------------------------------------------------
(* The user thread: finalize.                                               *)

\* Fault: finalize joins a watchdog it never told to stop.
FinalizeBegin_NoShutdown ==
    /\ pc["user"] = "idle"
    /\ initState = "INITIALIZED"
    /\ initState' = "FINALIZED"
    /\ goto("user", "join")
    /\ UNCHANGED <<workVars, queueVars, last, commState, comm, shutdown, process,
                   captureVars, historyVars>>

FinalizeBegin ==
    /\ pc["user"] = "idle"
    /\ initState = "INITIALIZED"
    /\ initState' = "FINALIZED"
    /\ shutdown' = TRUE
    /\ goto("user", "join")
    /\ UNCHANGED <<workVars, queueVars, last, commState, comm, process,
                   captureVars, historyVars>>

\* The watchdog is joined; TorchWorkNCCLXQueue::finalize takes the mutex and
\* keeps it.
FinalizeJoin ==
    /\ pc["user"] = "join"
    /\ pc["watchdog"] = "exited"
    /\ mutex = NoOne
    /\ mutex' = "user"
    /\ BeginScan("user")
    /\ goto("user", "drain")
    /\ UNCHANGED <<workVars, queue, commVars, captureVars, historyVars>>

\* Its loop collects again while the last status is an unsettled one.
FinalizeRescan ==
    /\ pc["user"] = "drain"
    /\ todo = {}
    /\ last["user"] \notin Terminal
    /\ BeginScan("user")
    /\ UNCHANGED <<workVars, queue, mutex, pc, commVars, captureVars, historyVars>>

\* After the loop every queue is cleared, whatever it still holds.
FinalizeClear ==
    /\ pc["user"] = "drain"
    /\ todo = {}
    /\ last["user"] \in Terminal
    /\ queue' = [s \in Streams |-> << >>]
    /\ mutex' = NoOne
    /\ goto("user", "settle")
    /\ UNCHANGED <<workVars, todo, scanning, last, commVars, captureVars, historyVars>>

\* A failed work aborts the communicator and finalize throws; otherwise the
\* resources are released and the communicator is destroyed, unless releasing one
\* of them fails: then finalize throws and leaves the communicator.
FinalizeSettle ==
    /\ pc["user"] = "settle"
    /\ \/ /\ last["user"] \in Failing
          /\ commState' = StateOf(last["user"])
          /\ AbortNcclComm
       \/ /\ last["user"] \notin Failing
          /\ comm' \in {comm, IF comm = "live" THEN "destroyed" ELSE comm}
          /\ UNCHANGED <<commState, process>>
    /\ goto("user", "idle")
    /\ UNCHANGED <<workVars, queueVars, last, initState, shutdown, captureVars,
                   historyVars>>

-----------------------------------------------------------------------------
UserStep ==
    \/ InitComm
    \/ InitFails
    \/ CallOp
    \/ GcLock("user")
    \/ \E s \in Streams : CheckHead("user", s)
    \/ GcUnlock("user")
    \/ StoreCommState("user")
    \/ DecideTimeout
    \/ DecideError
    \/ \E c \in UserStreams, a \in OpModes : OpIssue(c, a)
    \/ OpFails
    \/ Enqueue
    \/ CapturedOp
    \/ \E w \in Works, c \in UserStreams : WorkWait(w, c)
    \/ CaptureBegin
    \/ CaptureEnd
    \/ FinalizeBegin
    \/ FinalizeJoin
    \/ FinalizeRescan
    \/ FinalizeClear
    \/ FinalizeSettle

WatchdogStep ==
    \/ WatchdogWake
    \/ GcLock("watchdog")
    \/ \E s \in Streams : CheckHead("watchdog", s)
    \/ GcUnlock("watchdog")
    \/ StoreCommState("watchdog")
    \/ WatchdogTest

DeviceStep ==
    \E w \in Works : GpuStart(w) \/ GpuFinish(w) \/ DeadlinePasses(w)

Returned == initState = "FINALIZED" /\ pc["user"] = "idle"

\* The program is over: init threw, finalize has returned, or abort() was called.
Terminated ==
    /\ process = "aborted" \/ Returned \/ pc["user"] = "thrown"
    /\ UNCHANGED vars

Next ==
    \/ process = "running" /\ UserStep
    \/ process = "running" /\ WatchdogStep
    \/ process = "running" /\ DeviceStep
    \/ Terminated

\* A thread inside a call goes on, the operating system schedules the watchdog,
\* a stream reaches the next work once what is before it ends, and time passes.
\* Nothing makes a kernel end, a program call another operation, or a capture
\* end.
Fairness ==
    /\ WF_vars(process = "running" /\ pc["user"] # "idle" /\ UserStep)
    /\ WF_vars(process = "running" /\ WatchdogStep)
    /\ \A w \in Works : /\ WF_vars(process = "running" /\ GpuStart(w))
                        /\ WF_vars(process = "running" /\ DeadlinePasses(w))

Spec == Init /\ [][Next]_vars
FairSpec == Spec /\ Fairness

-----------------------------------------------------------------------------
(* Properties.                                                              *)

PcUser == {"idle", "thrown", "check", "gc", "store", "decide", "iserror", "issue",
           "enqueue", "join", "drain", "settle"}
PcWatchdog == {"none", "wait", "check", "gc", "store", "test", "exited"}

\* The variables keep the types the code gives them; a work is queued on the
\* stream it was issued on.
TypeOK ==
    /\ gpu \in [Works -> {"none", "queued", "running", "done", "failed", "captured"}]
    /\ status \in [Works -> Status]
    /\ expired \in [Works -> BOOLEAN]
    /\ place \in [Works -> Streams]
    /\ after \in [Works -> SUBSET Works]
    /\ issued \in 0 .. MaxWork
    /\ streamTail \in [Streams -> SUBSET Works]
    /\ queue \in [Streams -> Seq(Works)]
    /\ mutex \in Threads \cup {NoOne}
    /\ todo \in SUBSET Streams
    /\ scanning \in Streams \cup {NoOne}
    /\ last \in [Threads -> Status]
    /\ pc \in [Threads -> PcUser \cup PcWatchdog]
    /\ commState \in {"NORMAL", "TIMEOUT", "ERROR"}
    /\ initState \in {"UNINITIALIZED", "INITIALIZED", "FINALIZED"}
    /\ comm \in {"none", "live", "aborted", "destroyed"}
    /\ shutdown \in BOOLEAN
    /\ process \in {"running", "aborted"}
    /\ abortProcess \in BOOLEAN
    /\ capturing \in BOOLEAN
    /\ captures \in 0 .. MaxCaptures
    /\ sawFailure \in BOOLEAN
    /\ overwritten \in BOOLEAN

\* A work reported COMPLETED has ended on the GPU, and so has every work issued
\* before it on its stream: what lets wait() return without a dependency and
\* the queue drop the work (garbageCollectLocked pops from the head only).
CompletedInOrder ==
    \A w \in Works : status[w] = "COMPLETED" =>
        /\ gpu[w] = "done"
        /\ \A v \in 1 .. w : place[v] = place[w] /\ gpu[v] # "captured"
                                => status[v] = "COMPLETED"

\* A failed work is never lost: until finalize clears the queues it stays at
\* the head of its stream's queue, so that every later check meets it.
FailureStaysAtHead ==
    ~(pc["user"] = "settle" \/ Returned) =>
        \A w \in Works : status[w] \in Failing =>
            queue[place[w]] # << >> /\ Head(queue[place[w]]) = w

\* An operation called after a work has failed does not reach NCCL: either its
\* own collection or the watchdog's has put the communicator out of NORMAL
\* before checkAndAbortIfTimedOutOrError reads comm_state_.  The one exception:
\* the watchdog replaces ERROR by TIMEOUT between the two reads.
NoIssueAfterFailure ==
    pc["user"] \in {"issue", "enqueue"} /\ sawFailure => overwritten

\* The same without the exception, which is what the unit tests say of an
\* operation that follows a failed one: "calling TorchCommNCCLX method calls
\* commAbort and throws NCCLException".
CallAfterFailureThrows == pc["user"] \in {"issue", "enqueue"} => ~sawFailure

\* Outside a capture NCCL is never handed a communicator that was aborted or
\* destroyed, with the same exception.
IssueNeedsComm == pc["user"] = "issue" /\ comm # "live" => overwritten

\* The communicator is aborted, and the process stopped, only for a work that
\* failed; and comm_state_ names a kind of failure that did happen.
NoSpuriousAbort ==
    /\ comm = "aborted" \/ process = "aborted" => commState # "NORMAL"
    /\ commState # "NORMAL" =>
           \E w \in Works : status[w] \in Failing /\ StateOf(status[w]) = commState

\* "Wait for all pending work objects to complete": when finalize returns
\* normally and the communicator is destroyed, every work has ended.
FinalizeDrains ==
    comm = "destroyed" => \A w \in Works : gpu[w] \in {"none", "captured", "done"}

\* The same while every work is on one stream, as when every operation is asynchronous
\* or every one synchronous on one user stream.
FinalizeDrainsOneStream ==
    (\A v, w \in 1 .. issued : "captured" \notin {gpu[v], gpu[w]} => place[v] = place[w])
        => FinalizeDrains

\* A settled status never changes, and an unsettled one only moves forward.
StatusForward ==
    [][\A w \in Works :
         /\ status[w] \in Terminal => status'[w] = status[w]
         /\ status[w] = "INPROGRESS" => status'[w] # "NOT_STARTED"]_vars

\* With abort_process_on_timeout_or_error set, a failure that reached
\* comm_state_ stops the process, even if the program never calls again.
FailureStopsProcess ==
    abortProcess /\ commState # "NORMAL" ~> process = "aborted"

\* A kernel that hangs is noticed: a running work at the head of its queue ends
\* or puts the communicator out of NORMAL, unless a capture or finalize takes
\* over.
HangDetected ==
    \A w \in Works :
        (gpu[w] = "running" /\ \E s \in Streams : queue[s] # << >> /\ Head(queue[s]) = w)
            ~> (gpu[w] # "running" \/ commState # "NORMAL" \/ capturing \/ shutdown)

\* finalize returns (or the process is aborted), whatever the GPU does with
\* the kernels that have started, when it is not called inside a capture.
FinalizeReturns ==
    (pc["user"] = "join" /\ ~capturing)
        ~> (Returned \/ process = "aborted")

-----------------------------------------------------------------------------
(* What the threads, the queue and the events implement.                    *)

\* The user thread is inside an operation that has not issued its work yet.
InOp == pc["user"] \in {"check", "gc", "store", "decide", "iserror", "issue"}

\* A work in a capture never settles: for the contract it does not exist, so the
\* contract says nothing of operations called while a graph is captured.
OutcomeOf(w) ==
    IF gpu[w] \in {"none", "captured"} THEN "none"
    ELSE IF status[w] = "COMPLETED" THEN "completed"
    ELSE IF status[w] = "ERROR" THEN "errored"
    ELSE IF status[w] = "TIMEDOUT" THEN "timedout" ELSE "pending"

PhaseOf ==
    IF pc["user"] = "thrown" THEN "failed"
    ELSE IF initState = "UNINITIALIZED" THEN "new"
    ELSE IF initState = "INITIALIZED" THEN "open" ELSE "closed"

CallingOf ==
    IF ~InOp THEN "no"
    ELSE IF ~sawFailure THEN "clean"
    ELSE IF overwritten THEN "overlooked" ELSE "tainted"

Contract == INSTANCE CommContract WITH
    phase <- PhaseOf, calling <- CallingOf, outcome <- [w \in Works |-> OutcomeOf(w)],
    lane <- place

\* Two threads that collect from one queue, the state they store after they have
\* released it, and a finalize that stops at the first status it likes keep the
\* contract: works settle in stream order, an operation called after a failure is
\* issued only if a timeout hid the error from it, and finalize does not return
\* normally when a work has failed.
KeepsContract == Contract!Spec

=============================================================================
