------------------------ MODULE TorchCommNCCLXProofs ------------------------
(***************************************************************************)
(* Proofs about the NCCLX communicator, for every set of streams, number   *)
(* of works and option. The last part proves that it keeps its contract:   *)
(* every behaviour of TorchCommNCCLX is, seen through OutcomeOf, PhaseOf   *)
(* and CallingOf, one of CommContract.                                     *)
(***************************************************************************)
EXTENDS TorchCommNCCLX, TLAPS

-----------------------------------------------------------------------------
(* Types.                                                                   *)

\* The type invariant with what it rests on: a collection only visits streams
\* whose queue holds a work, and an operation has a work number left.
TypeInv ==
    /\ TypeOK
    /\ pc["user"] \in PcUser
    /\ pc["watchdog"] \in PcWatchdog
    /\ InOp => issued < MaxWork
    /\ pc["user"] = "enqueue" => issued \in Works
    /\ \A s \in todo : queue[s] # << >>

\* Appending a work to a queue leaves its head and what precedes it.
LEMMA AppendFacts ==
    ASSUME NEW S, NEW q \in Seq(S), NEW x \in S
    PROVE  /\ Append(q, x) \in Seq(S)
           /\ Append(q, x) # << >>
           /\ Len(Append(q, x)) = Len(q) + 1
           /\ Append(q, x)[Len(q) + 1] = x
           /\ \A i \in 1 .. Len(q) : Append(q, x)[i] = q[i]
  OBVIOUS

LEMMA AppendHead ==
    ASSUME NEW S, NEW q \in Seq(S), q # << >>, NEW x \in S
    PROVE  Append(q, x) # << >> /\ Head(Append(q, x)) = Head(q)
  OBVIOUS

\* What is left when the head of a queue is popped.
LEMMA TailFacts ==
    ASSUME NEW S, NEW q \in Seq(S), q # << >>
    PROVE  /\ Tail(q) \in Seq(S)
           /\ Head(q) = q[1]
           /\ Head(q) \in S
           /\ Len(q) \in Nat \ {0}
           /\ Len(Tail(q)) = Len(q) - 1
           /\ \A i \in 1 .. Len(q) - 1 : Tail(q)[i] = q[i + 1]
  OBVIOUS

LEMMA InitTypeInv == Init => TypeInv
  <1> SUFFICES ASSUME Init PROVE TypeInv
    OBVIOUS
  <1> USE ConstantsAssumption DEF Init
  <1>1. /\ gpu \in [Works -> {"none", "queued", "running", "done", "failed", "captured"}]
        /\ status \in [Works -> Status]
        /\ expired \in [Works -> BOOLEAN]
        /\ place \in [Works -> Streams]
        /\ after \in [Works -> SUBSET Works]
        /\ issued \in 0 .. MaxWork
    BY DEF Status, Streams
  <1>2. /\ streamTail \in [Streams -> SUBSET Works]
        /\ queue \in [Streams -> Seq(Works)]
        /\ todo \in SUBSET Streams
    OBVIOUS
  <1>3. /\ last \in [Threads -> Status]
        /\ pc \in [Threads -> PcUser \cup PcWatchdog]
        /\ pc["user"] = "idle"
        /\ pc["watchdog"] = "none"
    BY DEF Threads, Status, PcUser, PcWatchdog
  <1>4. /\ mutex \in Threads \cup {NoOne}
        /\ scanning \in Streams \cup {NoOne}
        /\ commState \in {"NORMAL", "TIMEOUT", "ERROR"}
        /\ initState \in {"UNINITIALIZED", "INITIALIZED", "FINALIZED"}
        /\ comm \in {"none", "live", "aborted", "destroyed"}
        /\ process \in {"running", "aborted"}
        /\ captures \in 0 .. MaxCaptures
    OBVIOUS
  <1>5. shutdown \in BOOLEAN /\ capturing \in BOOLEAN /\ sawFailure \in BOOLEAN
        /\ overwritten \in BOOLEAN
    OBVIOUS
  <1>6. TypeOK
    BY <1>1, <1>2, <1>3, <1>4, <1>5, Zenon DEF TypeOK
  <1> QED
    BY <1>3, <1>6 DEF TypeInv, PcUser, PcWatchdog, InOp

\* checkStatus returns a status of a work.
LEMMA CheckStatusType ==
    ASSUME TypeInv, NEW w \in Works, NEW st \in CheckStatus(w)
    PROVE  st \in Status
  BY DEF CheckStatus, Observed, Status, Terminal, Failing, TypeInv, TypeOK

LEMMA NextTypeInv == TypeInv /\ [Next]_vars => TypeInv'
  <1> SUFFICES ASSUME TypeInv, [Next]_vars PROVE TypeInv'
    OBVIOUS
  <1> USE ConstantsAssumption
      DEF TypeInv, TypeOK, InOp, goto, OpOver, Threads, PcUser, PcWatchdog, workVars,
          queueVars, commVars, captureVars, historyVars
  <1>1. CASE UNCHANGED vars
    BY <1>1 DEF vars
  <1>2. ASSUME NEW w \in Works, GpuStart(w)
        PROVE  TypeInv'
    BY <1>2 DEF GpuStart
  <1>3. ASSUME NEW w \in Works, GpuFinish(w)
        PROVE  TypeInv'
    <2>1. \E g \in {"done", "failed"} : gpu' = [gpu EXCEPT ![w] = g]
      BY <1>3 DEF GpuFinish
    <2> QED
      BY <1>3, <2>1 DEF GpuFinish
  <1>4. ASSUME NEW w \in Works, DeadlinePasses(w)
        PROVE  TypeInv'
    BY <1>4 DEF DeadlinePasses
  <1>5. ASSUME NEW t \in Threads, NEW s \in Streams, CheckHead(t, s)
        PROVE  TypeInv'
    BY <1>5, CheckStatusType DEF CheckHead, Pops, StopsScan
  <1>6. ASSUME NEW t \in Threads, GcLock(t)
        PROVE  TypeInv'
    BY <1>6 DEF GcLock, BeginScan, NonEmpty, Status
  <1>7. ASSUME NEW t \in Threads, GcUnlock(t)
        PROVE  TypeInv'
    BY <1>7 DEF GcUnlock
  <1>8. ASSUME NEW t \in Threads, StoreCommState(t)
        PROVE  TypeInv'
    <2>1. /\ commState' \in {"NORMAL", "TIMEOUT", "ERROR"}
          /\ last' \in [Threads -> Status]
          /\ overwritten' \in BOOLEAN
      BY <1>8 DEF StoreCommState, StateOf, Status, NoteOverwrite
    <2> QED
      BY <1>8, <2>1 DEF StoreCommState
  <1>9. CASE WatchdogWake
    BY <1>9 DEF WatchdogWake
  <1>10. CASE WatchdogTest
    BY <1>10 DEF WatchdogTest
  <1>11. CASE InitComm \/ InitFails
    BY <1>11 DEF InitComm, InitFails
  <1>12. CASE CallOp
    <2>1. sawFailure' \in BOOLEAN /\ overwritten' \in BOOLEAN
      BY <1>12 DEF CallOp
    <2> QED
      BY <1>12, <2>1 DEF CallOp
  <1>13. CASE DecideTimeout \/ DecideError
    <2>1. sawFailure' \in BOOLEAN /\ overwritten' \in BOOLEAN
      BY <1>13 DEF DecideTimeout, DecideError
    <2> QED
      BY <1>13, <2>1 DEF DecideTimeout, DecideError, AbortNcclComm
  <1>14. ASSUME NEW c \in UserStreams, NEW a \in OpModes, OpIssue(c, a)
        PROVE  TypeInv'
    <2>1. WaitsFor(c, a) \in SUBSET Works /\ OperationStream(c, a) \in Streams
      BY DEF WaitsFor, OperationStream, Streams
    <2>2. issued + 1 \in Works
      BY <1>14 DEF OpIssue, Works
    <2>3. /\ gpu' \in [Works -> {"none", "queued", "running", "done", "failed", "captured"}]
          /\ place' \in [Works -> Streams] /\ after' \in [Works -> SUBSET Works]
          /\ streamTail' \in [Streams -> SUBSET Works]
      BY <1>14, <2>1, <2>2 DEF OpIssue
    <2>4. issued' \in 0 .. MaxWork /\ issued' \in Works
      BY <1>14, <2>2 DEF OpIssue, Works
    <2>5. pc' = [pc EXCEPT !["user"] = "enqueue"]
      BY <1>14 DEF OpIssue
    <2> QED
      BY <1>14, <2>3, <2>4, <2>5 DEF OpIssue
  <1>15. CASE OpFails
    <2>1. sawFailure' \in BOOLEAN /\ overwritten' \in BOOLEAN
      BY <1>15 DEF OpFails
    <2> QED
      BY <1>15, <2>1 DEF OpFails
  <1>16. CASE Enqueue
    <2> DEFINE q == Append(queue[place[issued]], issued)
    <2>1. issued \in Works /\ place[issued] \in Streams /\ queue[place[issued]] \in Seq(Works)
      BY <1>16 DEF Enqueue
    <2>2. q \in Seq(Works) /\ q # << >>
      BY <2>1, AppendFacts
    <2>3. /\ queue' = [queue EXCEPT ![place[issued]] = q]
          /\ pc' = [pc EXCEPT !["user"] = "idle"]
          /\ sawFailure' = FALSE /\ overwritten' = FALSE
          /\ UNCHANGED <<workVars, mutex, todo, scanning, last, commVars, captureVars>>
      BY <1>16 DEF Enqueue
    <2> HIDE DEF q
    <2>4. queue' \in [Streams -> Seq(Works)]
      BY <2>1, <2>2, <2>3
    <2>5. \A s \in todo' : queue'[s] # << >>
      BY <2>1, <2>2, <2>3
    <2>6. pc' \in [Threads -> PcUser \cup PcWatchdog] /\ sawFailure' \in BOOLEAN /\ overwritten' \in BOOLEAN
      BY <2>3
    <2> QED
      BY <2>3, <2>4, <2>5, <2>6
  <1>17. CASE CapturedOp
    BY <1>17 DEF CapturedOp, Works
  <1>18. ASSUME NEW w \in Works, NEW c \in UserStreams, WorkWait(w, c)
        PROVE  TypeInv'
    BY <1>18 DEF WorkWait, Streams
  <1>19. CASE CaptureBegin
    BY <1>19 DEF CaptureBegin
  <1>20. CASE CaptureEnd
    <2>1. capturing' \in BOOLEAN
      BY <1>20 DEF CaptureEnd
    <2> QED
      BY <1>20, <2>1 DEF CaptureEnd
  <1>21. CASE FinalizeBegin
    BY <1>21 DEF FinalizeBegin
  <1>22. CASE FinalizeJoin
    BY <1>22 DEF FinalizeJoin, BeginScan, NonEmpty, Status
  <1>23. CASE FinalizeRescan
    BY <1>23 DEF FinalizeRescan, BeginScan, NonEmpty, Status
  <1>24. CASE FinalizeClear
    BY <1>24 DEF FinalizeClear
  <1>25. CASE FinalizeSettle
    BY <1>25 DEF FinalizeSettle, StateOf, AbortNcclComm
  <1> QED
    BY <1>1, <1>2, <1>3, <1>4, <1>5, <1>6, <1>7, <1>8, <1>9, <1>10, <1>11, <1>12, <1>13, <1>14, <1>15, <1>16, <1>17, <1>18, <1>19, <1>20, <1>21, <1>22, <1>23, <1>24, <1>25
    DEF Next, UserStep, WatchdogStep, DeviceStep, Terminated

\* The types of TypeOK hold in every state of the communicator, whatever the
\* streams, the number of works and the options.
THEOREM TypeCorrect == Spec => []TypeOK
  BY InitTypeInv, NextTypeInv, PTL DEF Spec, TypeInv

-----------------------------------------------------------------------------
(* The inductive invariant behind the safety properties.                    *)

\* finalize has emptied the queues.
Cleared == pc["user"] = "settle" \/ Returned

\* The mutex is held exactly by the thread that is collecting, a collection
\* that met a failure is over, and the program counters agree with init_state_.
ControlInv ==
    /\ mutex = "user" <=> pc["user"] \in {"gc", "drain"}
    /\ mutex = "watchdog" <=> pc["watchdog"] = "gc"
    /\ mutex = NoOne => todo = {}
    /\ \A t \in Threads : mutex = t /\ last[t] \in Failing => todo = {}
    /\ initState = "UNINITIALIZED" => pc["watchdog"] = "none"
    /\ InOp \/ pc["user"] = "enqueue" => initState = "INITIALIZED"
    /\ pc["user"] \in {"join", "drain", "settle"} => initState = "FINALIZED"

\* A queued work was issued, on the stream of the queue, and is not the one an
\* operation is still about to enqueue.
QueueInv ==
    \A s \in Streams : \A i \in 1 .. Len(queue[s]) :
        /\ queue[s][i] <= issued
        /\ pc["user"] = "enqueue" => queue[s][i] < issued
        /\ place[queue[s][i]] = s

\* How the failure that an operation found at its call is carried to its
\* decision: a stream still to be scanned, the status returned, comm_state_.
CarryInv ==
    sawFailure =>
        /\ pc["user"] = "check" => \E w \in Works : status[w] \in Failing
        /\ pc["user"] = "gc" =>
               \/ last["user"] \in Failing
               \/ \E w \in Works : status[w] \in Failing /\ place[w] \in todo
        /\ pc["user"] = "store" => last["user"] \in Failing
        /\ pc["user"] = "decide" => commState # "NORMAL"
        /\ pc["user"] = "iserror" => commState = "ERROR" \/ overwritten
        /\ pc["user"] \in {"issue", "enqueue"} => overwritten

\* The communicator's state never runs ahead of the works' statuses, the
\* communicator is null only for a reason, and an operation that finds it aborted
\* was called after a failure.
CommInv ==
    /\ \A t \in Threads : last[t] \in Failing =>
           \E w \in Works : status[w] = last[t]
    /\ initState = "INITIALIZED" /\ pc["user"] # "thrown" => comm \in {"live", "aborted"}
    /\ InOp /\ comm = "aborted" => sawFailure

SafetyInv ==
    /\ TypeInv
    /\ ControlInv
    /\ QueueInv
    /\ FailureStaysAtHead
    /\ CarryInv
    /\ CommInv
    /\ NoSpuriousAbort

\* The head of a queue is an issued work of that stream.
LEMMA HeadFacts ==
    ASSUME TypeInv, QueueInv, NEW s \in Streams, queue[s] # << >>
    PROVE  /\ Head(queue[s]) \in Works
           /\ Head(queue[s]) <= issued
           /\ place[Head(queue[s])] = s
  <1>1. queue[s] \in Seq(Works)
    BY DEF TypeInv, TypeOK
  <1>2. Head(queue[s]) = queue[s][1] /\ Head(queue[s]) \in Works /\ Len(queue[s]) \in Nat \ {0}
    BY <1>1, TailFacts
  <1>3. 1 \in 1 .. Len(queue[s])
    BY <1>2
  <1> QED
    BY <1>2, <1>3 DEF QueueInv

\* A settled work keeps its status when a collection meets it.
LEMMA SettledStays ==
    ASSUME TypeInv, NEW t \in Threads, NEW s \in Streams, CheckHead(t, s),
           NEW v \in Works, status[v] \in Terminal
    PROVE  status'[v] = status[v]
  BY DEF CheckHead, CheckStatus, TypeInv, TypeOK

\* The threads exclude each other.
LEMMA ControlStep ==
    ASSUME TypeInv, ControlInv, [Next]_vars
    PROVE  ControlInv'
  <1> USE ConstantsAssumption
      DEF TypeInv, TypeOK, ControlInv, InOp, goto, OpOver, Threads,
          workVars, queueVars, commVars, captureVars, historyVars
  <1>1. CASE UNCHANGED vars
    BY <1>1 DEF vars
  <1>2. ASSUME NEW w \in Works, GpuStart(w)
        PROVE  ControlInv'
    BY <1>2 DEF GpuStart
  <1>3. ASSUME NEW w \in Works, GpuFinish(w)
        PROVE  ControlInv'
    BY <1>3 DEF GpuFinish
  <1>4. ASSUME NEW w \in Works, DeadlinePasses(w)
        PROVE  ControlInv'
    BY <1>4 DEF DeadlinePasses
  <1>5. ASSUME NEW t \in Threads, NEW s \in Streams, CheckHead(t, s)
        PROVE  ControlInv'
    BY <1>5, CheckStatusType DEF CheckHead, StopsScan, Pops
  <1>6. ASSUME NEW t \in Threads, GcLock(t)
        PROVE  ControlInv'
    BY <1>6 DEF GcLock, BeginScan, Failing
  <1>7. ASSUME NEW t \in Threads, GcUnlock(t)
        PROVE  ControlInv'
    BY <1>7 DEF GcUnlock
  <1>8. ASSUME NEW t \in Threads, StoreCommState(t)
        PROVE  ControlInv'
    BY <1>8 DEF StoreCommState, Failing
  <1>9. CASE WatchdogWake
    BY <1>9 DEF WatchdogWake
  <1>10. CASE WatchdogTest
    BY <1>10 DEF WatchdogTest
  <1>11. CASE InitComm \/ InitFails
    BY <1>11 DEF InitComm, InitFails
  <1>12. CASE CallOp
    BY <1>12 DEF CallOp
  <1>13. CASE DecideTimeout \/ DecideError
    BY <1>13 DEF DecideTimeout, DecideError, AbortNcclComm
  <1>14. ASSUME NEW c \in UserStreams, NEW a \in OpModes, OpIssue(c, a)
        PROVE  ControlInv'
    BY <1>14 DEF OpIssue, OperationStream
  <1>15. CASE OpFails
    BY <1>15 DEF OpFails
  <1>16. CASE Enqueue
    BY <1>16 DEF Enqueue
  <1>17. CASE CapturedOp
    BY <1>17 DEF CapturedOp
  <1>18. ASSUME NEW w \in Works, NEW c \in UserStreams, WorkWait(w, c)
        PROVE  ControlInv'
    BY <1>18 DEF WorkWait
  <1>19. CASE CaptureBegin
    BY <1>19 DEF CaptureBegin
  <1>20. CASE CaptureEnd
    BY <1>20 DEF CaptureEnd
  <1>21. CASE FinalizeBegin
    BY <1>21 DEF FinalizeBegin
  <1>22. CASE FinalizeJoin
    BY <1>22 DEF FinalizeJoin, BeginScan, Failing
  <1>23. CASE FinalizeRescan
    BY <1>23 DEF FinalizeRescan, BeginScan, Failing
  <1>24. CASE FinalizeClear
    BY <1>24 DEF FinalizeClear
  <1>25. CASE FinalizeSettle
    BY <1>25 DEF FinalizeSettle, AbortNcclComm
  <1> QED
    BY <1>1, <1>2, <1>3, <1>4, <1>5, <1>6, <1>7, <1>8, <1>9,
       <1>10, <1>11, <1>12, <1>13, <1>14, <1>15, <1>16, <1>17, <1>18,
       <1>19, <1>20, <1>21, <1>22, <1>23, <1>24, <1>25
    DEF Next, UserStep, WatchdogStep, DeviceStep, Terminated, Threads

\* The queues hold issued works, each on its own stream.
LEMMA QueueStep ==
    ASSUME TypeInv, ControlInv, QueueInv, [Next]_vars
    PROVE  QueueInv'
  <1> USE ConstantsAssumption
      DEF TypeInv, TypeOK, QueueInv, InOp, goto, OpOver, Threads, Works,
          workVars, queueVars, commVars, captureVars, historyVars
  <1>1. CASE UNCHANGED vars
    BY <1>1 DEF vars
  <1>2. ASSUME NEW w \in Works, GpuStart(w)
        PROVE  QueueInv'
    BY <1>2 DEF GpuStart
  <1>3. ASSUME NEW w \in Works, GpuFinish(w)
        PROVE  QueueInv'
    BY <1>3 DEF GpuFinish
  <1>4. ASSUME NEW w \in Works, DeadlinePasses(w)
        PROVE  QueueInv'
    BY <1>4 DEF DeadlinePasses
  <1>5. ASSUME NEW t \in Threads, NEW s \in Streams, CheckHead(t, s)
        PROVE  QueueInv'
    BY <1>5 DEF CheckHead
  <1>6. ASSUME NEW t \in Threads, GcLock(t)
        PROVE  QueueInv'
    BY <1>6 DEF GcLock, BeginScan
  <1>7. ASSUME NEW t \in Threads, GcUnlock(t)
        PROVE  QueueInv'
    BY <1>7 DEF GcUnlock
  <1>8. ASSUME NEW t \in Threads, StoreCommState(t)
        PROVE  QueueInv'
    BY <1>8 DEF StoreCommState
  <1>9. CASE WatchdogWake
    BY <1>9 DEF WatchdogWake
  <1>10. CASE WatchdogTest
    BY <1>10 DEF WatchdogTest
  <1>11. CASE InitComm \/ InitFails
    <2>1. UNCHANGED <<queue, place, issued>>
      BY <1>11 DEF InitComm, InitFails
    <2>2. pc["user"] # "enqueue" /\ pc'["user"] # "enqueue"
      BY <1>11 DEF InitComm, InitFails
    <2> QED
      BY <2>1, <2>2
  <1>12. CASE CallOp
    BY <1>12 DEF CallOp
  <1>13. CASE DecideTimeout \/ DecideError
    <2>1. UNCHANGED <<queue, place, issued>>
      BY <1>13 DEF DecideTimeout, DecideError
    <2>2. pc["user"] # "enqueue" /\ pc'["user"] # "enqueue"
      BY <1>13 DEF DecideTimeout, DecideError
    <2> QED
      BY <2>1, <2>2
  <1>14. ASSUME NEW c \in UserStreams, NEW a \in OpModes, OpIssue(c, a)
        PROVE  QueueInv'
    BY <1>14 DEF OpIssue, OperationStream
  <1>15. CASE OpFails
    BY <1>15 DEF OpFails
  <1>16. CASE Enqueue
    <2> DEFINE r == place[issued]
               q == Append(queue[r], issued)
    <2>1. issued \in Works /\ r \in Streams /\ queue[r] \in Seq(Works)
      BY <1>16 DEF Enqueue
    <2>2. /\ Len(q) = Len(queue[r]) + 1 /\ q[Len(queue[r]) + 1] = issued
          /\ \A i \in 1 .. Len(queue[r]) : q[i] = queue[r][i]
          /\ Len(queue[r]) \in Nat
      BY <2>1, AppendFacts
    <2>3. /\ queue' = [queue EXCEPT ![r] = q]
          /\ pc' = [pc EXCEPT !["user"] = "idle"]
          /\ UNCHANGED <<issued, place, status>>
      BY <1>16 DEF Enqueue
    <2> HIDE DEF q
    <2> SUFFICES ASSUME NEW s \in Streams, NEW i \in 1 .. Len(queue'[s])
                 PROVE  queue'[s][i] <= issued /\ place[queue'[s][i]] = s
      BY <2>3
    <2>4. CASE s # r
      BY <2>1, <2>3, <2>4
    <2>5. CASE s = r /\ i = Len(queue[r]) + 1
      BY <2>1, <2>2, <2>3, <2>5
    <2>6. CASE s = r /\ i # Len(queue[r]) + 1
      <3>1. queue'[s] = q
        BY <2>1, <2>3, <2>6
      <3>2. i \in 1 .. Len(queue[r])
        BY <2>2, <2>6, <3>1
      <3>3. queue'[s][i] = queue[r][i]
        BY <2>2, <3>1, <3>2
      <3> QED
        BY <2>1, <2>6, <3>2, <3>3
    <2> QED
      BY <2>4, <2>5, <2>6
  <1>17. CASE CapturedOp
    BY <1>17 DEF CapturedOp
  <1>18. ASSUME NEW w \in Works, NEW c \in UserStreams, WorkWait(w, c)
        PROVE  QueueInv'
    BY <1>18 DEF WorkWait
  <1>19. CASE CaptureBegin
    BY <1>19 DEF CaptureBegin
  <1>20. CASE CaptureEnd
    BY <1>20 DEF CaptureEnd
  <1>21. CASE FinalizeBegin
    BY <1>21 DEF FinalizeBegin
  <1>22. CASE FinalizeJoin
    BY <1>22 DEF FinalizeJoin, BeginScan
  <1>23. CASE FinalizeRescan
    BY <1>23 DEF FinalizeRescan, BeginScan
  <1>24. CASE FinalizeClear
    BY <1>24 DEF FinalizeClear
  <1>25. CASE FinalizeSettle
    BY <1>25 DEF FinalizeSettle, AbortNcclComm
  <1> QED
    BY <1>1, <1>2, <1>3, <1>4, <1>5, <1>6, <1>7, <1>8, <1>9,
       <1>10, <1>11, <1>12, <1>13, <1>14, <1>15, <1>16, <1>17, <1>18,
       <1>19, <1>20, <1>21, <1>22, <1>23, <1>24, <1>25
    DEF Next, UserStep, WatchdogStep, DeviceStep, Terminated, Threads

\* A failed work keeps its place at the head of its queue: checkStatus returns a
\* failed status unchanged, so the collection never pops it.
LEMMA FailureStep ==
    ASSUME TypeInv, ControlInv, QueueInv, FailureStaysAtHead, [Next]_vars
    PROVE  FailureStaysAtHead'
  <1> USE ConstantsAssumption
      DEF TypeInv, TypeOK, FailureStaysAtHead, ControlInv, Returned, InOp, goto, OpOver,
          Threads, Works, workVars, queueVars, commVars, captureVars, historyVars
  <1>1. CASE UNCHANGED vars
    BY <1>1 DEF vars
  <1>2. ASSUME NEW w \in Works, GpuStart(w)
        PROVE  FailureStaysAtHead'
    BY <1>2 DEF GpuStart
  <1>3. ASSUME NEW w \in Works, GpuFinish(w)
        PROVE  FailureStaysAtHead'
    BY <1>3 DEF GpuFinish
  <1>4. ASSUME NEW w \in Works, DeadlinePasses(w)
        PROVE  FailureStaysAtHead'
    BY <1>4 DEF DeadlinePasses
  <1>5. ASSUME NEW t \in Threads, NEW s \in Streams, CheckHead(t, s)
        PROVE  FailureStaysAtHead'
    <2> DEFINE w == Head(queue[s])
    <2>1. queue[s] # << >> /\ w \in Works /\ place[w] = s
      BY <1>5, HeadFacts DEF CheckHead
    <2>2. PICK st \in CheckStatus(w) :
            /\ status' = [status EXCEPT ![w] = st]
            /\ queue' = [queue EXCEPT ![s] = IF Pops(st) THEN Tail(queue[s])
                                                        ELSE queue[s]]
      BY <1>5 DEF CheckHead
    <2>3. UNCHANGED <<place, pc, initState>>
      BY <1>5 DEF CheckHead
    <2> HIDE DEF w
    <2> SUFFICES ASSUME ~(pc["user"] = "settle" \/ Returned),
                        NEW v \in Works, status'[v] \in Failing
                 PROVE  queue'[place[v]] # << >> /\ Head(queue'[place[v]]) = v
      BY <2>3
    <2>4. CASE v = w
      <3>1. st \in Failing /\ ~Pops(st)
        BY <2>1, <2>2, <2>4 DEF Failing, Pops
      <3> QED
        BY <2>1, <2>2, <2>4, <3>1 DEF w
    <2>5. CASE v # w
      <3>1. status[v] \in Failing
        BY <2>1, <2>2, <2>5
      <3>2. queue[place[v]] # << >> /\ Head(queue[place[v]]) = v
        BY <3>1
      <3>3. place[v] # s
        BY <2>5, <3>2 DEF w
      <3> QED
        BY <2>2, <3>2, <3>3
    <2> QED
      BY <2>4, <2>5
  <1>6. ASSUME NEW t \in Threads, GcLock(t)
        PROVE  FailureStaysAtHead'
    BY <1>6 DEF GcLock, BeginScan
  <1>7. ASSUME NEW t \in Threads, GcUnlock(t)
        PROVE  FailureStaysAtHead'
    BY <1>7 DEF GcUnlock
  <1>8. ASSUME NEW t \in Threads, StoreCommState(t)
        PROVE  FailureStaysAtHead'
    BY <1>8 DEF StoreCommState
  <1>9. CASE WatchdogWake
    BY <1>9 DEF WatchdogWake
  <1>10. CASE WatchdogTest
    BY <1>10 DEF WatchdogTest
  <1>11. CASE InitComm \/ InitFails
    BY <1>11 DEF InitComm, InitFails
  <1>12. CASE CallOp
    BY <1>12 DEF CallOp
  <1>13. CASE DecideTimeout \/ DecideError
    BY <1>13 DEF DecideTimeout, DecideError, AbortNcclComm
  <1>14. ASSUME NEW c \in UserStreams, NEW a \in OpModes, OpIssue(c, a)
        PROVE  FailureStaysAtHead'
    <2> SUFFICES ASSUME NEW v \in Works, status[v] \in Failing
                 PROVE  v # issued + 1
      BY <1>14 DEF OpIssue
    <2>1. queue[place[v]] # << >> /\ Head(queue[place[v]]) = v
      BY <1>14 DEF OpIssue
    <2> QED
      BY <2>1, HeadFacts
  <1>15. CASE OpFails
    BY <1>15 DEF OpFails
  <1>16. CASE Enqueue
    <2> DEFINE r == place[issued]
               q == Append(queue[r], issued)
    <2>1. issued \in Works /\ r \in Streams /\ queue[r] \in Seq(Works)
      BY <1>16 DEF Enqueue
    <2>2. /\ Len(q) = Len(queue[r]) + 1 /\ q[Len(queue[r]) + 1] = issued
          /\ \A i \in 1 .. Len(queue[r]) : q[i] = queue[r][i]
          /\ Len(queue[r]) \in Nat
      BY <2>1, AppendFacts
    <2>7. queue[r] # << >> => q # << >> /\ Head(q) = Head(queue[r])
      BY <2>1, AppendHead
    <2>3. /\ queue' = [queue EXCEPT ![r] = q]
          /\ pc' = [pc EXCEPT !["user"] = "idle"]
          /\ UNCHANGED <<issued, place, status>>
      BY <1>16 DEF Enqueue
    <2> HIDE DEF q
    <2> SUFFICES ASSUME NEW v \in Works, status[v] \in Failing
                 PROVE  queue'[place[v]] # << >> /\ Head(queue'[place[v]]) = v
      BY <2>3
    <2>4. queue[place[v]] # << >> /\ Head(queue[place[v]]) = v
      BY <1>16 DEF Enqueue
    <2>5. CASE place[v] # r
      BY <2>3, <2>4, <2>5
    <2>6. CASE place[v] = r
      <3>1. q # << >> /\ Head(q) = Head(queue[r])
        BY <2>4, <2>6, <2>7
      <3> QED
        BY <2>1, <2>3, <2>4, <2>6, <3>1
    <2> QED
      BY <2>5, <2>6
  <1>17. CASE CapturedOp
    BY <1>17 DEF CapturedOp
  <1>18. ASSUME NEW w \in Works, NEW c \in UserStreams, WorkWait(w, c)
        PROVE  FailureStaysAtHead'
    BY <1>18 DEF WorkWait
  <1>19. CASE CaptureBegin
    BY <1>19 DEF CaptureBegin
  <1>20. CASE CaptureEnd
    BY <1>20 DEF CaptureEnd
  <1>21. CASE FinalizeBegin
    BY <1>21 DEF FinalizeBegin
  <1>22. CASE FinalizeJoin
    BY <1>22 DEF FinalizeJoin, BeginScan
  <1>23. CASE FinalizeRescan
    BY <1>23 DEF FinalizeRescan, BeginScan
  <1>24. CASE FinalizeClear
    BY <1>24 DEF FinalizeClear
  <1>25. CASE FinalizeSettle
    BY <1>25 DEF FinalizeSettle, AbortNcclComm
  <1> QED
    BY <1>1, <1>2, <1>3, <1>4, <1>5, <1>6, <1>7, <1>8, <1>9,
       <1>10, <1>11, <1>12, <1>13, <1>14, <1>15, <1>16, <1>17, <1>18,
       <1>19, <1>20, <1>21, <1>22, <1>23, <1>24, <1>25
    DEF Next, UserStep, WatchdogStep, DeviceStep, Terminated, Threads

\* A failure found at the call reaches the decision.
LEMMA CarryStep ==
    ASSUME TypeInv, ControlInv, QueueInv, FailureStaysAtHead, CarryInv, [Next]_vars
    PROVE  CarryInv'
  <1> USE ConstantsAssumption
      DEF TypeInv, TypeOK, FailureStaysAtHead, ControlInv, CarryInv, Returned, InOp,
          goto, OpOver, Threads, workVars, queueVars, commVars, captureVars, historyVars
  <1>1. CASE UNCHANGED vars
    BY <1>1 DEF vars
  <1>2. ASSUME NEW w \in Works, GpuStart(w)
        PROVE  CarryInv'
    BY <1>2 DEF GpuStart
  <1>3. ASSUME NEW w \in Works, GpuFinish(w)
        PROVE  CarryInv'
    BY <1>3 DEF GpuFinish
  <1>4. ASSUME NEW w \in Works, DeadlinePasses(w)
        PROVE  CarryInv'
    BY <1>4 DEF DeadlinePasses
  <1>5. ASSUME NEW t \in Threads, NEW s \in Streams, CheckHead(t, s)
        PROVE  CarryInv'
    <2> SUFFICES ASSUME sawFailure PROVE CarryInv'
      BY <1>5 DEF CheckHead
    <2> DEFINE h == Head(queue[s])
    <2>1. UNCHANGED <<pc, place, commState, sawFailure, overwritten>>
      BY <1>5 DEF CheckHead
    <2>2. \A v \in Works : status[v] \in Failing => status'[v] = status[v]
      BY <1>5, SettledStays DEF Terminal
    <2>3. pc["user"] = "check" => \E v \in Works : status'[v] \in Failing
      BY <2>2
    <2>4. ASSUME pc["user"] = "gc"
          PROVE  \/ last'["user"] \in Failing
                 \/ \E v \in Works : status'[v] \in Failing /\ place[v] \in todo'
      <3>1. t = "user" /\ mutex = "user"
        BY <1>5, <2>4 DEF CheckHead
      <3>2. PICK v \in Works : status[v] \in Failing /\ place[v] \in todo
        BY <1>5, <2>4, <3>1 DEF CheckHead
      <3>3. h \in Works /\ place[h] = s
        BY <1>5, HeadFacts DEF CheckHead
      <3>4. PICK st \in CheckStatus(h) :
              /\ status' = [status EXCEPT ![h] = st]
              /\ last' = [last EXCEPT !["user"] = st]
              /\ st \in Failing \/ todo' = todo \/ todo' = todo \ {s}
        BY <1>5, <3>1 DEF CheckHead, StopsScan
      <3>5. CASE place[v] = s
        <4>1. v = h
          BY <1>5, <2>4, <3>2, <3>5
        <4>2. st \in Failing
          BY <3>2, <3>3, <3>4, <4>1, <2>2
        <4> QED
          BY <3>4, <4>2
      <3>6. CASE place[v] # s
        BY <2>2, <3>2, <3>4, <3>6
      <3> QED
        BY <3>5, <3>6
    <2>5. pc["user"] \in {"store", "decide"} => last'["user"] = last["user"]
      BY <1>5 DEF CheckHead
    <2> QED
      BY <2>1, <2>3, <2>4, <2>5
  <1>6. ASSUME NEW t \in Threads, GcLock(t)
        PROVE  CarryInv'
    BY <1>6 DEF GcLock, BeginScan, NonEmpty
  <1>7. ASSUME NEW t \in Threads, GcUnlock(t)
        PROVE  CarryInv'
    BY <1>7 DEF GcUnlock
  <1>8. ASSUME NEW t \in Threads, StoreCommState(t)
        PROVE  CarryInv'
    BY <1>8 DEF StoreCommState, StateOf, NoteOverwrite
  <1>9. CASE WatchdogWake
    BY <1>9 DEF WatchdogWake
  <1>10. CASE WatchdogTest
    BY <1>10 DEF WatchdogTest
  <1>11. CASE InitComm \/ InitFails
    BY <1>11 DEF InitComm, InitFails
  <1>12. CASE CallOp
    BY <1>12 DEF CallOp
  <1>13. CASE DecideTimeout \/ DecideError
    BY <1>13 DEF DecideTimeout, DecideError, AbortNcclComm
  <1>14. ASSUME NEW c \in UserStreams, NEW a \in OpModes, OpIssue(c, a)
        PROVE  CarryInv'
    BY <1>14 DEF OpIssue, OperationStream
  <1>15. CASE OpFails
    BY <1>15 DEF OpFails
  <1>16. CASE Enqueue
    BY <1>16 DEF Enqueue
  <1>17. CASE CapturedOp
    BY <1>17 DEF CapturedOp
  <1>18. ASSUME NEW w \in Works, NEW c \in UserStreams, WorkWait(w, c)
        PROVE  CarryInv'
    BY <1>18 DEF WorkWait
  <1>19. CASE CaptureBegin
    BY <1>19 DEF CaptureBegin
  <1>20. CASE CaptureEnd
    BY <1>20 DEF CaptureEnd
  <1>21. CASE FinalizeBegin
    BY <1>21 DEF FinalizeBegin
  <1>22. CASE FinalizeJoin
    BY <1>22 DEF FinalizeJoin, BeginScan
  <1>23. CASE FinalizeRescan
    BY <1>23 DEF FinalizeRescan, BeginScan
  <1>24. CASE FinalizeClear
    BY <1>24 DEF FinalizeClear
  <1>25. CASE FinalizeSettle
    BY <1>25 DEF FinalizeSettle, AbortNcclComm
  <1> QED
    BY <1>1, <1>2, <1>3, <1>4, <1>5, <1>6, <1>7, <1>8, <1>9,
       <1>10, <1>11, <1>12, <1>13, <1>14, <1>15, <1>16, <1>17, <1>18,
       <1>19, <1>20, <1>21, <1>22, <1>23, <1>24, <1>25
    DEF Next, UserStep, WatchdogStep, DeviceStep, Terminated, Threads

\* The communicator's state follows the works' statuses.
LEMMA CommStep ==
    ASSUME TypeInv, ControlInv, CommInv, NoSpuriousAbort, [Next]_vars
    PROVE  (CommInv /\ NoSpuriousAbort)'
  <1> USE ConstantsAssumption
      DEF TypeInv, TypeOK, ControlInv, CommInv, NoSpuriousAbort, InOp, goto, OpOver, Threads,
          StateOf, Failing, workVars, queueVars, commVars, captureVars, historyVars
  <1>1. CASE UNCHANGED vars
    BY <1>1 DEF vars
  <1>2. ASSUME NEW w \in Works, GpuStart(w)
        PROVE  (CommInv /\ NoSpuriousAbort)'
    BY <1>2 DEF GpuStart
  <1>3. ASSUME NEW w \in Works, GpuFinish(w)
        PROVE  (CommInv /\ NoSpuriousAbort)'
    BY <1>3 DEF GpuFinish
  <1>4. ASSUME NEW w \in Works, DeadlinePasses(w)
        PROVE  (CommInv /\ NoSpuriousAbort)'
    BY <1>4 DEF DeadlinePasses
  <1>5. ASSUME NEW t \in Threads, NEW s \in Streams, CheckHead(t, s)
        PROVE  (CommInv /\ NoSpuriousAbort)'
    <2> DEFINE h == Head(queue[s])
    <2>1. UNCHANGED <<pc, comm, commState, initState, process, sawFailure>>
      BY <1>5 DEF CheckHead
    <2>2. \A v \in Works : status[v] \in Failing => status'[v] = status[v]
      BY <1>5, SettledStays DEF Terminal
    <2>3. h \in Works
      BY <1>5, HeadFacts DEF CheckHead
    <2>4. \A u \in Threads : last'[u] \in Failing => \E v \in Works : status'[v] = last'[u]
      <3>1. PICK st \in CheckStatus(h) :
              /\ status' = [status EXCEPT ![h] = st]
              /\ last' = [last EXCEPT ![t] = st]
        BY <1>5 DEF CheckHead
      <3>2. status'[h] = last'[t]
        BY <2>3, <3>1
      <3>3. \A u \in Threads \ {t} : last'[u] = last[u]
        BY <3>1
      <3>4. ASSUME NEW u \in Threads \ {t}, last'[u] \in Failing
            PROVE  \E v \in Works : status'[v] = last'[u]
        <4>1. PICK v \in Works : status[v] = last[u]
          BY <3>3, <3>4
        <4> QED
          BY <2>2, <3>3, <3>4, <4>1
      <3> QED
        BY <2>3, <3>2, <3>4
    <2>5. commState # "NORMAL" =>
            \E v \in Works : status'[v] \in Failing /\ StateOf(status'[v]) = commState
      BY <2>2
    <2> QED
      BY <2>1, <2>4, <2>5
  <1>6. ASSUME NEW t \in Threads, GcLock(t)
        PROVE  (CommInv /\ NoSpuriousAbort)'
    BY <1>6 DEF GcLock, BeginScan
  <1>7. ASSUME NEW t \in Threads, GcUnlock(t)
        PROVE  (CommInv /\ NoSpuriousAbort)'
    BY <1>7 DEF GcUnlock
  <1>8. ASSUME NEW t \in Threads, StoreCommState(t)
        PROVE  (CommInv /\ NoSpuriousAbort)'
    BY <1>8 DEF StoreCommState
  <1>9. CASE WatchdogWake
    BY <1>9 DEF WatchdogWake
  <1>10. CASE WatchdogTest
    BY <1>10 DEF WatchdogTest
  <1>11. CASE InitComm \/ InitFails
    BY <1>11 DEF InitComm, InitFails
  <1>12. CASE CallOp
    BY <1>12 DEF CallOp
  <1>13. CASE DecideTimeout \/ DecideError
    BY <1>13 DEF DecideTimeout, DecideError, AbortNcclComm
  <1>14. ASSUME NEW c \in UserStreams, NEW a \in OpModes, OpIssue(c, a)
        PROVE  (CommInv /\ NoSpuriousAbort)'
    BY <1>14 DEF OpIssue, OperationStream
  <1>15. CASE OpFails
    BY <1>15 DEF OpFails
  <1>16. CASE Enqueue
    BY <1>16 DEF Enqueue
  <1>17. CASE CapturedOp
    BY <1>17 DEF CapturedOp
  <1>18. ASSUME NEW w \in Works, NEW c \in UserStreams, WorkWait(w, c)
        PROVE  (CommInv /\ NoSpuriousAbort)'
    BY <1>18 DEF WorkWait
  <1>19. CASE CaptureBegin
    BY <1>19 DEF CaptureBegin
  <1>20. CASE CaptureEnd
    BY <1>20 DEF CaptureEnd
  <1>21. CASE FinalizeBegin
    BY <1>21 DEF FinalizeBegin
  <1>22. CASE FinalizeJoin
    BY <1>22 DEF FinalizeJoin, BeginScan
  <1>23. CASE FinalizeRescan
    BY <1>23 DEF FinalizeRescan, BeginScan
  <1>24. CASE FinalizeClear
    BY <1>24 DEF FinalizeClear
  <1>25. CASE FinalizeSettle
    BY <1>25 DEF FinalizeSettle, AbortNcclComm
  <1> QED
    BY <1>1, <1>2, <1>3, <1>4, <1>5, <1>6, <1>7, <1>8, <1>9,
       <1>10, <1>11, <1>12, <1>13, <1>14, <1>15, <1>16, <1>17, <1>18,
       <1>19, <1>20, <1>21, <1>22, <1>23, <1>24, <1>25
    DEF Next, UserStep, WatchdogStep, DeviceStep, Terminated, Threads

LEMMA InitSafetyInv == Init => SafetyInv
  <1> SUFFICES ASSUME Init PROVE SafetyInv
    OBVIOUS
  <1>1. TypeInv
    BY InitTypeInv
  <1>2. ControlInv /\ QueueInv /\ FailureStaysAtHead /\ CarryInv /\ CommInv /\ NoSpuriousAbort
    BY <1>1, ConstantsAssumption
    DEF Init, ControlInv, QueueInv, FailureStaysAtHead, CarryInv, CommInv, NoSpuriousAbort, InOp,
        Threads, Failing
  <1> QED
    BY <1>1, <1>2 DEF SafetyInv

LEMMA NextSafetyInv == SafetyInv /\ [Next]_vars => SafetyInv'
  BY NextTypeInv, ControlStep, QueueStep, FailureStep, CarryStep, CommStep DEF SafetyInv

LEMMA SafetyInvariant == Spec => []SafetyInv
  BY InitSafetyInv, NextSafetyInv, PTL DEF Spec

\* A failed work is at the head of its queue until finalize clears the queues.
THEOREM FailureKept == Spec => []FailureStaysAtHead
  BY SafetyInvariant, PTL DEF SafetyInv

\* An operation called after a failure reaches NCCL only if the watchdog stored
\* TIMEOUT over ERROR between checkAndAbortIfTimedOutOrError's two loads of
\* comm_state_; whatever else the watchdog does meanwhile with the queue and the
\* state, the operation aborts the communicator and throws.
THEOREM FailureStopsOps == Spec => []NoIssueAfterFailure
  <1>1. SafetyInv => NoIssueAfterFailure
    BY DEF SafetyInv, CarryInv, NoIssueAfterFailure
  <1> QED
    BY <1>1, SafetyInvariant, PTL

\* Outside a capture NCCL is called with a communicator that exists, but for the
\* operation that FailureStopsOps excepts: the communicator is aborted only for a
\* failure, and an operation that finds it so was called after one.
THEOREM OpsUseLiveComm == Spec => []IssueNeedsComm
  <1>1. SafetyInv => IssueNeedsComm
    BY DEF SafetyInv, TypeInv, TypeOK, ControlInv, CarryInv, CommInv, IssueNeedsComm, InOp
  <1> QED
    BY <1>1, SafetyInvariant, PTL

\* The communicator and the process are aborted for a failed work only.
THEOREM AbortHasCause == Spec => []NoSpuriousAbort
  BY SafetyInvariant, PTL DEF SafetyInv

-----------------------------------------------------------------------------
(* Works complete in the order of their stream, and finalize drains the     *)
(* queues while there is one stream.                                        *)

\* A work number is used once, and a status is only ever read off the GPU.
DoneInv ==
    \A w \in Works :
        /\ w > issued => gpu[w] = "none"
        /\ status[w] = "COMPLETED" => gpu[w] = "done"
        /\ status[w] = "INPROGRESS" => gpu[w] \in {"running", "done", "failed"}

\* A queue lists its works in the order they were issued.
SortedInv ==
    \A s \in Streams : \A i, j \in 1 .. Len(queue[s]) :
        i < j => queue[s][i] < queue[s][j]

\* The queue holding work v.
Queued(v) == \E i \in 1 .. Len(queue[place[v]]) : queue[place[v]][i] = v

\* Until finalize clears the queues, no work gets lost: it is completed, or
\* queued, or about to be enqueued.
KeptInv ==
    IF Cleared THEN \A s \in Streams : queue[s] = << >>
    ELSE \A v \in 1 .. issued : gpu[v] # "captured" =>
             \/ status[v] = "COMPLETED"
             \/ Queued(v)
             \/ pc["user"] = "enqueue" /\ v = issued

OrderInv == SafetyInv /\ DoneInv /\ SortedInv /\ KeptInv /\ CompletedInOrder

\* An index of a list of one more or one less.
LEMMA Shorter ==
    ASSUME NEW n \in Nat, NEW j \in 1 .. n + 1, j # n + 1
    PROVE  j \in 1 .. n
  OBVIOUS

LEMMA Longer ==
    ASSUME NEW n \in Nat, NEW j \in 1 .. n
    PROVE  j \in 1 .. n + 1
  OBVIOUS


\* COMPLETED is set when the end event has completed, and never otherwise.
LEMMA DoneStep ==
    ASSUME SafetyInv, DoneInv, [Next]_vars
    PROVE  DoneInv'
  <1> USE ConstantsAssumption
      DEF SafetyInv, TypeInv, TypeOK, DoneInv, ControlInv, InOp, goto, OpOver, Threads, Works,
          workVars, queueVars, commVars, captureVars, historyVars
  <1>1. CASE UNCHANGED vars
    BY <1>1 DEF vars
  <1>2. ASSUME NEW w \in Works, GpuStart(w)
        PROVE  DoneInv'
    BY <1>2 DEF GpuStart
  <1>3. ASSUME NEW w \in Works, GpuFinish(w)
        PROVE  DoneInv'
    BY <1>3 DEF GpuFinish
  <1>4. ASSUME NEW w \in Works, DeadlinePasses(w)
        PROVE  DoneInv'
    BY <1>4 DEF DeadlinePasses
  <1>5. ASSUME NEW t \in Threads, NEW s \in Streams, CheckHead(t, s)
        PROVE  DoneInv'
    <2> DEFINE h == Head(queue[s])
    <2>1. queue[s] # << >> /\ queue[s] \in Seq(Works)
      BY <1>5 DEF CheckHead
    <2>2. h \in Works /\ h <= issued /\ place[h] = s
      BY <2>1, HeadFacts
    <2>3. PICK st \in CheckStatus(h) :
            /\ status' = [status EXCEPT ![h] = st]
            /\ queue' = [queue EXCEPT ![s] = IF Pops(st) THEN Tail(queue[s])
                                                        ELSE queue[s]]
      BY <1>5 DEF CheckHead
    <2>4. UNCHANGED <<gpu, place, issued, pc, initState>>
      BY <1>5 DEF CheckHead
    <2>5. /\ h = queue[s][1] /\ Len(queue[s]) \in Nat \ {0}
          /\ Tail(queue[s]) \in Seq(Works) /\ Len(Tail(queue[s])) = Len(queue[s]) - 1
          /\ \A i \in 1 .. Len(queue[s]) - 1 : Tail(queue[s])[i] = queue[s][i + 1]
      BY <2>1, TailFacts
    <2>6. /\ st = "COMPLETED" => gpu[h] = "done"
          /\ st = "INPROGRESS" => gpu[h] \in {"running", "done", "failed"}
      BY <2>2 DEF CheckStatus, Observed, Terminal, Failing
    <2> QED
      BY <2>2, <2>3, <2>4, <2>6
  <1>6. ASSUME NEW t \in Threads, GcLock(t)
        PROVE  DoneInv'
    BY <1>6 DEF GcLock, BeginScan
  <1>7. ASSUME NEW t \in Threads, GcUnlock(t)
        PROVE  DoneInv'
    BY <1>7 DEF GcUnlock
  <1>8. ASSUME NEW t \in Threads, StoreCommState(t)
        PROVE  DoneInv'
    BY <1>8 DEF StoreCommState
  <1>9. CASE WatchdogWake
    BY <1>9 DEF WatchdogWake
  <1>10. CASE WatchdogTest
    BY <1>10 DEF WatchdogTest
  <1>11. CASE InitComm \/ InitFails
    BY <1>11 DEF InitComm, InitFails
  <1>12. CASE CallOp
    BY <1>12 DEF CallOp
  <1>13. CASE DecideTimeout \/ DecideError
    BY <1>13 DEF DecideTimeout, DecideError, AbortNcclComm
  <1>14. ASSUME NEW c \in UserStreams, NEW a \in OpModes, OpIssue(c, a)
        PROVE  DoneInv'
    BY <1>14 DEF OpIssue, OperationStream
  <1>15. CASE OpFails
    BY <1>15 DEF OpFails
  <1>16. CASE Enqueue
    BY <1>16 DEF Enqueue
  <1>17. CASE CapturedOp
    BY <1>17 DEF CapturedOp
  <1>18. ASSUME NEW w \in Works, NEW c \in UserStreams, WorkWait(w, c)
        PROVE  DoneInv'
    BY <1>18 DEF WorkWait
  <1>19. CASE CaptureBegin
    BY <1>19 DEF CaptureBegin
  <1>20. CASE CaptureEnd
    BY <1>20 DEF CaptureEnd
  <1>21. CASE FinalizeBegin
    BY <1>21 DEF FinalizeBegin
  <1>22. CASE FinalizeJoin
    BY <1>22 DEF FinalizeJoin, BeginScan
  <1>23. CASE FinalizeRescan
    BY <1>23 DEF FinalizeRescan, BeginScan
  <1>24. CASE FinalizeClear
    BY <1>24 DEF FinalizeClear
  <1>25. CASE FinalizeSettle
    BY <1>25 DEF FinalizeSettle, AbortNcclComm
  <1> QED
    BY <1>1, <1>2, <1>3, <1>4, <1>5, <1>6, <1>7, <1>8, <1>9,
       <1>10, <1>11, <1>12, <1>13, <1>14, <1>15, <1>16, <1>17, <1>18,
       <1>19, <1>20, <1>21, <1>22, <1>23, <1>24, <1>25
    DEF Next, UserStep, WatchdogStep, DeviceStep, Terminated, Threads

\* Works are appended in the order of their numbers and popped from the head.
LEMMA SortedStep ==
    ASSUME SafetyInv, SortedInv, [Next]_vars
    PROVE  SortedInv'
  <1> USE ConstantsAssumption
      DEF SafetyInv, TypeInv, TypeOK, SortedInv, QueueInv, ControlInv, InOp, goto, OpOver, Threads, Works,
          workVars, queueVars, commVars, captureVars, historyVars
  <1>1. CASE UNCHANGED vars
    BY <1>1 DEF vars
  <1>2. ASSUME NEW w \in Works, GpuStart(w)
        PROVE  SortedInv'
    BY <1>2 DEF GpuStart
  <1>3. ASSUME NEW w \in Works, GpuFinish(w)
        PROVE  SortedInv'
    BY <1>3 DEF GpuFinish
  <1>4. ASSUME NEW w \in Works, DeadlinePasses(w)
        PROVE  SortedInv'
    BY <1>4 DEF DeadlinePasses
  <1>5. ASSUME NEW t \in Threads, NEW s \in Streams, CheckHead(t, s)
        PROVE  SortedInv'
    <2> DEFINE h == Head(queue[s])
    <2>1. queue[s] # << >> /\ queue[s] \in Seq(Works)
      BY <1>5 DEF CheckHead
    <2>2. h \in Works /\ h <= issued /\ place[h] = s
      BY <2>1, HeadFacts
    <2>3. PICK st \in CheckStatus(h) :
            /\ status' = [status EXCEPT ![h] = st]
            /\ queue' = [queue EXCEPT ![s] = IF Pops(st) THEN Tail(queue[s])
                                                        ELSE queue[s]]
      BY <1>5 DEF CheckHead
    <2>4. UNCHANGED <<gpu, place, issued, pc, initState>>
      BY <1>5 DEF CheckHead
    <2>5. /\ h = queue[s][1] /\ Len(queue[s]) \in Nat \ {0}
          /\ Tail(queue[s]) \in Seq(Works) /\ Len(Tail(queue[s])) = Len(queue[s]) - 1
          /\ \A i \in 1 .. Len(queue[s]) - 1 : Tail(queue[s])[i] = queue[s][i + 1]
      BY <2>1, TailFacts
    <2> HIDE DEF h
    <2> SUFFICES ASSUME NEW x \in Streams, NEW i \in 1 .. Len(queue'[x]),
                        NEW j \in 1 .. Len(queue'[x]), i < j
                 PROVE  queue'[x][i] < queue'[x][j]
      OBVIOUS
    <2>6. CASE x # s \/ ~Pops(st)
      <3>1. queue'[x] = queue[x]
        BY <2>3, <2>6
      <3> QED
        BY <3>1
    <2>7. CASE x = s /\ Pops(st)
      <3>1. queue'[x] = Tail(queue[s])
        BY <2>3, <2>7
      <3>2. i \in 1 .. Len(queue[s]) - 1 /\ j \in 1 .. Len(queue[s]) - 1
        BY <2>5, <3>1
      <3>3. queue'[x][i] = queue[s][i + 1] /\ queue'[x][j] = queue[s][j + 1]
        BY <2>5, <3>1, <3>2
      <3>4. i + 1 \in 1 .. Len(queue[s]) /\ j + 1 \in 1 .. Len(queue[s]) /\ i + 1 < j + 1
        BY <2>5, <3>2
      <3> QED
        <4>1. \A a, b \in 1 .. Len(queue[s]) : a < b => queue[s][a] < queue[s][b]
          BY DEF SortedInv
        <4>2. queue[s][i + 1] < queue[s][j + 1]
          BY <3>4, <4>1, Zenon
        <4> QED
          BY <3>3, <4>2
    <2> QED
      BY <2>6, <2>7
  <1>6. ASSUME NEW t \in Threads, GcLock(t)
        PROVE  SortedInv'
    BY <1>6 DEF GcLock, BeginScan
  <1>7. ASSUME NEW t \in Threads, GcUnlock(t)
        PROVE  SortedInv'
    BY <1>7 DEF GcUnlock
  <1>8. ASSUME NEW t \in Threads, StoreCommState(t)
        PROVE  SortedInv'
    BY <1>8 DEF StoreCommState
  <1>9. CASE WatchdogWake
    BY <1>9 DEF WatchdogWake
  <1>10. CASE WatchdogTest
    BY <1>10 DEF WatchdogTest
  <1>11. CASE InitComm \/ InitFails
    BY <1>11 DEF InitComm, InitFails
  <1>12. CASE CallOp
    BY <1>12 DEF CallOp
  <1>13. CASE DecideTimeout \/ DecideError
    BY <1>13 DEF DecideTimeout, DecideError, AbortNcclComm
  <1>14. ASSUME NEW c \in UserStreams, NEW a \in OpModes, OpIssue(c, a)
        PROVE  SortedInv'
    BY <1>14 DEF OpIssue, OperationStream
  <1>15. CASE OpFails
    BY <1>15 DEF OpFails
  <1>16. CASE Enqueue
    <2> DEFINE r == place[issued]
               q == Append(queue[r], issued)
    <2>1. issued \in Works /\ r \in Streams /\ queue[r] \in Seq(Works)
      BY <1>16 DEF Enqueue
    <2>2. /\ Len(q) = Len(queue[r]) + 1 /\ q[Len(queue[r]) + 1] = issued
          /\ \A i \in 1 .. Len(queue[r]) : q[i] = queue[r][i]
          /\ Len(queue[r]) \in Nat
      BY <2>1, AppendFacts
    <2>3. /\ queue' = [queue EXCEPT ![r] = q]
          /\ pc' = [pc EXCEPT !["user"] = "idle"]
          /\ pc["user"] = "enqueue" /\ initState = "INITIALIZED"
          /\ UNCHANGED <<issued, place, status, gpu, initState>>
      BY <1>16 DEF Enqueue
    <2> HIDE DEF q
    <2> SUFFICES ASSUME NEW x \in Streams, NEW i \in 1 .. Len(queue'[x]),
                        NEW j \in 1 .. Len(queue'[x]), i < j
                 PROVE  queue'[x][i] < queue'[x][j]
      OBVIOUS
    <2>4. CASE x # r
      <3>1. queue'[x] = queue[x]
        BY <2>3, <2>4
      <3> QED
        BY <3>1
    <2>5. CASE x = r
      <3>1. queue'[x] = q
        BY <2>1, <2>3, <2>5
      <3>2. i \in 1 .. Len(queue[r]) /\ q[i] = queue[r][i] /\ q[i] < issued
        BY <2>1, <2>2, <2>3, <3>1
      <3>3. CASE j = Len(queue[r]) + 1
        <4>1. q[j] = issued
          BY <2>2, <3>3
        <4> QED
          BY <3>1, <3>2, <4>1
      <3>4. CASE j # Len(queue[r]) + 1
        <4>2. j \in 1 .. Len(queue[r]) + 1
          BY <2>2, <3>1
        <4>3. j \in 1 .. Len(queue[r])
          BY <2>2, <3>4, <4>2, Shorter, Zenon
        <4>1. j \in 1 .. Len(queue[r]) /\ q[j] = queue[r][j]
          BY <2>2, <4>3
        <4> QED
          BY <2>1, <3>1, <3>2, <4>1
      <3> QED
        BY <3>3, <3>4
    <2> QED
      BY <2>4, <2>5
  <1>17. CASE CapturedOp
    BY <1>17 DEF CapturedOp
  <1>18. ASSUME NEW w \in Works, NEW c \in UserStreams, WorkWait(w, c)
        PROVE  SortedInv'
    BY <1>18 DEF WorkWait
  <1>19. CASE CaptureBegin
    BY <1>19 DEF CaptureBegin
  <1>20. CASE CaptureEnd
    BY <1>20 DEF CaptureEnd
  <1>21. CASE FinalizeBegin
    BY <1>21 DEF FinalizeBegin
  <1>22. CASE FinalizeJoin
    BY <1>22 DEF FinalizeJoin, BeginScan
  <1>23. CASE FinalizeRescan
    BY <1>23 DEF FinalizeRescan, BeginScan
  <1>24. CASE FinalizeClear
    BY <1>24 DEF FinalizeClear
  <1>25. CASE FinalizeSettle
    BY <1>25 DEF FinalizeSettle, AbortNcclComm
  <1> QED
    BY <1>1, <1>2, <1>3, <1>4, <1>5, <1>6, <1>7, <1>8, <1>9,
       <1>10, <1>11, <1>12, <1>13, <1>14, <1>15, <1>16, <1>17, <1>18,
       <1>19, <1>20, <1>21, <1>22, <1>23, <1>24, <1>25
    DEF Next, UserStep, WatchdogStep, DeviceStep, Terminated, Threads

\* The collection drops completed works only, so a work that is not completed stays
\* queued until finalize clears the queues.
LEMMA KeptStep ==
    ASSUME SafetyInv, KeptInv, [Next]_vars
    PROVE  KeptInv'
  <1> USE ConstantsAssumption
      DEF SafetyInv, TypeInv, TypeOK, KeptInv, Queued, Cleared, Returned, ControlInv, InOp, goto, OpOver, Threads, Works,
          workVars, queueVars, commVars, captureVars, historyVars
  <1>1. CASE UNCHANGED vars
    BY <1>1 DEF vars
  <1>2. ASSUME NEW w \in Works, GpuStart(w)
        PROVE  KeptInv'
    BY <1>2 DEF GpuStart
  <1>3. ASSUME NEW w \in Works, GpuFinish(w)
        PROVE  KeptInv'
    <2>1. gpu[w] # "captured" /\ \A v \in Works \ {w} : gpu'[v] = gpu[v]
      BY <1>3 DEF GpuFinish
    <2>2. UNCHANGED <<queue, status, place, issued, pc, initState>>
      BY <1>3 DEF GpuFinish
    <2>3. \A v \in 1 .. issued : gpu'[v] # "captured" => gpu[v] # "captured"
      BY <2>1
    <2> QED
      BY <2>2, <2>3
  <1>4. ASSUME NEW w \in Works, DeadlinePasses(w)
        PROVE  KeptInv'
    BY <1>4 DEF DeadlinePasses
  <1>5. ASSUME NEW t \in Threads, NEW s \in Streams, CheckHead(t, s)
        PROVE  KeptInv'
    <2> DEFINE h == Head(queue[s])
    <2>1. queue[s] # << >> /\ queue[s] \in Seq(Works)
      BY <1>5 DEF CheckHead
    <2>2. h \in Works /\ h <= issued /\ place[h] = s
      BY <2>1, HeadFacts
    <2>3. PICK st \in CheckStatus(h) :
            /\ status' = [status EXCEPT ![h] = st]
            /\ queue' = [queue EXCEPT ![s] = IF Pops(st) THEN Tail(queue[s])
                                                        ELSE queue[s]]
      BY <1>5 DEF CheckHead
    <2>4. UNCHANGED <<gpu, place, issued, pc, initState>>
      BY <1>5 DEF CheckHead
    <2>5. /\ h = queue[s][1] /\ Len(queue[s]) \in Nat \ {0}
          /\ Tail(queue[s]) \in Seq(Works) /\ Len(Tail(queue[s])) = Len(queue[s]) - 1
          /\ \A i \in 1 .. Len(queue[s]) - 1 : Tail(queue[s])[i] = queue[s][i + 1]
      BY <2>1, TailFacts
    <2> HIDE DEF h
    <2>6. ~Cleared /\ ~Cleared'
      BY <2>1, <2>4
    <2> SUFFICES ASSUME NEW v \in 1 .. issued, gpu[v] # "captured"
                 PROVE  \/ status'[v] = "COMPLETED"
                        \/ \E i \in 1 .. Len(queue'[place[v]]) : queue'[place[v]][i] = v
                        \/ pc["user"] = "enqueue" /\ v = issued
      BY <2>4, <2>6
    <2>7. CASE status[v] = "COMPLETED"
      BY <2>7, <1>5, SettledStays DEF Terminal
    <2>8. CASE pc["user"] = "enqueue" /\ v = issued
      BY <2>8
    <2>9. ASSUME NEW i \in 1 .. Len(queue[place[v]]), queue[place[v]][i] = v
          PROVE  \/ status'[v] = "COMPLETED"
                 \/ \E k \in 1 .. Len(queue'[place[v]]) : queue'[place[v]][k] = v
      <3>1. CASE place[v] # s \/ ~Pops(st)
        <4>1. queue'[place[v]] = queue[place[v]]
          BY <2>3, <3>1
        <4> QED
          BY <2>9, <4>1
      <3>2. CASE place[v] = s /\ Pops(st) /\ i = 1
        <4>1. v = h /\ st = "COMPLETED"
          BY <2>5, <2>9, <3>2 DEF Pops
        <4> QED
          BY <2>2, <2>3, <4>1
      <3>3. CASE place[v] = s /\ Pops(st) /\ i # 1
        <4>1. queue'[place[v]] = Tail(queue[s])
          BY <2>3, <3>3
        <4>2. i - 1 \in 1 .. Len(queue[s]) - 1
          BY <2>5, <3>3
        <4>3. i - 1 \in 1 .. Len(queue'[place[v]]) /\ queue'[place[v]][i - 1] = v
          BY <2>5, <2>9, <3>3, <4>1, <4>2
        <4> QED
          BY <4>3
      <3> QED
        BY <3>1, <3>2, <3>3
    <2> QED
      BY <2>6, <2>7, <2>8, <2>9
  <1>6. ASSUME NEW t \in Threads, GcLock(t)
        PROVE  KeptInv'
    BY <1>6 DEF GcLock, BeginScan
  <1>7. ASSUME NEW t \in Threads, GcUnlock(t)
        PROVE  KeptInv'
    BY <1>7 DEF GcUnlock
  <1>8. ASSUME NEW t \in Threads, StoreCommState(t)
        PROVE  KeptInv'
    BY <1>8 DEF StoreCommState
  <1>9. CASE WatchdogWake
    BY <1>9 DEF WatchdogWake
  <1>10. CASE WatchdogTest
    BY <1>10 DEF WatchdogTest
  <1>11. CASE InitComm \/ InitFails
    <2>1. UNCHANGED <<queue, place, issued, status, gpu>>
      BY <1>11 DEF InitComm, InitFails
    <2>2. pc["user"] \notin {"enqueue", "settle"} /\ pc'["user"] \notin {"enqueue", "settle"}
          /\ ~Returned /\ ~Returned'
      BY <1>11 DEF InitComm, InitFails
    <2> QED
      BY <2>1, <2>2
  <1>12. CASE CallOp
    BY <1>12 DEF CallOp
  <1>13. CASE DecideTimeout \/ DecideError
    <2>1. UNCHANGED <<queue, place, issued, status, gpu>>
      BY <1>13 DEF DecideTimeout, DecideError
    <2>2. pc["user"] \notin {"enqueue", "settle"} /\ pc'["user"] \notin {"enqueue", "settle"}
          /\ ~Returned /\ ~Returned'
      BY <1>13 DEF DecideTimeout, DecideError
    <2> QED
      BY <2>1, <2>2
  <1>14. ASSUME NEW c \in UserStreams, NEW a \in OpModes, OpIssue(c, a)
        PROVE  KeptInv'
    BY <1>14 DEF OpIssue, OperationStream
  <1>15. CASE OpFails
    BY <1>15 DEF OpFails
  <1>16. CASE Enqueue
    <2> DEFINE r == place[issued]
               q == Append(queue[r], issued)
    <2>1. issued \in Works /\ r \in Streams /\ queue[r] \in Seq(Works)
      BY <1>16 DEF Enqueue
    <2>2. /\ Len(q) = Len(queue[r]) + 1 /\ q[Len(queue[r]) + 1] = issued
          /\ \A i \in 1 .. Len(queue[r]) : q[i] = queue[r][i]
          /\ Len(queue[r]) \in Nat
      BY <2>1, AppendFacts
    <2>3. /\ queue' = [queue EXCEPT ![r] = q]
          /\ pc' = [pc EXCEPT !["user"] = "idle"]
          /\ pc["user"] = "enqueue" /\ initState = "INITIALIZED"
          /\ UNCHANGED <<issued, place, status, gpu, initState>>
      BY <1>16 DEF Enqueue
    <2> HIDE DEF q
    <2>4. ~Cleared /\ ~Cleared'
      BY <2>3
    <2> SUFFICES ASSUME NEW v \in 1 .. issued', gpu'[v] # "captured",
                        status'[v] # "COMPLETED"
                 PROVE  Queued(v)'
      BY <2>4
    <2> SUFFICES \E k \in 1 .. Len(queue'[place[v]]) : queue'[place[v]][k] = v
      BY <2>3
    <2>5. CASE v = issued
      <3>1. queue'[place[v]] = q
        BY <2>1, <2>3, <2>5
      <3> QED
        BY <2>2, <2>5, <3>1
    <2>6. CASE v # issued
      <3>1. PICK i \in 1 .. Len(queue[place[v]]) : queue[place[v]][i] = v
        BY <2>3, <2>4, <2>6
      <3>2. CASE place[v] # r
        BY <2>3, <3>1, <3>2
      <3>3. CASE place[v] = r
        <4>1. queue'[place[v]] = q
          BY <2>1, <2>3, <3>3
        <4>2. i \in 1 .. Len(queue[r]) /\ queue[r][i] = v
          BY <3>1, <3>3, Zenon
        <4>3. i \in 1 .. Len(q) /\ q[i] = v
          BY <2>2, <4>2, Longer, Zenon
        <4> QED
          BY <4>1, <4>3
      <3> QED
        BY <3>2, <3>3
    <2> QED
      BY <2>5, <2>6
  <1>17. CASE CapturedOp
    BY <1>17 DEF CapturedOp
  <1>18. ASSUME NEW w \in Works, NEW c \in UserStreams, WorkWait(w, c)
        PROVE  KeptInv'
    BY <1>18 DEF WorkWait
  <1>19. CASE CaptureBegin
    BY <1>19 DEF CaptureBegin
  <1>20. CASE CaptureEnd
    BY <1>20 DEF CaptureEnd
  <1>21. CASE FinalizeBegin
    BY <1>21 DEF FinalizeBegin
  <1>22. CASE FinalizeJoin
    BY <1>22 DEF FinalizeJoin, BeginScan
  <1>23. CASE FinalizeRescan
    BY <1>23 DEF FinalizeRescan, BeginScan
  <1>24. CASE FinalizeClear
    BY <1>24 DEF FinalizeClear
  <1>25. CASE FinalizeSettle
    BY <1>25 DEF FinalizeSettle, AbortNcclComm
  <1> QED
    BY <1>1, <1>2, <1>3, <1>4, <1>5, <1>6, <1>7, <1>8, <1>9,
       <1>10, <1>11, <1>12, <1>13, <1>14, <1>15, <1>16, <1>17, <1>18,
       <1>19, <1>20, <1>21, <1>22, <1>23, <1>24, <1>25
    DEF Next, UserStep, WatchdogStep, DeviceStep, Terminated, Threads

\* When a head completes, every earlier work of its stream has left the queue.
LEMMA InOrderStep ==
    ASSUME OrderInv, [Next]_vars
    PROVE  CompletedInOrder'
  <1> USE ConstantsAssumption
      DEF SafetyInv, TypeInv, TypeOK, OrderInv, DoneInv, CompletedInOrder, ControlInv, InOp, goto, OpOver, Threads, Works,
          workVars, queueVars, commVars, captureVars, historyVars
  <1>1. CASE UNCHANGED vars
    BY <1>1 DEF vars
  <1>2. ASSUME NEW w \in Works, GpuStart(w)
        PROVE  CompletedInOrder'
    BY <1>2 DEF GpuStart
  <1>3. ASSUME NEW w \in Works, GpuFinish(w)
        PROVE  CompletedInOrder'
    BY <1>3 DEF GpuFinish
  <1>4. ASSUME NEW w \in Works, DeadlinePasses(w)
        PROVE  CompletedInOrder'
    BY <1>4 DEF DeadlinePasses
  <1>5. ASSUME NEW t \in Threads, NEW s \in Streams, CheckHead(t, s)
        PROVE  CompletedInOrder'
    <2> DEFINE h == Head(queue[s])
    <2>1. queue[s] # << >> /\ queue[s] \in Seq(Works)
      BY <1>5 DEF CheckHead
    <2>2. h \in Works /\ h <= issued /\ place[h] = s
      BY <2>1, HeadFacts
    <2>3. PICK st \in CheckStatus(h) :
            /\ status' = [status EXCEPT ![h] = st]
            /\ queue' = [queue EXCEPT ![s] = IF Pops(st) THEN Tail(queue[s])
                                                        ELSE queue[s]]
      BY <1>5 DEF CheckHead
    <2>4. UNCHANGED <<gpu, place, issued, pc, initState>>
      BY <1>5 DEF CheckHead
    <2>5. /\ h = queue[s][1] /\ Len(queue[s]) \in Nat \ {0}
          /\ Tail(queue[s]) \in Seq(Works) /\ Len(Tail(queue[s])) = Len(queue[s]) - 1
          /\ \A i \in 1 .. Len(queue[s]) - 1 : Tail(queue[s])[i] = queue[s][i + 1]
      BY <2>1, TailFacts
    <2> HIDE DEF h
    <2>6. DoneInv'
      BY DoneStep
    <2> SUFFICES ASSUME NEW w \in Works, status'[w] = "COMPLETED", NEW v \in 1 .. w,
                        place[v] = place[w], gpu[v] # "captured"
                 PROVE  status'[v] = "COMPLETED"
      BY <2>4, <2>6
    <2>7. v \in Works
      OBVIOUS
    <2>8. CASE status[w] = "COMPLETED"
      <3>1. status[v] = "COMPLETED"
        BY <2>8
      <3> QED
        BY <2>7, <3>1, <1>5, SettledStays DEF Terminal
    <2>9. CASE status[w] # "COMPLETED"
      <3>1. w = h /\ place[v] = s
        BY <2>2, <2>3, <2>9
      <3>2. CASE v = h
        BY <3>1, <3>2
      <3>3. CASE v # h
        <4>1. v < h /\ v \in 1 .. issued /\ v # issued
          BY <2>2, <3>1, <3>3
        <4>2. ~Cleared
          BY <2>1 DEF KeptInv
        <4>3. ~Queued(v)
          <5> SUFFICES ASSUME NEW i \in 1 .. Len(queue[s]), queue[s][i] = v
                       PROVE  FALSE
            BY <3>1 DEF Queued
          <5>1. i # 1 /\ 1 \in 1 .. Len(queue[s])
            BY <2>5, <3>3
          <5>2. queue[s][1] < queue[s][i]
            BY <5>1 DEF SortedInv
          <5> QED
            BY <2>2, <2>5, <4>1, <5>2
        <4>4. status[v] = "COMPLETED"
          BY <4>1, <4>2, <4>3 DEF KeptInv
        <4> QED
          BY <2>7, <4>4, <1>5, SettledStays DEF Terminal
      <3> QED
        BY <3>2, <3>3
    <2> QED
      BY <2>8, <2>9
  <1>6. ASSUME NEW t \in Threads, GcLock(t)
        PROVE  CompletedInOrder'
    BY <1>6 DEF GcLock, BeginScan
  <1>7. ASSUME NEW t \in Threads, GcUnlock(t)
        PROVE  CompletedInOrder'
    BY <1>7 DEF GcUnlock
  <1>8. ASSUME NEW t \in Threads, StoreCommState(t)
        PROVE  CompletedInOrder'
    BY <1>8 DEF StoreCommState
  <1>9. CASE WatchdogWake
    BY <1>9 DEF WatchdogWake
  <1>10. CASE WatchdogTest
    BY <1>10 DEF WatchdogTest
  <1>11. CASE InitComm \/ InitFails
    BY <1>11 DEF InitComm, InitFails
  <1>12. CASE CallOp
    BY <1>12 DEF CallOp
  <1>13. CASE DecideTimeout \/ DecideError
    BY <1>13 DEF DecideTimeout, DecideError, AbortNcclComm
  <1>14. ASSUME NEW c \in UserStreams, NEW a \in OpModes, OpIssue(c, a)
        PROVE  CompletedInOrder'
    BY <1>14 DEF OpIssue, OperationStream
  <1>15. CASE OpFails
    BY <1>15 DEF OpFails
  <1>16. CASE Enqueue
    BY <1>16 DEF Enqueue
  <1>17. CASE CapturedOp
    BY <1>17 DEF CapturedOp
  <1>18. ASSUME NEW w \in Works, NEW c \in UserStreams, WorkWait(w, c)
        PROVE  CompletedInOrder'
    BY <1>18 DEF WorkWait
  <1>19. CASE CaptureBegin
    BY <1>19 DEF CaptureBegin
  <1>20. CASE CaptureEnd
    BY <1>20 DEF CaptureEnd
  <1>21. CASE FinalizeBegin
    BY <1>21 DEF FinalizeBegin
  <1>22. CASE FinalizeJoin
    BY <1>22 DEF FinalizeJoin, BeginScan
  <1>23. CASE FinalizeRescan
    BY <1>23 DEF FinalizeRescan, BeginScan
  <1>24. CASE FinalizeClear
    BY <1>24 DEF FinalizeClear
  <1>25. CASE FinalizeSettle
    BY <1>25 DEF FinalizeSettle, AbortNcclComm
  <1> QED
    BY <1>1, <1>2, <1>3, <1>4, <1>5, <1>6, <1>7, <1>8, <1>9,
       <1>10, <1>11, <1>12, <1>13, <1>14, <1>15, <1>16, <1>17, <1>18,
       <1>19, <1>20, <1>21, <1>22, <1>23, <1>24, <1>25
    DEF Next, UserStep, WatchdogStep, DeviceStep, Terminated, Threads

LEMMA InitOrderInv == Init => OrderInv
  <1> SUFFICES ASSUME Init PROVE OrderInv
    OBVIOUS
  <1>1. SafetyInv
    BY InitSafetyInv
  <1>2. DoneInv /\ SortedInv /\ CompletedInOrder
    BY DEF Init, DoneInv, SortedInv, CompletedInOrder
  <1>3. KeptInv
    BY ConstantsAssumption DEF Init, KeptInv, Cleared, Returned
  <1> QED
    BY <1>1, <1>2, <1>3 DEF OrderInv

LEMMA NextOrderInv == OrderInv /\ [Next]_vars => OrderInv'
  BY NextSafetyInv, DoneStep, SortedStep, KeptStep, InOrderStep DEF OrderInv

LEMMA OrderInvariant == Spec => []OrderInv
  BY InitOrderInv, NextOrderInv, PTL DEF Spec

\* A work reported COMPLETED has ended on the GPU, after every work before it on
\* its stream.
THEOREM CompletionOrder == Spec => []CompletedInOrder
  BY OrderInvariant, PTL DEF OrderInv

-----------------------------------------------------------------------------
(* The statuses only move forward.                                          *)

\* What one step does to the statuses.
Forward ==
    \A w \in Works :
        /\ status[w] \in Terminal => status'[w] = status[w]
        /\ status[w] = "INPROGRESS" => status'[w] # "NOT_STARTED"

\* Only a collection changes a status, and it never moves one back.
LEMMA ForwardStep ==
    ASSUME OrderInv, [Next]_vars
    PROVE  Forward
  <1> USE ConstantsAssumption
      DEF OrderInv, SafetyInv, Forward, Terminal, Failing, workVars, queueVars, commVars, captureVars, historyVars
  <1>1. CASE UNCHANGED vars
    BY <1>1 DEF vars
  <1>2. ASSUME NEW w \in Works, GpuStart(w)
        PROVE  Forward
    BY <1>2 DEF GpuStart
  <1>3. ASSUME NEW w \in Works, GpuFinish(w)
        PROVE  Forward
    BY <1>3 DEF GpuFinish
  <1>4. ASSUME NEW w \in Works, DeadlinePasses(w)
        PROVE  Forward
    BY <1>4 DEF DeadlinePasses
  <1>5. ASSUME NEW t \in Threads, NEW s \in Streams, CheckHead(t, s)
        PROVE  Forward
    <2> DEFINE h == Head(queue[s])
    <2>1. h \in Works
      BY <1>5, HeadFacts DEF CheckHead, TypeInv
    <2>2. PICK st \in CheckStatus(h) : status' = [status EXCEPT ![h] = st]
      BY <1>5 DEF CheckHead
    <2> HIDE DEF h
    <2>3. status[h] = "INPROGRESS" => st # "NOT_STARTED"
      BY <2>1, <2>2 DEF CheckStatus, Observed, DoneInv
    <2>4. \A w \in Works : status[w] \in Terminal => status'[w] = status[w]
      BY <1>5, SettledStays
    <2>5. status \in [Works -> Status]
      BY DEF TypeInv, TypeOK
    <2> QED
      BY <2>1, <2>2, <2>3, <2>4, <2>5
  <1>6. ASSUME NEW t \in Threads, GcLock(t)
        PROVE  Forward
    BY <1>6 DEF GcLock, BeginScan
  <1>7. ASSUME NEW t \in Threads, GcUnlock(t)
        PROVE  Forward
    BY <1>7 DEF GcUnlock
  <1>8. ASSUME NEW t \in Threads, StoreCommState(t)
        PROVE  Forward
    BY <1>8 DEF StoreCommState
  <1>9. CASE WatchdogWake
    BY <1>9 DEF WatchdogWake
  <1>10. CASE WatchdogTest
    BY <1>10 DEF WatchdogTest
  <1>11. CASE InitComm \/ InitFails
    BY <1>11 DEF InitComm, InitFails
  <1>12. CASE CallOp
    BY <1>12 DEF CallOp
  <1>13. CASE DecideTimeout \/ DecideError
    BY <1>13 DEF DecideTimeout, DecideError, AbortNcclComm
  <1>14. ASSUME NEW c \in UserStreams, NEW a \in OpModes, OpIssue(c, a)
        PROVE  Forward
    BY <1>14 DEF OpIssue, OperationStream
  <1>15. CASE OpFails
    BY <1>15 DEF OpFails
  <1>16. CASE Enqueue
    BY <1>16 DEF Enqueue
  <1>17. CASE CapturedOp
    BY <1>17 DEF CapturedOp
  <1>18. ASSUME NEW w \in Works, NEW c \in UserStreams, WorkWait(w, c)
        PROVE  Forward
    BY <1>18 DEF WorkWait
  <1>19. CASE CaptureBegin
    BY <1>19 DEF CaptureBegin
  <1>20. CASE CaptureEnd
    BY <1>20 DEF CaptureEnd
  <1>21. CASE FinalizeBegin
    BY <1>21 DEF FinalizeBegin
  <1>22. CASE FinalizeJoin
    BY <1>22 DEF FinalizeJoin, BeginScan
  <1>23. CASE FinalizeRescan
    BY <1>23 DEF FinalizeRescan, BeginScan
  <1>24. CASE FinalizeClear
    BY <1>24 DEF FinalizeClear
  <1>25. CASE FinalizeSettle
    BY <1>25 DEF FinalizeSettle, AbortNcclComm
  <1> QED
    BY <1>1, <1>2, <1>3, <1>4, <1>5, <1>6, <1>7, <1>8, <1>9,
       <1>10, <1>11, <1>12, <1>13, <1>14, <1>15, <1>16, <1>17, <1>18,
       <1>19, <1>20, <1>21, <1>22, <1>23, <1>24, <1>25
    DEF Next, UserStep, WatchdogStep, DeviceStep, Terminated, Threads

\* A settled status is final, and a work in progress never falls back.
THEOREM StatusesForward == Spec => StatusForward
  <1>1. OrderInv /\ [Next]_vars => [Forward]_vars
    BY ForwardStep
  <1> QED
    BY <1>1, OrderInvariant, PTL DEF Spec, StatusForward, Forward

-----------------------------------------------------------------------------
(* finalize with one stream in use.                                         *)

\* A work of a captured graph is never queued.
QueuedRuns ==
    /\ \A s \in Streams : \A i \in 1 .. Len(queue[s]) : gpu[queue[s][i]] # "captured"
    /\ pc["user"] = "enqueue" => gpu[issued] # "captured"

LEMMA QueuedRunsStep ==
    ASSUME TypeInv, ControlInv, QueueInv, QueuedRuns, [Next]_vars
    PROVE  QueuedRuns'
  <1> USE ConstantsAssumption
      DEF TypeInv, TypeOK, QueueInv, QueuedRuns, InOp, goto, OpOver, Threads, Works,
          workVars, queueVars, commVars, captureVars, historyVars
  <1>1. CASE UNCHANGED vars
    BY <1>1 DEF vars
  <1>2. ASSUME NEW w \in Works, GpuStart(w)
        PROVE  QueuedRuns'
    BY <1>2 DEF GpuStart
  <1>3. ASSUME NEW w \in Works, GpuFinish(w)
        PROVE  QueuedRuns'
    <2>1. \A v \in Works : gpu'[v] = "captured" => gpu[v] = "captured"
      BY <1>3 DEF GpuFinish
    <2>2. UNCHANGED <<queue, pc, issued>>
      BY <1>3 DEF GpuFinish
    <2>3. pc["user"] = "enqueue" => issued \in Works
      OBVIOUS
    <2>4. \A s \in Streams : \A i \in 1 .. Len(queue[s]) : queue[s][i] \in Works
      OBVIOUS
    <2> QED
      BY <2>1, <2>2, <2>3, <2>4
  <1>4. ASSUME NEW w \in Works, DeadlinePasses(w)
        PROVE  QueuedRuns'
    BY <1>4 DEF DeadlinePasses
  <1>5. ASSUME NEW t \in Threads, NEW s \in Streams, CheckHead(t, s)
        PROVE  QueuedRuns'
    <2>1. UNCHANGED <<gpu, pc, issued>>
      BY <1>5 DEF CheckHead
    <2>2. queue' = queue \/ queue' = [queue EXCEPT ![s] = Tail(@)]
      <3>1. PICK st \in CheckStatus(Head(queue[s])) :
              queue' = [queue EXCEPT ![s] = IF Pops(st) THEN Tail(@) ELSE @]
        BY <1>5 DEF CheckHead
      <3>2. CASE Pops(st)
        BY <3>1, <3>2
      <3>3. CASE ~Pops(st)
        BY <3>1, <3>3
      <3> QED
        BY <3>2, <3>3
    <2>3. CASE queue' = queue
      BY <2>1, <2>3
    <2>4. CASE queue' = [queue EXCEPT ![s] = Tail(@)]
      <3>1. queue[s] # << >> /\ queue[s] \in Seq(Works)
        BY <1>5 DEF CheckHead
      <3>2. /\ Len(Tail(queue[s])) = Len(queue[s]) - 1 /\ Len(queue[s]) \in Nat \ {0}
            /\ \A i \in 1 .. Len(Tail(queue[s])) : Tail(queue[s])[i] = queue[s][i + 1]
        BY <3>1, TailFacts
      <3> SUFFICES ASSUME NEW x \in Streams, NEW i \in 1 .. Len(queue'[x])
                   PROVE  gpu[queue'[x][i]] # "captured"
        BY <2>1
      <3>3. CASE x # s
        BY <2>4, <3>3
      <3>4. CASE x = s
        <4>1. queue'[x] = Tail(queue[s])
          BY <2>4, <3>4
        <4>2. i + 1 \in 1 .. Len(queue[s]) /\ queue'[x][i] = queue[s][i + 1]
          BY <3>2, <4>1
        <4> QED
          BY <4>2
      <3> QED
        BY <3>3, <3>4
    <2> QED
      BY <2>2, <2>3, <2>4
  <1>6. ASSUME NEW t \in Threads, GcLock(t)
        PROVE  QueuedRuns'
    BY <1>6 DEF GcLock, BeginScan
  <1>7. ASSUME NEW t \in Threads, GcUnlock(t)
        PROVE  QueuedRuns'
    BY <1>7 DEF GcUnlock
  <1>8. ASSUME NEW t \in Threads, StoreCommState(t)
        PROVE  QueuedRuns'
    BY <1>8 DEF StoreCommState
  <1>9. CASE WatchdogWake
    BY <1>9 DEF WatchdogWake
  <1>10. CASE WatchdogTest
    BY <1>10 DEF WatchdogTest
  <1>11. CASE InitComm \/ InitFails
    <2>1. UNCHANGED <<queue, gpu, issued>>
      BY <1>11 DEF InitComm, InitFails
    <2>2. pc["user"] # "enqueue" /\ pc'["user"] # "enqueue"
      BY <1>11 DEF InitComm, InitFails
    <2> QED
      BY <2>1, <2>2
  <1>12. CASE CallOp
    BY <1>12 DEF CallOp
  <1>13. CASE DecideTimeout \/ DecideError
    <2>1. UNCHANGED <<queue, gpu, issued>>
      BY <1>13 DEF DecideTimeout, DecideError
    <2>2. pc["user"] # "enqueue" /\ pc'["user"] # "enqueue"
      BY <1>13 DEF DecideTimeout, DecideError
    <2> QED
      BY <2>1, <2>2
  <1>14. ASSUME NEW c \in UserStreams, NEW a \in OpModes, OpIssue(c, a)
        PROVE  QueuedRuns'
    BY <1>14 DEF OpIssue, OperationStream
  <1>15. CASE OpFails
    BY <1>15 DEF OpFails
  <1>16. CASE Enqueue
    <2> DEFINE r == place[issued]
               q == Append(queue[r], issued)
    <2>1. issued \in Works /\ r \in Streams /\ queue[r] \in Seq(Works)
      BY <1>16 DEF Enqueue
    <2>2. /\ Len(q) = Len(queue[r]) + 1 /\ q[Len(queue[r]) + 1] = issued
          /\ \A i \in 1 .. Len(queue[r]) : q[i] = queue[r][i]
          /\ Len(queue[r]) \in Nat
      BY <2>1, AppendFacts
    <2>3. /\ queue' = [queue EXCEPT ![r] = q]
          /\ pc' = [pc EXCEPT !["user"] = "idle"]
          /\ pc["user"] = "enqueue" /\ UNCHANGED gpu
      BY <1>16 DEF Enqueue
    <2> HIDE DEF q
    <2> SUFFICES ASSUME NEW s \in Streams, NEW i \in 1 .. Len(queue'[s])
                 PROVE  gpu[queue'[s][i]] # "captured"
      BY <2>3
    <2>4. CASE s # r
      BY <2>1, <2>3, <2>4
    <2>5. CASE s = r /\ i = Len(queue[r]) + 1
      BY <2>1, <2>2, <2>3, <2>5
    <2>6. CASE s = r /\ i # Len(queue[r]) + 1
      <3>1. queue'[s] = q
        BY <2>1, <2>3, <2>6
      <3>2. i \in 1 .. Len(queue[r])
        BY <2>2, <2>6, <3>1
      <3> QED
        <4>1. queue'[s][i] = queue[r][i] /\ s = r
          BY <2>2, <2>6, <3>1, <3>2
        <4> QED
          BY <2>1, <3>2, <4>1
    <2> QED
      BY <2>4, <2>5, <2>6
  <1>17. CASE CapturedOp
    BY <1>17 DEF CapturedOp
  <1>18. ASSUME NEW w \in Works, NEW c \in UserStreams, WorkWait(w, c)
        PROVE  QueuedRuns'
    BY <1>18 DEF WorkWait
  <1>19. CASE CaptureBegin
    BY <1>19 DEF CaptureBegin
  <1>20. CASE CaptureEnd
    BY <1>20 DEF CaptureEnd
  <1>21. CASE FinalizeBegin
    BY <1>21 DEF FinalizeBegin
  <1>22. CASE FinalizeJoin
    BY <1>22 DEF FinalizeJoin, BeginScan
  <1>23. CASE FinalizeRescan
    BY <1>23 DEF FinalizeRescan, BeginScan
  <1>24. CASE FinalizeClear
    BY <1>24 DEF FinalizeClear
  <1>25. CASE FinalizeSettle
    BY <1>25 DEF FinalizeSettle, AbortNcclComm
  <1> QED
    BY <1>1, <1>2, <1>3, <1>4, <1>5, <1>6, <1>7, <1>8, <1>9,
       <1>10, <1>11, <1>12, <1>13, <1>14, <1>15, <1>16, <1>17, <1>18,
       <1>19, <1>20, <1>21, <1>22, <1>23, <1>24, <1>25
    DEF Next, UserStep, WatchdogStep, DeviceStep, Terminated, Threads

AllCompleted == \A v \in 1 .. issued : gpu[v] # "captured" => status[v] = "COMPLETED"

\* The works outside captures share a stream.
OneStream ==
    \A v, w \in 1 .. issued : "captured" \notin {gpu[v], gpu[w]} => place[v] = place[w]

\* While all works share a stream, a drain whose last status is COMPLETED has nothing
\* queued beyond the stream it is scanning; and finalize destroys the communicator after
\* that only.
DrainInv ==
    OneStream =>
        /\ pc["user"] = "drain" /\ last["user"] = "COMPLETED" => NonEmpty \subseteq todo
        /\ pc["user"] = "settle" =>
               \/ last["user"] \in Failing
               \/ last["user"] = "COMPLETED" /\ AllCompleted
        /\ comm = "destroyed" => AllCompleted

\* The heads of two queues are works on two streams.
LEMMA OneQueue ==
    ASSUME TypeInv, QueueInv, QueuedRuns, OneStream,
           NEW s \in Streams, NEW x \in Streams, queue[s] # << >>, queue[x] # << >>
    PROVE  s = x
  <1>1. \A y \in {s, x} : /\ Head(queue[y]) \in 1 .. issued
                          /\ place[Head(queue[y])] = y
                          /\ gpu[Head(queue[y])] # "captured"
    <2> SUFFICES ASSUME NEW y \in {s, x}
                 PROVE  /\ Head(queue[y]) \in 1 .. issued
                        /\ place[Head(queue[y])] = y
                        /\ gpu[Head(queue[y])] # "captured"
      OBVIOUS
    <2>1. y \in Streams /\ queue[y] # << >> /\ queue[y] \in Seq(Works)
      BY DEF TypeInv, TypeOK
    <2>2. Head(queue[y]) = queue[y][1] /\ 1 \in 1 .. Len(queue[y])
      BY <2>1, TailFacts
    <2>3. gpu[Head(queue[y])] # "captured"
      BY <2>1, <2>2 DEF QueuedRuns
    <2> QED
      BY <2>1, <2>3, HeadFacts DEF Works, TypeInv, TypeOK
  <1> QED
    BY <1>1 DEF OneStream

\* finalize leaves its loop on COMPLETED only when the one queue in use is empty.
LEMMA DrainStep ==
    ASSUME OrderInv, QueuedRuns, DrainInv, [Next]_vars
    PROVE  DrainInv'
  <1> USE ConstantsAssumption
      DEF OrderInv, SafetyInv, TypeInv, TypeOK, DrainInv, OneStream, AllCompleted, NonEmpty,
          CommInv, ControlInv, InOp, goto, OpOver, Threads, Works,
          workVars, queueVars, commVars, captureVars, historyVars
  <1>1. CASE UNCHANGED vars
    BY <1>1 DEF vars
  <1>2. ASSUME NEW w \in Works, GpuStart(w)
        PROVE  DrainInv'
    BY <1>2 DEF GpuStart
  <1>3. ASSUME NEW w \in Works, GpuFinish(w)
        PROVE  DrainInv'
    <2>1. \A v \in Works : gpu'[v] = "captured" <=> gpu[v] = "captured"
      BY <1>3 DEF GpuFinish
    <2>2. UNCHANGED <<status, place, issued, queue, todo, last, pc, comm>>
      BY <1>3 DEF GpuFinish
    <2>3. 1 .. issued \subseteq Works
      OBVIOUS
    <2>4. OneStream' => OneStream
      <3> SUFFICES ASSUME OneStream', NEW v \in 1 .. issued, NEW x \in 1 .. issued,
                          "captured" \notin {gpu[v], gpu[x]}
                   PROVE  place[v] = place[x]
        OBVIOUS
      <3>1. "captured" \notin {gpu'[v], gpu'[x]}
        BY <2>1, <2>3
      <3> QED
        BY <2>2, <3>1
    <2>5. AllCompleted => AllCompleted'
      BY <2>1, <2>2, <2>3
    <2> HIDE DEF OneStream, AllCompleted
    <2> QED
      BY <2>2, <2>4, <2>5
  <1>4. ASSUME NEW w \in Works, DeadlinePasses(w)
        PROVE  DrainInv'
    BY <1>4 DEF DeadlinePasses
  <1>5. ASSUME NEW t \in Threads, NEW s \in Streams, CheckHead(t, s)
        PROVE  DrainInv'
    <2> DEFINE h == Head(queue[s])
    <2>1. queue[s] # << >> /\ h \in Works /\ place[h] = s
      BY <1>5, HeadFacts DEF CheckHead
    <2>2. UNCHANGED <<gpu, place, issued, pc, comm, initState>>
      BY <1>5 DEF CheckHead
    <2>3. AllCompleted => AllCompleted'
      <3> SUFFICES ASSUME AllCompleted, NEW v \in 1 .. issued, gpu[v] # "captured"
                   PROVE  status'[v] = "COMPLETED"
        BY <2>2
      <3>1. v \in Works /\ status[v] = "COMPLETED"
        OBVIOUS
      <3> QED
        BY <3>1, <1>5, SettledStays DEF Terminal
    <2>4. ASSUME OneStream, pc["user"] = "drain", last'["user"] = "COMPLETED",
                 NEW x \in Streams, queue'[x] # << >>
          PROVE  x \in todo'
      <3>1. t = "user"
        BY <1>5, <2>4 DEF CheckHead
      <3>2. queue[x] # << >>
        BY <1>5, <2>1, <2>4 DEF CheckHead
      <3>3. x = s
        BY <2>1, <2>4, <3>2, OneQueue
      <3>4. PICK st \in CheckStatus(h) :
              /\ last' = [last EXCEPT ![t] = st]
              /\ todo' = IF StopsScan(st) THEN {}
                         ELSE IF Pops(st) /\ queue'[s] # << >> THEN todo
                         ELSE todo \ {s}
        BY <1>5 DEF CheckHead
      <3>5. st = "COMPLETED"
        BY <2>4, <3>1, <3>4
      <3> QED
        BY <1>5, <2>4, <3>3, <3>4, <3>5 DEF CheckHead, StopsScan, Pops, Failing
    <2>5. pc["user"] # "settle"
      BY <2>1 DEF KeptInv, Cleared
    <2>6. OneStream' = OneStream
      BY <2>2
    <2> HIDE DEF OneStream, AllCompleted, CommInv, ControlInv
    <2> QED
      BY <2>2, <2>3, <2>4, <2>5, <2>6
  <1>6. ASSUME NEW t \in Threads, GcLock(t)
        PROVE  DrainInv'
    BY <1>6 DEF GcLock, BeginScan
  <1>7. ASSUME NEW t \in Threads, GcUnlock(t)
        PROVE  DrainInv'
    BY <1>7 DEF GcUnlock
  <1>8. ASSUME NEW t \in Threads, StoreCommState(t)
        PROVE  DrainInv'
    BY <1>8 DEF StoreCommState
  <1>9. CASE WatchdogWake
    BY <1>9 DEF WatchdogWake
  <1>10. CASE WatchdogTest
    BY <1>10 DEF WatchdogTest
  <1>11. CASE InitComm \/ InitFails
    BY <1>11 DEF InitComm, InitFails
  <1>12. CASE CallOp
    BY <1>12 DEF CallOp
  <1>13. CASE DecideTimeout \/ DecideError
    BY <1>13 DEF DecideTimeout, DecideError, AbortNcclComm
  <1>14. ASSUME NEW c \in UserStreams, NEW a \in OpModes, OpIssue(c, a)
        PROVE  DrainInv'
    BY <1>14 DEF OpIssue, OperationStream
  <1>15. CASE OpFails
    BY <1>15 DEF OpFails
  <1>16. CASE Enqueue
    BY <1>16 DEF Enqueue
  <1>17. CASE CapturedOp
    BY <1>17 DEF CapturedOp
  <1>18. ASSUME NEW w \in Works, NEW c \in UserStreams, WorkWait(w, c)
        PROVE  DrainInv'
    BY <1>18 DEF WorkWait
  <1>19. CASE CaptureBegin
    BY <1>19 DEF CaptureBegin
  <1>20. CASE CaptureEnd
    BY <1>20 DEF CaptureEnd
  <1>21. CASE FinalizeBegin
    BY <1>21 DEF FinalizeBegin
  <1>22. CASE FinalizeJoin
    BY <1>22 DEF FinalizeJoin, BeginScan
  <1>23. CASE FinalizeRescan
    BY <1>23 DEF FinalizeRescan, BeginScan
  <1>24. CASE FinalizeClear
    <2>1. UNCHANGED <<gpu, place, issued, status, last, comm>> /\ pc'["user"] = "settle"
      BY <1>24 DEF FinalizeClear
    <2>2. ASSUME OneStream, last["user"] = "COMPLETED" PROVE AllCompleted
      <3>1. \A s \in Streams : queue[s] = << >>
        BY <1>24, <2>2 DEF FinalizeClear
      <3>2. ~Cleared /\ pc["user"] # "enqueue"
        BY <1>24 DEF FinalizeClear, Cleared, Returned
      <3> SUFFICES ASSUME NEW v \in 1 .. issued, gpu[v] # "captured"
                   PROVE  status[v] = "COMPLETED"
        OBVIOUS
      <3>3. place[v] \in Streams /\ Len(queue[place[v]]) = 0
        BY <3>1
      <3>4. ~Queued(v)
        BY <3>3 DEF Queued
      <3> QED
        BY <3>2, <3>4 DEF KeptInv
    <2>3. last["user"] \in Failing \/ last["user"] = "COMPLETED"
      BY <1>24 DEF FinalizeClear, Terminal
    <2>4. AllCompleted => AllCompleted'
      BY <2>1
    <2>5. CASE last["user"] \in Failing
      BY <2>1, <2>4, <2>5 DEF Failing
    <2>6. CASE last["user"] = "COMPLETED"
      <3>1. OneStream => AllCompleted'
        BY <2>2, <2>4, <2>6
      <3> QED
        BY <2>1, <2>6, <3>1
    <2> QED
      BY <2>3, <2>5, <2>6
  <1>25. CASE FinalizeSettle
    BY <1>25 DEF FinalizeSettle, AbortNcclComm
  <1> QED
    BY <1>1, <1>2, <1>3, <1>4, <1>5, <1>6, <1>7, <1>8, <1>9,
       <1>10, <1>11, <1>12, <1>13, <1>14, <1>15, <1>16, <1>17, <1>18,
       <1>19, <1>20, <1>21, <1>22, <1>23, <1>24, <1>25
    DEF Next, UserStep, WatchdogStep, DeviceStep, Terminated, Threads

\* However the two threads' collections interleave, finalize returns normally, and
\* destroys the communicator, only after every work has ended, if all works were on one
\* stream: the status its loop stops at is then the status of everything queued.
THEOREM OneStreamDrains == Spec => []FinalizeDrainsOneStream
  <1>1. Init => QueuedRuns /\ DrainInv
    BY DEF Init, QueuedRuns, DrainInv
  <1>2. OrderInv /\ QueuedRuns /\ DrainInv /\ [Next]_vars => (QueuedRuns /\ DrainInv)'
    BY DrainStep, QueuedRunsStep DEF OrderInv, SafetyInv
  <1>3. OrderInv /\ QueuedRuns /\ DrainInv => FinalizeDrainsOneStream
    <2> SUFFICES ASSUME OrderInv, DrainInv, OneStream, comm = "destroyed", NEW w \in Works
                 PROVE  gpu[w] \in {"none", "captured", "done"}
      BY DEF FinalizeDrainsOneStream, FinalizeDrains, OneStream
    <2>1. issued \in 0 .. MaxWork
      BY DEF OrderInv, SafetyInv, TypeInv, TypeOK
    <2>2. CASE w > issued
      BY <2>2 DEF OrderInv, DoneInv
    <2>3. CASE w \in 1 .. issued
      BY <2>3 DEF OrderInv, DoneInv, DrainInv, AllCompleted
    <2> QED
      BY <2>1, <2>2, <2>3, ConstantsAssumption DEF Works
  <1> QED
    BY <1>1, <1>2, <1>3, OrderInvariant, PTL DEF Spec

\* Works are issued on the internal stream.
Asynchronous == \A w \in Works : place[w] = Internal

LEMMA AsynchronousStep ==
    ASSUME OpModes \subseteq {TRUE}, TypeInv, Asynchronous, [Next]_vars
    PROVE  Asynchronous'
  <1>1. ASSUME NEW c \in UserStreams, NEW a \in OpModes, OpIssue(c, a)
        PROVE  Asynchronous'
    BY <1>1 DEF OpIssue, OperationStream, Asynchronous, TypeInv, TypeOK
  <1>2. CASE UNCHANGED place
    BY <1>2 DEF Asynchronous
  <1> QED
    BY <1>1, <1>2 DEF Next, UserStep, WatchdogStep, DeviceStep, Terminated, GpuStart, GpuFinish,
        DeadlinePasses, CheckHead, GcLock, GcUnlock, StoreCommState, WatchdogWake, WatchdogTest,
        InitComm, InitFails, CallOp, DecideTimeout, DecideError, OpFails, Enqueue, CapturedOp, WorkWait, CaptureBegin,
        CaptureEnd, FinalizeBegin, FinalizeJoin, FinalizeRescan, FinalizeClear, FinalizeSettle,
        vars, workVars

\* A program that only issues asynchronous operations is such a one: they share the
\* internal stream, whichever streams the program makes current.
THEOREM AsyncFinalizeDrains ==
    ASSUME OpModes \subseteq {TRUE}
    PROVE  Spec => []FinalizeDrains
  <1>1. Init => Asynchronous
    BY DEF Init, Asynchronous
  <1>2. OrderInv /\ Asynchronous /\ [Next]_vars => Asynchronous'
    BY AsynchronousStep DEF OrderInv, SafetyInv
  <1>3. OrderInv /\ Asynchronous /\ FinalizeDrainsOneStream => FinalizeDrains
    <2> SUFFICES ASSUME OrderInv, Asynchronous, FinalizeDrainsOneStream
                 PROVE  FinalizeDrains
      OBVIOUS
    <2>1. 1 .. issued \subseteq Works
      BY ConstantsAssumption DEF OrderInv, SafetyInv, TypeInv, TypeOK, Works
    <2> QED
      BY <2>1 DEF Asynchronous, FinalizeDrainsOneStream
  <1> QED
    BY <1>1, <1>2, <1>3, OrderInvariant, OneStreamDrains, PTL DEF Spec

-----------------------------------------------------------------------------
(* What the contract needs beyond OrderInv: a failed work was once issued,  *)
(* and finalize has met every failure by the time it looks at its status.   *)

RanInv == \A w \in Works : status[w] \in Failing => gpu[w] \notin {"none", "captured"}

ToldInv ==
    /\ pc["user"] = "drain" =>
           \/ last["user"] \in Failing
           \/ \A w \in Works : status[w] \in Failing => place[w] \in todo
    /\ pc["user"] = "settle" =>
           \/ last["user"] \in Failing
           \/ \A w \in Works : status[w] \notin Failing

ContractInv == OrderInv /\ RanInv /\ ToldInv

\* What checkStatus can find of a work that was settled, or is not.
LEMMA CheckStatusOf ==
    ASSUME NEW w \in Works, NEW st \in CheckStatus(w)
    PROVE  /\ status[w] \in Terminal => st = status[w]
           /\ status[w] \notin Terminal /\ st \in Terminal => gpu[w] \notin {"none", "captured"}
  BY DEF CheckStatus, Observed, Terminal, Failing

\* The changes of one round of the inner loop.
LEMMA RoundFacts ==
    ASSUME OrderInv, NEW t \in Threads, NEW s \in Streams, CheckHead(t, s)
    PROVE  /\ queue[s] # << >> /\ Head(queue[s]) \in Works
           /\ Head(queue[s]) <= issued /\ place[Head(queue[s])] = s
           /\ \E st \in CheckStatus(Head(queue[s])) :
                  /\ status' = [status EXCEPT ![Head(queue[s])] = st]
                  /\ last' = [last EXCEPT ![t] = st]
                  /\ st \in Failing => todo' = {}
                  /\ todo' = todo \/ todo' = todo \ {s} \/ todo' = {}
                  /\ st \notin Failing => todo \ {s} \subseteq todo'
           /\ UNCHANGED <<gpu, place, issued, pc, comm, initState, historyVars>>
  <1> DEFINE h == Head(queue[s])
  <1>1. /\ s \in todo /\ queue[s] # << >>
        /\ UNCHANGED <<gpu, place, issued, pc, comm, initState, historyVars>>
    BY DEF CheckHead, OrderInv, SafetyInv, TypeInv, workVars, queueVars, commVars, historyVars
  <1>2. h \in Works /\ h <= issued /\ place[h] = s
    BY <1>1, HeadFacts DEF OrderInv, SafetyInv
  <1>3. PICK st \in CheckStatus(h) :
            /\ status' = [status EXCEPT ![h] = st]
            /\ last' = [last EXCEPT ![t] = st]
            /\ todo' = IF StopsScan(st) THEN {}
                       ELSE IF Pops(st) /\ queue'[s] # << >> THEN todo
                       ELSE todo \ {s}
    BY DEF CheckHead
  <1>4. /\ st \in Failing => todo' = {}
        /\ todo' = todo \/ todo' = todo \ {s} \/ todo' = {}
        /\ st \notin Failing => todo \ {s} \subseteq todo'
    BY <1>3 DEF StopsScan
  <1> QED
    BY <1>1, <1>2, <1>3, <1>4

LEMMA RanStep ==
    ASSUME OrderInv, RanInv, [Next]_vars
    PROVE  RanInv'
  <1> USE ConstantsAssumption DEF RanInv, Works, goto, workVars, queueVars, commVars, captureVars, historyVars
  <1>1. CASE UNCHANGED vars
    BY <1>1 DEF vars
  <1>2. ASSUME NEW w \in Works, GpuStart(w) \/ GpuFinish(w) \/ DeadlinePasses(w)
        PROVE  RanInv'
    <2>1. status' = status /\ \A v \in Works : gpu'[v] = gpu[v] \/ gpu'[v] \in {"running", "done", "failed"}
      BY <1>2 DEF GpuStart, GpuFinish, DeadlinePasses, OrderInv, SafetyInv, TypeInv, TypeOK
    <2> QED
      BY <2>1
  <1>3. ASSUME NEW t \in Threads, NEW s \in Streams, CheckHead(t, s)
        PROVE  RanInv'
    <2> DEFINE h == Head(queue[s])
    <2>1. h \in Works /\ gpu' = gpu
      BY <1>3, RoundFacts
    <2>2. PICK st \in CheckStatus(h) : status' = [status EXCEPT ![h] = st]
      BY <1>3, RoundFacts
    <2>3. st \in Failing => gpu[h] \notin {"none", "captured"}
      BY <2>1, <2>2, CheckStatusOf DEF Terminal, Failing
    <2>4. status \in [Works -> Status]
      BY DEF OrderInv, SafetyInv, TypeInv, TypeOK
    <2> HIDE DEF h
    <2> QED
      BY <2>1, <2>2, <2>3, <2>4
  <1>4. ASSUME NEW c \in UserStreams, NEW a \in OpModes, OpIssue(c, a)
        PROVE  RanInv'
    BY <1>4 DEF OpIssue, OrderInv, SafetyInv, TypeInv, TypeOK
  <1>5. CASE CapturedOp
    <2>1. \A w \in Works : w > issued => gpu[w] = "none"
      BY DEF OrderInv, DoneInv
    <2>2. issued + 1 \in Works /\ issued + 1 > issued /\ gpu \in [Works -> {"none", "queued", "running", "done", "failed", "captured"}]
      BY <1>5 DEF CapturedOp, OrderInv, SafetyInv, TypeInv, TypeOK
    <2>3. status[issued + 1] \notin Failing
      BY <2>1, <2>2
    <2> QED
      BY <1>5, <2>2, <2>3 DEF CapturedOp
  <1>6. ASSUME NEW t \in Threads, GcLock(t) \/ GcUnlock(t) \/ StoreCommState(t)
        PROVE  RanInv'
    BY <1>6 DEF GcLock, GcUnlock, StoreCommState
  <1>7. CASE \/ WatchdogWake \/ WatchdogTest \/ InitComm \/ InitFails \/ CallOp \/ DecideTimeout
             \/ DecideError \/ OpFails \/ Enqueue
    BY <1>7 DEF WatchdogWake, WatchdogTest, InitComm, InitFails, CallOp, DecideTimeout,
                DecideError, OpFails, Enqueue
  <1>8. ASSUME NEW w \in Works, NEW c \in UserStreams, WorkWait(w, c)
        PROVE  RanInv'
    BY <1>8 DEF WorkWait
  <1>9. CASE \/ CaptureBegin \/ CaptureEnd \/ FinalizeBegin \/ FinalizeJoin \/ FinalizeRescan
             \/ FinalizeClear \/ FinalizeSettle
    BY <1>9 DEF CaptureBegin, CaptureEnd, FinalizeBegin, FinalizeJoin, FinalizeRescan,
                FinalizeClear, FinalizeSettle
  <1> QED
    BY <1>1, <1>2, <1>3, <1>4, <1>5, <1>6, <1>7, <1>8, <1>9
    DEF Next, UserStep, WatchdogStep, DeviceStep, Terminated, Threads

LEMMA ToldStep ==
    ASSUME OrderInv, ToldInv, [Next]_vars
    PROVE  ToldInv'
  <1> USE ConstantsAssumption
      DEF ToldInv, Threads, goto, workVars, queueVars, commVars, captureVars, historyVars
  <1>0. /\ pc \in [Threads -> PcUser \cup PcWatchdog] /\ place \in [Works -> Streams]
        /\ last \in [Threads -> Status] /\ status \in [Works -> Status] /\ todo \subseteq Streams
    BY DEF OrderInv, SafetyInv, TypeInv, TypeOK
  <1>1. CASE UNCHANGED vars
    BY <1>1 DEF vars
  <1>2. ASSUME NEW w \in Works, GpuStart(w) \/ GpuFinish(w) \/ DeadlinePasses(w)
        PROVE  ToldInv'
    BY <1>2 DEF GpuStart, GpuFinish, DeadlinePasses
  <1>3. ASSUME NEW t \in Threads, NEW s \in Streams, CheckHead(t, s)
        PROVE  ToldInv'
    <2> DEFINE h == Head(queue[s])
    <2>1. /\ queue[s] # << >> /\ h \in Works /\ place[h] = s
          /\ UNCHANGED <<place, pc>>
      BY <1>3, RoundFacts
    <2>2. PICK st \in CheckStatus(h) :
              /\ status' = [status EXCEPT ![h] = st]
              /\ last' = [last EXCEPT ![t] = st]
              /\ st \notin Failing => todo \ {s} \subseteq todo'
      BY <1>3, RoundFacts
    <2>3. ~Cleared
      BY <2>1 DEF OrderInv, KeptInv
    <2>4. pc["user"] # "settle"
      BY <2>3 DEF Cleared
    <2>5. ASSUME pc["user"] = "drain" PROVE t = "user"
      BY <1>3, <2>5 DEF CheckHead, OrderInv, SafetyInv, ControlInv
    <2>6. ASSUME pc["user"] = "drain", st \in Failing PROVE last'["user"] \in Failing
      BY <1>0, <2>2, <2>5, <2>6
    <2>7. ASSUME pc["user"] = "drain", st \notin Failing, NEW w \in Works, status'[w] \in Failing
          PROVE  place'[w] \in todo'
      <3>1. w # h /\ status[w] \in Failing
        BY <1>0, <2>1, <2>2, <2>7
      <3>2. Head(queue[place[w]]) = w
        BY <2>3, <3>1 DEF OrderInv, SafetyInv, FailureStaysAtHead, Cleared
      <3>3. place[w] # s
        BY <3>1, <3>2
      <3>4. last["user"] \notin Failing
        <4>1. todo # {}
          BY <1>3 DEF CheckHead
        <4>2. mutex = "user"
          BY <1>3, <2>5, <2>7 DEF CheckHead
        <4> QED
          BY <4>1, <4>2 DEF OrderInv, SafetyInv, ControlInv
      <3>5. place[w] \in todo
        BY <2>7, <3>1, <3>4
      <3> QED
        BY <2>1, <2>2, <2>7, <3>3, <3>5
    <2> HIDE DEF h
    <2> QED
      BY <2>1, <2>4, <2>6, <2>7
  <1>4. ASSUME NEW t \in Threads, GcLock(t) \/ GcUnlock(t) \/ StoreCommState(t)
        PROVE  ToldInv'
    <2>1. pc["user"] \notin {"drain", "settle"} \/ t # "user"
      BY <1>4 DEF GcLock, GcUnlock, StoreCommState
    <2>2. pc'["user"] \notin {"drain", "settle"} \/ (t # "user" /\ pc'["user"] = pc["user"])
      BY <1>0, <1>4 DEF GcLock, GcUnlock, StoreCommState
    <2>3. UNCHANGED <<status, place>>
      BY <1>4 DEF GcLock, GcUnlock, StoreCommState
    <2>4. ASSUME t # "user", pc["user"] = "drain" PROVE UNCHANGED <<todo, last>> \/ (last'["user"] = last["user"] /\ todo' = todo)
      BY <1>0, <1>4, <2>4 DEF GcLock, GcUnlock, StoreCommState, OrderInv, SafetyInv, ControlInv
    <2>5. t # "user" => last'["user"] = last["user"]
      BY <1>0, <1>4 DEF GcLock, GcUnlock, StoreCommState, BeginScan
    <2> QED
      BY <2>1, <2>2, <2>3, <2>4, <2>5
  <1>5. CASE WatchdogWake \/ WatchdogTest \/ InitComm \/ InitFails
    BY <1>0, <1>5 DEF WatchdogWake, WatchdogTest, InitComm, InitFails
  <1>6. CASE CallOp \/ DecideTimeout \/ DecideError \/ OpFails \/ Enqueue
    BY <1>0, <1>6 DEF CallOp, DecideTimeout, DecideError, OpOver, OpFails, Enqueue
  <1>7. ASSUME NEW c \in UserStreams, NEW a \in OpModes, OpIssue(c, a)
        PROVE  ToldInv'
    BY <1>0, <1>7 DEF OpIssue
  <1>8. CASE CapturedOp \/ CaptureBegin \/ CaptureEnd
    BY <1>8 DEF CapturedOp, CaptureBegin, CaptureEnd
  <1>9. ASSUME NEW w \in Works, NEW c \in UserStreams, WorkWait(w, c)
        PROVE  ToldInv'
    BY <1>9 DEF WorkWait
  <1>10. CASE FinalizeBegin \/ FinalizeSettle
    BY <1>0, <1>10 DEF FinalizeBegin, FinalizeSettle
  <1>11. CASE FinalizeJoin \/ FinalizeRescan
    <2>1. /\ pc'["user"] = "drain" /\ UNCHANGED <<status, place, queue>> /\ todo' = NonEmpty
          /\ ~Cleared
      BY <1>0, <1>11 DEF FinalizeJoin, FinalizeRescan, BeginScan, Cleared, Returned
    <2>2. ASSUME NEW w \in Works, status[w] \in Failing PROVE place[w] \in NonEmpty
      BY <1>0, <2>1, <2>2 DEF OrderInv, SafetyInv, FailureStaysAtHead, Cleared, NonEmpty
    <2> QED
      BY <2>1, <2>2
  <1>12. CASE FinalizeClear
    BY <1>0, <1>12 DEF FinalizeClear
  <1> QED
    BY <1>1, <1>2, <1>3, <1>4, <1>5, <1>6, <1>7, <1>8, <1>9, <1>10, <1>11, <1>12
    DEF Next, UserStep, WatchdogStep, DeviceStep, Terminated

-----------------------------------------------------------------------------
(* The refinement.                                                          *)

Outcomes == [w \in Works |-> OutcomeOf(w)]

\* A work that the contract calls failed is one whose status is a failure.
LEMMA FailedOf ==
    ASSUME RanInv
    PROVE  /\ Contract!Errored = {w \in Works : status[w] = "ERROR"}
           /\ Contract!TimedOut = {w \in Works : status[w] = "TIMEDOUT"}
           /\ Contract!Failed = {w \in Works : status[w] \in Failing}
  <1>1. Contract!Errored = {w \in Works : status[w] = "ERROR"}
    BY DEF Contract!Errored, Contract!Works, Works, OutcomeOf, RanInv, Failing
  <1>2. Contract!TimedOut = {w \in Works : status[w] = "TIMEDOUT"}
    BY DEF Contract!TimedOut, Contract!Works, Works, OutcomeOf, RanInv, Failing
  <1> QED
    BY <1>1, <1>2 DEF Contract!Failed, Failing

\* A step that settles no work and issues none leaves the outcomes.
LEMMA SameOutcomes ==
    ASSUME status' = status,
           \A w \in Works : gpu'[w] \in {"none", "captured"} <=> gpu[w] \in {"none", "captured"}
    PROVE  Outcomes' = Outcomes
  BY DEF Outcomes, OutcomeOf

\* A step that changes nothing the contract sees.
LEMMA Unseen ==
    ASSUME Outcomes' = Outcomes, PhaseOf' = PhaseOf, CallingOf' = CallingOf,
           UNCHANGED <<comm, place>>
    PROVE  UNCHANGED Contract!vars
  BY DEF Contract!vars, Outcomes

LEMMA InitContract == Init => Contract!Init
  BY ConstantsAssumption
     DEF Init, Contract!Init, Contract!Works, Works, Streams, PhaseOf, CallingOf, InOp, OutcomeOf

\* Until finalize clears the queues, what precedes the head of a queue on its stream
\* has completed.
LEMMA BeforeHead ==
    ASSUME OrderInv, NEW s \in Streams, queue[s] # << >>,
           NEW v \in Works, v < Head(queue[s]), place[v] = s, gpu[v] # "captured"
    PROVE  status[v] = "COMPLETED"
  <1> DEFINE h == Head(queue[s])
  <1>1. h \in Works /\ h <= issued /\ place[h] = s
    BY HeadFacts DEF OrderInv, SafetyInv
  <1>2. queue[s] \in Seq(Works) /\ issued \in 0 .. MaxWork
    BY DEF OrderInv, SafetyInv, TypeInv, TypeOK
  <1>3. h = queue[s][1] /\ Len(queue[s]) \in Nat \ {0} /\ 1 \in 1 .. Len(queue[s])
    BY <1>2, TailFacts
  <1>4. ~Cleared
    BY DEF OrderInv, KeptInv
  <1>5. v \in 1 .. issued
    BY <1>1, <1>2, ConstantsAssumption DEF Works
  <1>6. ~Queued(v)
    <2> SUFFICES ASSUME NEW i \in 1 .. Len(queue[s]), queue[s][i] = v PROVE FALSE
      BY DEF Queued
    <2>1. CASE i = 1
      BY <1>1, <1>3, <2>1, ConstantsAssumption DEF Works
    <2>2. CASE i # 1
      <3>1. 1 < i
        BY <1>3, <2>2
      <3>2. queue[s][1] < queue[s][i]
        BY <1>3, <3>1 DEF OrderInv, SortedInv
      <3> QED
        BY <1>1, <1>3, <3>2, ConstantsAssumption DEF Works
    <2> QED
      BY <2>1, <2>2
  <1>7. ~(pc["user"] = "enqueue" /\ v = issued)
    <2> SUFFICES ASSUME pc["user"] = "enqueue", v = issued PROVE FALSE
      OBVIOUS
    <2>1. h < issued
      BY <1>3 DEF OrderInv, SafetyInv, QueueInv
    <2> QED
      BY <1>1, <1>2, <2>1, ConstantsAssumption DEF Works
  <1> QED
    BY <1>4, <1>5, <1>6, <1>7 DEF OrderInv, KeptInv

\* One round of a collection settles the head of a queue, or nothing.
LEMMA RoundStep ==
    ASSUME ContractInv, NEW t \in Threads, NEW s \in Streams, CheckHead(t, s)
    PROVE  (\E w \in Works : Contract!Settle(w)) \/ UNCHANGED Contract!vars
  <1>0. PICK h \in Works : h = Head(queue[s])
    BY RoundFacts DEF ContractInv
  <1>1. /\ queue[s] # << >> /\ place[h] = s
        /\ UNCHANGED <<gpu, place, pc, comm, initState, historyVars>>
    BY <1>0, RoundFacts DEF ContractInv
  <1>2. PICK st \in CheckStatus(h) : status' = [status EXCEPT ![h] = st]
    BY <1>0, RoundFacts DEF ContractInv
  <1>3. UNCHANGED <<comm, place>> /\ PhaseOf' = PhaseOf /\ CallingOf' = CallingOf
    BY <1>1 DEF PhaseOf, CallingOf, InOp, historyVars
  <1>4. status \in [Works -> Status] /\ place \in [Works -> Streams]
    BY DEF ContractInv, OrderInv, SafetyInv, TypeInv, TypeOK
  <1>5. /\ status[h] \in Terminal => st = status[h]
        /\ status[h] \notin Terminal /\ st \in Terminal => gpu[h] \notin {"none", "captured"}
    BY <1>1, <1>2, CheckStatusOf
  <1>6. status'[h] = st /\ \A v \in Works : v # h => status'[v] = status[v]
    BY <1>2, <1>4
  <1>7. \A v \in Works : v # h => OutcomeOf(v)' = OutcomeOf(v)
    BY <1>1, <1>6 DEF OutcomeOf
  <1>8. CASE status[h] \in Terminal \/ st \notin Terminal
    <2>1. OutcomeOf(h)' = OutcomeOf(h)
      BY <1>1, <1>5, <1>6, <1>8 DEF OutcomeOf, Terminal, Failing
    <2>2. Outcomes' = Outcomes
      BY <1>7, <2>1 DEF Outcomes
    <2> QED
      BY <1>3, <2>2, Unseen
  <1>9. CASE status[h] \notin Terminal /\ st \in Terminal
    <2>1. OutcomeOf(h) = "pending"
      BY <1>5, <1>9 DEF OutcomeOf, Terminal, Failing
    <2>2. OutcomeOf(h)' \in {"completed", "errored", "timedout"}
      BY <1>1, <1>5, <1>6, <1>9 DEF OutcomeOf, Terminal, Failing
    <2>3. Outcomes' = [Outcomes EXCEPT ![h] = OutcomeOf(h)']
      BY <1>7 DEF Outcomes
    <2>4. ASSUME NEW v \in Works, v < h, place[v] = place[h]
          PROVE  OutcomeOf(v) \in {"none", "completed"}
      <3>1. gpu[v] # "captured" => status[v] = "COMPLETED"
        BY <1>0, <1>1, <2>4, BeforeHead DEF ContractInv
      <3> QED
        BY <3>1 DEF OutcomeOf
    <2>5. Outcomes[h] = "pending" /\ \A v \in Works : v < h /\ place[v] = place[h]
              => Outcomes[v] \in {"none", "completed"}
      BY <2>1, <2>4 DEF Outcomes
    <2>6. Contract!Settle(h)
      BY <1>3, <2>2, <2>3, <2>5 DEF Contract!Settle, Contract!Works, Works, Outcomes
    <2> QED
      BY <2>6
  <1> QED
    BY <1>8, <1>9

\* The user thread's steps on the way of an operation.
LEMMA OperationStep ==
    ASSUME ContractInv,
           \/ CallOp \/ DecideTimeout \/ DecideError \/ OpFails
           \/ \E c \in UserStreams, a \in OpModes : OpIssue(c, a)
    PROVE  Contract!Next \/ UNCHANGED Contract!vars
  <1> USE ConstantsAssumption
      DEF goto, OpOver, workVars, queueVars, commVars, captureVars, historyVars
  <1>0. /\ pc \in [Threads -> PcUser \cup PcWatchdog] /\ sawFailure \in BOOLEAN
        /\ overwritten \in BOOLEAN
        /\ status \in [Works -> Status] /\ place \in [Works -> Streams] /\ issued \in Nat
        /\ gpu \in [Works -> {"none", "queued", "running", "done", "failed", "captured"}]
        /\ "user" \in Threads
        /\ InOp => issued + 1 \in Works
        /\ InOp => initState = "INITIALIZED"
    BY DEF ContractInv, OrderInv, SafetyInv, TypeInv, TypeOK, ControlInv, Threads, Works, InOp
  <1>1. CASE CallOp
    <2>1. UNCHANGED <<comm, place>> /\ Outcomes' = Outcomes /\ PhaseOf' = PhaseOf
      BY <1>0, <1>1, SameOutcomes DEF CallOp, PhaseOf
    <2>2. PhaseOf = "open" /\ CallingOf = "no"
      BY <1>1 DEF CallOp, PhaseOf, CallingOf, InOp
    <2>3. CallingOf' = IF {w \in Works : status[w] \in Failing} = {} THEN "clean" ELSE "tainted"
      BY <1>0, <1>1 DEF CallOp, CallingOf, InOp
    <2>4. Contract!Call
      BY <2>1, <2>2, <2>3, FailedOf DEF Contract!Call, ContractInv, Outcomes
    <2> QED
      BY <2>4 DEF Contract!Next
  <1>2. CASE OpFails
    <2>1. UNCHANGED <<comm, place>> /\ Outcomes' = Outcomes /\ PhaseOf' = PhaseOf
      BY <1>0, <1>2, SameOutcomes DEF OpFails, PhaseOf
    <2>2. CallingOf # "no" /\ CallingOf' = "no"
      BY <1>0, <1>2 DEF OpFails, CallingOf, InOp
    <2>3. Contract!Refuse
      BY <2>1, <2>2 DEF Contract!Refuse, Outcomes
    <2> QED
      BY <2>3 DEF Contract!Next
  <1>3. CASE DecideTimeout \/ DecideError
    <2>1. UNCHANGED <<place, initState>> /\ Outcomes' = Outcomes /\ PhaseOf' = PhaseOf
      BY <1>0, <1>3, SameOutcomes DEF DecideTimeout, DecideError, PhaseOf
    <2>2. CASE pc'["user"] \in {"iserror", "issue"}
      <3>1. UNCHANGED <<comm, historyVars>>
        BY <1>0, <1>3, <2>2 DEF DecideTimeout, DecideError
      <3>2. CallingOf' = CallingOf
        BY <1>3, <2>2, <3>1 DEF DecideTimeout, DecideError, CallingOf, InOp
      <3> QED
        BY <2>1, <3>1, <3>2, Unseen
    <2>3. CASE pc'["user"] = "idle"
      <3>1. /\ commState \in {"TIMEOUT", "ERROR"}
            /\ comm' = IF comm = "live" THEN "aborted" ELSE comm
        BY <1>0, <1>3, <2>3 DEF DecideTimeout, DecideError, AbortNcclComm
      <3>2. CallingOf # "no" /\ CallingOf' = "no"
        BY <1>3, <2>3 DEF DecideTimeout, DecideError, CallingOf, InOp
      <3>3. Contract!Failed # {}
        BY <3>1, FailedOf DEF ContractInv, OrderInv, SafetyInv, NoSpuriousAbort
      <3>4. Contract!Abort \/ UNCHANGED comm
        BY <3>1, <3>3 DEF Contract!Abort
      <3>5. Contract!Refuse
        BY <2>1, <3>2, <3>4 DEF Contract!Refuse, Outcomes
      <3> QED
        BY <3>5 DEF Contract!Next
    <2>4. pc'["user"] \in {"iserror", "issue", "idle"}
      BY <1>0, <1>3 DEF DecideTimeout, DecideError
    <2> QED
      BY <2>2, <2>3, <2>4
  <1>4. ASSUME NEW c \in UserStreams, NEW a \in OpModes, OpIssue(c, a)
        PROVE  Contract!Next
    <2>1. PICK w \in Works : w = issued + 1
      BY <1>0, <1>4 DEF OpIssue, InOp
    <2>2. PICK s \in Streams : s = OperationStream(c, a)
      BY DEF OperationStream, Streams
    <2>3. /\ pc["user"] = "issue" /\ pc'["user"] = "enqueue"
          /\ UNCHANGED <<status, comm, initState, sawFailure>>
          /\ gpu' = [gpu EXCEPT ![w] = "queued"] /\ place' = [place EXCEPT ![w] = s]
      BY <1>0, <1>4, <2>1, <2>2 DEF OpIssue
    <2>4. (~sawFailure /\ comm = "live") \/ (sawFailure /\ overwritten)
      BY <1>0, <2>3 DEF ContractInv, OrderInv, SafetyInv, CarryInv, CommInv, InOp
    <2>5. /\ (CallingOf = "clean" /\ comm = "live") \/ CallingOf = "overlooked"
          /\ CallingOf' = "no" /\ PhaseOf' = PhaseOf
      BY <2>3, <2>4 DEF CallingOf, InOp, PhaseOf
    <2>6. \A v \in Works : v >= w => OutcomeOf(v) = "none"
      <3>1. \A v \in Works : v >= w => gpu[v] = "none"
        BY <1>0, <2>1 DEF ContractInv, OrderInv, DoneInv, Works
      <3> QED
        BY <3>1 DEF OutcomeOf
    <2>7. gpu[w] = "none" /\ status[w] \notin Terminal
      <3>1. gpu[w] = "none"
        BY <1>0, <2>1 DEF ContractInv, OrderInv, DoneInv, Works
      <3> QED
        BY <3>1 DEF ContractInv, OrderInv, DoneInv, RanInv, Terminal
    <2>8. Outcomes' = [Outcomes EXCEPT ![w] = "pending"]
      <3>1. OutcomeOf(w)' = "pending"
        BY <1>0, <2>3, <2>7 DEF OutcomeOf, Terminal, Failing
      <3>2. \A v \in Works : v # w => OutcomeOf(v)' = OutcomeOf(v)
        BY <1>0, <2>3 DEF OutcomeOf
      <3> QED
        BY <3>1, <3>2 DEF Outcomes
    <2>9. \A v \in Works : v >= w => Outcomes[v] = "none"
      BY <2>6 DEF Outcomes
    <2>10. Contract!Issue(w, s)
      BY <2>3, <2>5, <2>8, <2>9
      DEF Contract!Issue, Contract!Works, Works, Outcomes
    <2> QED
      BY <2>10 DEF Contract!Next, Contract!Works, Works
  <1> QED
    BY <1>1, <1>2, <1>3, <1>4

\* The steps of finalize.
LEMMA FinalizeStep ==
    ASSUME ContractInv,
           FinalizeBegin \/ FinalizeJoin \/ FinalizeRescan \/ FinalizeClear \/ FinalizeSettle
    PROVE  Contract!Next \/ UNCHANGED Contract!vars
  <1> USE DEF goto, workVars, queueVars, commVars, captureVars, historyVars
  <1>0. pc \in [Threads -> PcUser \cup PcWatchdog] /\ "user" \in Threads
    BY DEF ContractInv, OrderInv, SafetyInv, TypeInv, TypeOK, Threads
  <1>1. UNCHANGED <<place, status, gpu>> /\ Outcomes' = Outcomes
    BY SameOutcomes
    DEF FinalizeBegin, FinalizeJoin, FinalizeRescan, FinalizeClear, FinalizeSettle
  <1>2. ~InOp /\ ~InOp' /\ CallingOf = "no" /\ CallingOf' = "no"
    BY <1>0 DEF FinalizeBegin, FinalizeJoin, FinalizeRescan, FinalizeClear, FinalizeSettle,
                CallingOf, InOp
  <1>3. CASE FinalizeBegin
    <2>1. PhaseOf = "open" /\ PhaseOf' = "closed" /\ comm' = comm
      BY <1>0, <1>3 DEF FinalizeBegin, PhaseOf
    <2>2. Contract!Finalize
      BY <1>1, <1>2, <2>1 DEF Contract!Finalize, Outcomes
    <2> QED
      BY <2>2 DEF Contract!Next
  <1>4. CASE FinalizeJoin \/ FinalizeRescan \/ FinalizeClear
    <2>1. /\ UNCHANGED <<comm, initState>>
          /\ pc["user"] # "thrown" /\ pc'["user"] # "thrown"
      BY <1>0, <1>4 DEF FinalizeJoin, FinalizeRescan, FinalizeClear
    <2>2. PhaseOf' = PhaseOf
      BY <2>1 DEF PhaseOf
    <2> QED
      BY <1>1, <1>2, <2>1, <2>2, Unseen
  <1>5. CASE FinalizeSettle
    <2>1. PhaseOf = "closed" /\ PhaseOf' = "closed"
      BY <1>0, <1>5 DEF FinalizeSettle, PhaseOf, ContractInv, OrderInv, SafetyInv, ControlInv
    <2>2. CASE comm' = comm
      BY <1>1, <1>2, <2>1, <2>2, Unseen
    <2>3. CASE comm' # comm /\ last["user"] \in Failing
      <3>1. comm = "live" /\ comm' = "aborted"
        BY <1>5, <2>3 DEF FinalizeSettle, AbortNcclComm
      <3>2. Contract!Failed # {}
        BY <2>3, FailedOf DEF ContractInv, OrderInv, SafetyInv, CommInv, Threads
      <3>3. Contract!EndFailed
        BY <1>1, <1>2, <2>1, <3>1, <3>2 DEF Contract!EndFailed, Contract!Abort, Outcomes
      <3> QED
        BY <3>3 DEF Contract!Next
    <2>4. CASE comm' # comm /\ last["user"] \notin Failing
      <3>1. comm = "live" /\ comm' = "destroyed"
        BY <1>5, <2>4 DEF FinalizeSettle
      <3>2. Contract!Failed = {}
        BY <1>5, <2>4, FailedOf DEF ContractInv, ToldInv, FinalizeSettle
      <3>3. Contract!EndWell
        BY <1>1, <1>2, <2>1, <3>1, <3>2 DEF Contract!EndWell, Outcomes
      <3> QED
        BY <3>3 DEF Contract!Next
    <2> QED
      BY <2>2, <2>3, <2>4
  <1> QED
    BY <1>3, <1>4, <1>5

\* The watchdog hides an error from the operation that was about to meet it: then
\* one work has failed and another has timed out.
LEMMA OverwriteStep ==
    ASSUME ContractInv, NEW t \in Threads, StoreCommState(t), ~UNCHANGED historyVars
    PROVE  Contract!Next \/ UNCHANGED Contract!vars
  <1> USE DEF goto, workVars, queueVars, commVars, captureVars, historyVars
  <1>0. /\ pc \in [Threads -> PcUser \cup PcWatchdog] /\ "user" \in Threads
        /\ overwritten \in BOOLEAN
        /\ last \in [Threads -> Status]
    BY DEF ContractInv, OrderInv, SafetyInv, TypeInv, TypeOK, Threads
  <1>1. /\ t = "watchdog" /\ pc["user"] = "iserror" /\ commState = "ERROR"
        /\ commState' = "TIMEOUT" /\ overwritten' = TRUE /\ overwritten = FALSE
        /\ UNCHANGED <<status, gpu, comm, place, initState, sawFailure>>
    BY <1>0, Zenon DEF StoreCommState, NoteOverwrite
  <1>2. pc'["user"] = "iserror" /\ last[t] = "TIMEDOUT"
    BY <1>0, <1>1 DEF StoreCommState, StateOf
  <1>3. \E w \in Works : status[w] = "ERROR"
    BY <1>1 DEF ContractInv, OrderInv, SafetyInv, NoSpuriousAbort, StateOf, Failing
  <1>4. \E w \in Works : status[w] = "TIMEDOUT"
    BY <1>0, <1>2 DEF ContractInv, OrderInv, SafetyInv, CommInv, Failing
  <1>5. Outcomes' = Outcomes /\ PhaseOf' = PhaseOf
    BY <1>1, <1>2, SameOutcomes DEF PhaseOf
  <1>6. CASE sawFailure
    <2>1. CallingOf = "tainted" /\ CallingOf' = "overlooked"
      BY <1>1, <1>2, <1>6 DEF CallingOf, InOp
    <2>2. Contract!Overlook
      BY <1>1, <1>3, <1>4, <1>5, <2>1, FailedOf DEF Contract!Overlook, ContractInv, Outcomes
    <2> QED
      BY <2>2 DEF Contract!Next
  <1>7. CASE ~sawFailure
    <2>1. CallingOf' = CallingOf
      BY <1>1, <1>2, <1>7 DEF CallingOf, InOp
    <2> QED
      BY <1>1, <1>5, <2>1, Unseen
  <1> QED
    BY <1>6, <1>7

\* Every step of the communicator is one of the contract, or nothing to it.
LEMMA NextContract ==
    ASSUME ContractInv, [Next]_vars
    PROVE  Contract!Next \/ UNCHANGED Contract!vars
  <1> USE DEF goto, workVars, queueVars, commVars, captureVars, historyVars
  <1>0. /\ pc \in [Threads -> PcUser \cup PcWatchdog] /\ "user" \in Threads
        /\ gpu \in [Works -> {"none", "queued", "running", "done", "failed", "captured"}]
    BY DEF ContractInv, OrderInv, SafetyInv, TypeInv, TypeOK, Threads
  <1>1. CASE UNCHANGED vars
    <2>1. Outcomes' = Outcomes /\ PhaseOf' = PhaseOf /\ CallingOf' = CallingOf
      BY <1>1, SameOutcomes DEF vars, PhaseOf, CallingOf, InOp
    <2> QED
      BY <1>1, <2>1, Unseen DEF vars
  <1>2. ASSUME NEW w \in Works, GpuStart(w) \/ GpuFinish(w) \/ DeadlinePasses(w)
        PROVE  UNCHANGED Contract!vars
    <2>1. /\ UNCHANGED <<status, pc, comm, place, initState, historyVars>>
          /\ \A v \in Works : gpu'[v] \in {"none", "captured"} <=> gpu[v] \in {"none", "captured"}
      BY <1>0, <1>2 DEF GpuStart, GpuFinish, DeadlinePasses
    <2>2. Outcomes' = Outcomes
      BY <2>1, SameOutcomes
    <2>3. PhaseOf' = PhaseOf /\ CallingOf' = CallingOf
      BY <2>1 DEF PhaseOf, CallingOf, InOp
    <2> QED
      BY <2>1, <2>2, <2>3, Unseen
  <1>3. ASSUME NEW t \in Threads, NEW s \in Streams, CheckHead(t, s)
        PROVE  Contract!Next \/ UNCHANGED Contract!vars
    BY <1>3, RoundStep DEF Contract!Next, Contract!Works, Works
  <1>4. ASSUME NEW t \in Threads, GcLock(t) \/ GcUnlock(t) \/ StoreCommState(t)
        PROVE  Contract!Next \/ UNCHANGED Contract!vars
    <2>1. CASE UNCHANGED historyVars
      <3>1. UNCHANGED <<status, gpu, comm, place, initState, historyVars>>
        BY <1>4, <2>1 DEF GcLock, GcUnlock, StoreCommState
      <3>2. (InOp' <=> InOp) /\ (pc'["user"] = "thrown" <=> pc["user"] = "thrown")
        BY <1>0, <1>4 DEF GcLock, GcUnlock, StoreCommState, InOp
      <3>3. Outcomes' = Outcomes
        BY <3>1, SameOutcomes
      <3>4. PhaseOf' = PhaseOf /\ CallingOf' = CallingOf
        BY <3>1, <3>2 DEF PhaseOf, CallingOf
      <3> QED
        BY <3>1, <3>3, <3>4, Unseen
    <2>2. CASE ~UNCHANGED historyVars
      BY <1>4, <2>2, OverwriteStep DEF GcLock, GcUnlock
    <2> QED
      BY <2>1, <2>2
  <1>5. CASE WatchdogWake \/ WatchdogTest
    <2>1. UNCHANGED <<status, gpu, comm, place, initState, historyVars>>
      BY <1>5 DEF WatchdogWake, WatchdogTest
    <2>2. (InOp' <=> InOp) /\ pc'["user"] = pc["user"]
      BY <1>0, <1>5 DEF WatchdogWake, WatchdogTest, InOp
    <2>3. Outcomes' = Outcomes
      BY <2>1, SameOutcomes
    <2>4. PhaseOf' = PhaseOf /\ CallingOf' = CallingOf
      BY <2>1, <2>2 DEF PhaseOf, CallingOf
    <2> QED
      BY <2>1, <2>3, <2>4, Unseen
  <1>6. CASE InitComm \/ InitFails
    <2>1. /\ UNCHANGED <<status, gpu, place, historyVars>> /\ PhaseOf = "new"
          /\ \/ comm' = "live" /\ PhaseOf' = "open"
             \/ comm' \in {"none", "live"} /\ PhaseOf' = "failed"
      BY <1>0, <1>6 DEF InitComm, InitFails, PhaseOf
    <2>2. InOp' <=> InOp
      BY <1>0, <1>6 DEF InitComm, InitFails, InOp
    <2>3. Outcomes' = Outcomes /\ CallingOf' = CallingOf
      BY <2>1, <2>2, SameOutcomes DEF CallingOf
    <2>4. Contract!Open \/ Contract!OpenFails
      BY <2>1, <2>3 DEF Contract!Open, Contract!OpenFails, Outcomes
    <2> QED
      BY <2>4 DEF Contract!Next
  <1>7. CASE \/ CallOp \/ DecideTimeout \/ DecideError \/ OpFails
             \/ \E c \in UserStreams, a \in OpModes : OpIssue(c, a)
    BY <1>7, OperationStep
  <1>8. CASE CapturedOp
    <2>1. UNCHANGED <<status, comm, place, initState, historyVars, pc>>
      BY <1>8 DEF CapturedOp
    <2>2. \A v \in Works : gpu'[v] \in {"none", "captured"} <=> gpu[v] \in {"none", "captured"}
      <3>1. issued + 1 \in Works => gpu[issued + 1] = "none"
        BY ConstantsAssumption
        DEF ContractInv, OrderInv, DoneInv, Works, SafetyInv, TypeInv, TypeOK
      <3> QED
        BY <1>0, <1>8, <3>1 DEF CapturedOp
    <2>3. Outcomes' = Outcomes
      BY <2>1, <2>2, SameOutcomes
    <2>4. PhaseOf' = PhaseOf /\ CallingOf' = CallingOf
      BY <2>1 DEF PhaseOf, CallingOf, InOp
    <2> QED
      BY <2>1, <2>3, <2>4, Unseen
  <1>9. CASE \/ Enqueue \/ CaptureBegin \/ CaptureEnd
             \/ \E w \in Works, c \in UserStreams : WorkWait(w, c)
    <2>1. /\ UNCHANGED <<status, gpu, comm, place, initState>>
          /\ ~InOp /\ ~InOp'
          /\ pc["user"] # "thrown" /\ pc'["user"] # "thrown"
      BY <1>0, <1>9 DEF Enqueue, OpOver, CaptureBegin, CaptureEnd, WorkWait, InOp
    <2>2. Outcomes' = Outcomes
      BY <2>1, SameOutcomes
    <2>3. PhaseOf' = PhaseOf /\ CallingOf' = CallingOf
      BY <2>1 DEF PhaseOf, CallingOf
    <2> QED
      BY <2>1, <2>2, <2>3, Unseen
  <1>10. CASE FinalizeBegin \/ FinalizeJoin \/ FinalizeRescan \/ FinalizeClear \/ FinalizeSettle
    BY <1>10, FinalizeStep
  <1> QED
    BY <1>1, <1>2, <1>3, <1>4, <1>5, <1>6, <1>7, <1>8, <1>9, <1>10
    DEF Next, UserStep, WatchdogStep, DeviceStep, Terminated, Threads

LEMMA InitContractInv == Init => ContractInv
  BY InitOrderInv DEF Init, ContractInv, RanInv, ToldInv, Failing

LEMMA NextContractInv == ContractInv /\ [Next]_vars => ContractInv'
  BY NextOrderInv, RanStep, ToldStep DEF ContractInv

LEMMA ContractInvariant == Spec => []ContractInv
  BY InitContractInv, NextContractInv, PTL DEF Spec

LEMMA BoxContract == ContractInv /\ [Next]_vars => [Contract!Next]_(Contract!vars)
  BY NextContract

\* The threads, the queue and the events keep the communicator's promise to
\* operations called outside a capture, for every
\* set of streams, number of works and value of the options: checkAndAbort..., the
\* watchdog, garbageCollectLocked and finalize implement CommContract.
THEOREM KeepsItsContract == Spec => KeepsContract
  BY InitContract, ContractInvariant, BoxContract, PTL
  DEF Spec, KeepsContract, Contract!Spec

=============================================================================
