---------------------------- MODULE CommContract ----------------------------
(***************************************************************************)
(* What a communicator promises its caller, without threads, queues,       *)
(* events or clocks: works settle in the order of their stream; the first  *)
(* that fails ends the service, since an operation called after it is not  *)
(* given to NCCL, unless two works have failed in different ways and the   *)
(* one's report hides the other's; and finalize ends well only if every    *)
(* failure was told.  Operations called while a graph is captured are      *)
(* outside the contract.                                                   *)
(***************************************************************************)
EXTENDS Naturals

CONSTANTS
    Streams,    \* streams works are issued on
    MaxWork     \* bound: works

Works == 1 .. MaxWork

VARIABLES
    phase,      \* "new", "open", "closed" (finalize was called), or "failed"
                \*   (init threw)
    comm,       \* the NCCL communicator: "none", "live", "aborted" or "destroyed"
    calling,    \* an operation is in progress: "clean" if no work had failed when it
                \*   was called, "tainted" otherwise, "overlooked" if the
                \*   failure then escaped it; "no" if there is none
    outcome,    \* per work: "none", "pending", "completed", "errored" or "timedout"
    lane        \* per work: its stream

vars == <<phase, comm, calling, outcome, lane>>

Init ==
    /\ phase = "new"
    /\ comm = "none"
    /\ calling = "no"
    /\ outcome = [w \in Works |-> "none"]
    /\ lane \in [Works -> Streams]

Errored == {w \in Works : outcome[w] = "errored"}
TimedOut == {w \in Works : outcome[w] = "timedout"}
Failed == Errored \cup TimedOut

Open ==
    /\ phase = "new"
    /\ phase' = "open"
    /\ comm' = "live"
    /\ UNCHANGED <<calling, outcome, lane>>

\* init throws, before or after the NCCL communicator is made.
OpenFails ==
    /\ phase = "new"
    /\ phase' = "failed"
    /\ comm' \in {"none", "live"}
    /\ UNCHANGED <<calling, outcome, lane>>

Call ==
    /\ phase = "open" /\ calling = "no"
    /\ calling' = IF Failed = {} THEN "clean" ELSE "tainted"
    /\ UNCHANGED <<phase, comm, outcome, lane>>

\* The communicator is aborted for a work that has failed.
Abort ==
    /\ comm = "live" /\ Failed # {}
    /\ comm' = "aborted"

\* A timeout is reported over the error that the operation was about to meet.
Overlook ==
    /\ calling = "tainted"
    /\ Errored # {} /\ TimedOut # {}
    /\ calling' = "overlooked"
    /\ UNCHANGED <<phase, comm, outcome, lane>>

\* The operation puts its work on a stream.
Issue(w, s) ==
    /\ (calling = "clean" /\ comm = "live") \/ calling = "overlooked"
    /\ \A v \in Works : v >= w => outcome[v] = "none"
    /\ calling' = "no"
    /\ outcome' = [outcome EXCEPT ![w] = "pending"]
    /\ lane' = [lane EXCEPT ![w] = s]
    /\ UNCHANGED <<phase, comm>>

\* The operation throws.
Refuse ==
    /\ calling # "no"
    /\ calling' = "no"
    /\ Abort \/ UNCHANGED comm
    /\ UNCHANGED <<phase, outcome, lane>>

\* A work settles, after all earlier ones of its stream have completed.
Settle(w) ==
    /\ outcome[w] = "pending"
    /\ \A v \in Works : v < w /\ lane[v] = lane[w] => outcome[v] \in {"none", "completed"}
    /\ \E o \in {"completed", "errored", "timedout"} : outcome' = [outcome EXCEPT ![w] = o]
    /\ UNCHANGED <<phase, comm, calling, lane>>

Finalize ==
    /\ phase = "open" /\ calling = "no"
    /\ phase' = "closed"
    /\ UNCHANGED <<comm, calling, outcome, lane>>

\* finalize throws, and the communicator is aborted, if a work has failed ...
EndFailed ==
    /\ phase = "closed"
    /\ Abort
    /\ UNCHANGED <<phase, calling, outcome, lane>>

\* ... and returns normally only if none has.
EndWell ==
    /\ phase = "closed" /\ comm = "live" /\ Failed = {}
    /\ comm' = "destroyed"
    /\ UNCHANGED <<phase, calling, outcome, lane>>

Next ==
    \/ Open \/ OpenFails \/ Call \/ Overlook \/ Refuse
    \/ \E w \in Works, s \in Streams : Issue(w, s)
    \/ \E w \in Works : Settle(w)
    \/ Finalize \/ EndFailed \/ EndWell

Spec == Init /\ [][Next]_vars
=============================================================================
