--------------------------- MODULE AllocatorHook ---------------------------
(***************************************************************************)
(* The caching-allocator hook of a process: a singleton that registers     *)
(* every segment PyTorch's CUDA allocator obtains with every communicator  *)
(* attached to it, and undoes this when the segment is freed or the        *)
(* communicator goes away.                                                 *)
(*                                                                         *)
(* Allocations come from any thread, in any order with the creation, the   *)
(* abort, the finalization and the destruction of communicators.  Each     *)
(* operation of the hook holds its mutex throughout; what happens to the   *)
(* NCCL communicator next to it does not, and takes steps of its own.      *)
(***************************************************************************)
EXTENDS Naturals

CONSTANTS
    Segments,     \* the addresses segments may have
    NComms,       \* bound: communicator objects created in one behaviour
    CanFail       \* the NCCL and CUDA calls that may fail

Comms == 1 .. NComms   \* TorchCommNCCLX*, in the order std::set visits them

ASSUME HookAssumption ==
    /\ NComms \in Nat
    /\ CanFail \subseteq {"register", "deregister", "cuda"}

VARIABLES
    allocated,   \* segments the allocator holds
    installed,   \* CachingAllocatorHook::instance_ exists and is attached
    memMap,      \* registeredMemMap_
    regComms,    \* registeredComms_
    handles,     \* per communicator: memoryRegistrationHandles_
    nccl,        \* per communicator: nccl_comm_
    life,        \* per communicator: where its thread is in the object's life
    process,     \* "running", or "terminated" by std::terminate
    faulty       \* history: which kinds of calls have failed

vars == <<allocated, installed, memMap, regComms, handles, nccl, life, process, faulty>>

Init ==
    /\ allocated = {}
    /\ installed = FALSE
    /\ memMap = {}
    /\ regComms = {}
    /\ handles = [c \in Comms |-> {}]
    /\ nccl = [c \in Comms |-> "null"]
    /\ life = [c \in Comms |-> "none"]
    /\ process = "running"
    /\ faulty = {}

move(c, label) == life' = [life EXCEPT ![c] = label]

-----------------------------------------------------------------------------
(* register_address and deregister_address, for one communicator.           *)

\* Fault: the handle is stored under the communicator.
Registered_ByComm(c, a) == IF nccl[c] = "live" THEN handles[c] \cup {c} ELSE handles[c]

\* register_address calls NCCL, or is a no-op without a communicator.
Registered(c, a) == IF nccl[c] = "live" THEN handles[c] \cup {a} ELSE handles[c]

\* It throws when NCCL refuses the registration, or when it has a handle.
RegisterThrows(c, a) ==
    nccl[c] = "live" /\ (a \in handles[c] \/ "register" \in CanFail)

Deregistered(c, a) == IF nccl[c] = "live" THEN handles[c] \ {a} ELSE handles[c]

\* It throws when NCCL refuses; an address without a handle is skipped.
DeregisterThrows(c, a) ==
    nccl[c] = "live" /\ a \in handles[c] /\ "deregister" \in CanFail

-----------------------------------------------------------------------------
(* The allocator's trace callbacks: regDeregMem.                            *)

\* A segment obtained before the hook exists is seen by no one.
AllocUnseen(a) ==
    /\ ~installed
    /\ a \notin allocated
    /\ allocated' = allocated \cup {a}
    /\ UNCHANGED <<installed, memMap, regComms, handles, nccl, life, process, faulty>>

FreeUnseen(a) ==
    /\ ~installed
    /\ a \in allocated
    /\ allocated' = allocated \ {a}
    /\ UNCHANGED <<installed, memMap, regComms, handles, nccl, life, process, faulty>>

\* SEGMENT_ALLOC: recorded, then registered with every communicator.
RegMem(a) ==
    /\ installed
    /\ a \notin allocated
    /\ a \notin memMap
    /\ \A c \in regComms : ~(nccl[c] = "live" /\ a \in handles[c])
    /\ allocated' = allocated \cup {a}
    /\ memMap' = memMap \cup {a}
    /\ handles' = [c \in Comms |-> IF c \in regComms THEN Registered(c, a) ELSE handles[c]]
    /\ UNCHANGED <<installed, regComms, nccl, life, process, faulty>>

\* One registration throws: the communicators before it have the segment, the
\* others do not, and the exception leaves the segment in the allocator's hands.
RegMemThrows(a, c) ==
    /\ installed
    /\ a \notin allocated
    /\ a \notin memMap
    /\ c \in regComms
    /\ RegisterThrows(c, a)
    /\ \A d \in regComms : d < c => ~(nccl[d] = "live" /\ a \in handles[d])
    /\ allocated' = allocated \cup {a}
    /\ memMap' = memMap \cup {a}
    /\ handles' = [d \in Comms |-> IF d \in regComms /\ d < c THEN Registered(d, a)
                                                              ELSE handles[d]]
    /\ faulty' = faulty \cup {"register"}
    /\ UNCHANGED <<installed, regComms, nccl, life, process>>

\* Fault: a freed segment is forgotten, not deregistered.
DeregMem_ForgetOnly(a) ==
    /\ installed
    /\ a \in allocated
    /\ a \in memMap
    /\ allocated' = allocated \ {a}
    /\ memMap' = memMap \ {a}
    /\ UNCHANGED <<installed, regComms, handles, nccl, life, process, faulty>>

\* SEGMENT_FREE: forgotten, then deregistered from every communicator.
DeregMem(a) ==
    /\ installed
    /\ a \in allocated
    /\ a \in memMap
    /\ allocated' = allocated \ {a}
    /\ memMap' = memMap \ {a}
    /\ handles' = [c \in Comms |-> IF c \in regComms THEN Deregistered(c, a)
                                                     ELSE handles[c]]
    /\ UNCHANGED <<installed, regComms, nccl, life, process, faulty>>

\* One deregistration throws out of the callback.  The segment is forgotten by
\* the hook; the allocator, which calls the hook first, has not freed it.
DeregMemThrows(a, c) ==
    /\ installed
    /\ a \in allocated
    /\ a \in memMap
    /\ c \in regComms
    /\ DeregisterThrows(c, a)
    /\ memMap' = memMap \ {a}
    /\ handles' = [d \in Comms |-> IF d \in regComms /\ d < c THEN Deregistered(d, a)
                                                              ELSE handles[d]]
    /\ faulty' = faulty \cup {"deregister"}
    /\ UNCHANGED <<allocated, installed, regComms, nccl, life, process>>

\* "Memory not registered with NCCL": the callback throws for a segment the
\* hook does not know, which the allocator then keeps.
FreeUnknown(a) ==
    /\ installed
    /\ a \in allocated
    /\ a \notin memMap
    /\ faulty' = faulty \cup {"unknown"}
    /\ UNCHANGED <<allocated, installed, memMap, regComms, handles, nccl, life, process>>

-----------------------------------------------------------------------------
(* The communicators.                                                       *)

\* getInstance: the first use creates the singleton, whose constructor attaches
\* it to the allocator.
InstallHook == installed' = TRUE

\* init up to its last call: the NCCL communicator exists.
CreateComm(c) ==
    /\ life[c] = "none"
    /\ nccl' = [nccl EXCEPT ![c] = "live"]
    /\ move(c, "created")
    /\ UNCHANGED <<allocated, installed, memMap, regComms, handles, process, faulty>>

\* init throws before its watchdog thread is started: the destructor of the
\* object detaches, which creates the hook if there is none yet.
InitThrows(c) ==
    /\ life[c] \in {"none", "created"}
    /\ "cuda" \in CanFail
    /\ InstallHook
    /\ faulty' = faulty \cup {"cuda"}
    /\ move(c, "deleted")
    /\ UNCHANGED <<allocated, memMap, regComms, handles, nccl, process>>

\* Fault: only the segments to come are registered.
Attach_NoExisting(c) ==
    /\ life[c] = "created"
    /\ InstallHook
    /\ regComms' = regComms \cup {c}
    /\ move(c, "ready")
    /\ UNCHANGED <<allocated, memMap, handles, nccl, process, faulty>>

\* attachMemoryHook: registerComm registers the segments the hook knows.
Attach(c) ==
    /\ life[c] = "created"
    /\ InstallHook
    /\ handles' = [handles EXCEPT ![c] = memMap]
    /\ regComms' = regComms \cup {c}
    /\ move(c, "ready")
    /\ UNCHANGED <<allocated, memMap, nccl, process, faulty>>

\* registerComm throws part of the way (in any order: an unordered_map).  init
\* leaves an object whose watchdog thread is joinable: its destructor runs
\* deregisterComm, which returns at once, and std::terminate.
AttachThrows(c) ==
    /\ life[c] = "created"
    /\ "register" \in CanFail
    /\ \E a \in memMap, some \in SUBSET memMap :
           /\ a \notin some
           /\ handles' = [handles EXCEPT ![c] = some]
    /\ InstallHook
    /\ process' = "terminated"
    /\ faulty' = faulty \cup {"register"}
    /\ UNCHANGED <<allocated, memMap, regComms, nccl, life>>

\* deregisterComm, when nothing throws.  A communicator that is not in the set
\* is left alone.
DeregisterComm(c) ==
    /\ handles' = IF c \in regComms /\ nccl[c] = "live"
                  THEN [handles EXCEPT ![c] = @ \ memMap] ELSE handles
    /\ regComms' = regComms \ {c}

\* deregisterComm, when one deregistration throws: some are done, c stays.
DeregisterCommThrows(c) ==
    /\ c \in regComms
    /\ \E a \in memMap, some \in SUBSET memMap :
           /\ a \notin some
           /\ DeregisterThrows(c, a)
           /\ handles' = [handles EXCEPT ![c] = @ \ some]
    /\ faulty' = faulty \cup {"deregister"}
    /\ UNCHANGED regComms

\* Fault: the communicator is dropped while it is still attached.
Detach_Skipped(c) ==
    /\ life[c] = "ready"
    /\ nccl[c] = "live"
    /\ move(c, "detached")
    /\ UNCHANGED <<allocated, installed, memMap, regComms, handles, nccl, process, faulty>>

\* abortNcclComm and the end of finalize begin with detachMemoryHook.
Detach(c) ==
    /\ life[c] = "ready"
    /\ nccl[c] = "live"
    /\ DeregisterComm(c)
    /\ move(c, "detached")
    /\ UNCHANGED <<allocated, installed, memMap, nccl, process, faulty>>

\* The exception leaves the operation, or finalize, that was aborting.
DetachThrows(c) ==
    /\ life[c] = "ready"
    /\ nccl[c] = "live"
    /\ DeregisterCommThrows(c)
    /\ life' \in {life, [life EXCEPT ![c] = "closed"]}
    /\ UNCHANGED <<allocated, installed, memMap, nccl, process>>

\* commAbort in an operation leaves an initialized object without a
\* communicator; commAbort or commDestroy in finalize leaves a closed one.
DropNccl(c) ==
    /\ life[c] = "detached"
    /\ nccl' = [nccl EXCEPT ![c] = "null"]
    /\ \E label \in {"ready", "closed"} : move(c, label)
    /\ UNCHANGED <<allocated, installed, memMap, regComms, handles, process, faulty>>

\* finalize of an aborted communicator has nothing to detach.  finalize throws
\* when an event, the barrier buffer or the stream cannot be released, before
\* it detaches.
FinalizeEarly(c) ==
    /\ life[c] = "ready"
    /\ \/ nccl[c] = "null" /\ UNCHANGED faulty
       \/ "cuda" \in CanFail /\ faulty' = faulty \cup {"cuda"}
    /\ move(c, "closed")
    /\ UNCHANGED <<allocated, installed, memMap, regComms, handles, nccl, process>>

\* Fault: the destructor leaves it to finalize to detach.
Delete_NoDetach(c) ==
    /\ life[c] = "closed"
    /\ move(c, "deleted")
    /\ UNCHANGED <<allocated, installed, memMap, regComms, handles, nccl, process, faulty>>

\* ~TorchCommNCCLX detaches once more.
Delete(c) ==
    /\ life[c] = "closed"
    /\ DeregisterComm(c)
    /\ move(c, "deleted")
    /\ UNCHANGED <<allocated, installed, memMap, nccl, process, faulty>>

\* The destructor of an object that was never finalized detaches and then
\* destroys a joinable thread; an exception leaves a destructor: both end in
\* std::terminate.
DeleteTerminates(c) ==
    /\ \/ life[c] = "ready" /\ DeregisterComm(c) /\ UNCHANGED faulty
       \/ life[c] \in {"ready", "closed"} /\ DeregisterCommThrows(c)
    /\ process' = "terminated"
    /\ UNCHANGED <<allocated, installed, memMap, nccl, life>>

-----------------------------------------------------------------------------
Allocator ==
    \E a \in Segments :
        \/ AllocUnseen(a)
        \/ FreeUnseen(a)
        \/ RegMem(a)
        \/ \E c \in Comms : RegMemThrows(a, c)
        \/ DeregMem(a)
        \/ \E c \in Comms : DeregMemThrows(a, c)
        \/ FreeUnknown(a)

Communicator(c) ==
    \/ CreateComm(c)
    \/ InitThrows(c)
    \/ Attach(c)
    \/ AttachThrows(c)
    \/ Detach(c)
    \/ DetachThrows(c)
    \/ DropNccl(c)
    \/ FinalizeEarly(c)
    \/ Delete(c)
    \/ DeleteTerminates(c)

Next ==
    /\ process = "running"
    /\ Allocator \/ \E c \in Comms : Communicator(c)

Spec == Init /\ [][Next]_vars

-----------------------------------------------------------------------------
(* Properties.                                                              *)

\* The variables keep the types the code gives them.
HookTypeOK ==
    /\ allocated \in SUBSET Segments
    /\ installed \in BOOLEAN
    /\ memMap \in SUBSET Segments
    /\ regComms \in SUBSET Comms
    /\ handles \in [Comms -> SUBSET Segments]
    /\ nccl \in [Comms -> {"null", "live"}]
    /\ life \in [Comms -> {"none", "created", "ready", "detached", "closed", "deleted"}]
    /\ process \in {"running", "terminated"}
    /\ faulty \in SUBSET {"register", "deregister", "cuda", "unknown"}

\* The hook never calls into an object that is gone, whichever way the object
\* ended: "so that we don't encounter a memory corruption".
NoDanglingComm ==
    process = "running" => \A c \in regComms : life[c] \in {"ready", "closed"}

\* No communicator keeps a registration of memory the allocator has given back.
HandlesAllocated == \A c \in Comms : handles[c] \subseteq allocated

\* While no NCCL call has failed, a communicator that is attached has a
\* registration for exactly the segments the hook knows, in whatever order
\* segments and communicators came.
AttachedComplete ==
    process = "running" /\ faulty \cap {"register", "deregister"} = {} =>
        \A c \in regComms : nccl[c] = "live" => handles[c] = memMap

\* The NCCL communicator is aborted or destroyed with no registration left,
\* unless a deregistration has failed before.
NoHandleOutlivesNccl ==
    [][\A c \in Comms :
         nccl[c] = "live" /\ nccl'[c] = "null" /\ "deregister" \notin faulty
             => handles[c] = {}]_vars

\* "Register all memory that has already been allocated": an attached
\* communicator knows every segment the allocator holds.
AllocatedRegistered ==
    faulty = {} => \A c \in regComms : nccl[c] = "live" => allocated \subseteq handles[c]

=============================================================================
