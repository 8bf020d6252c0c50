------------------------ MODULE AllocatorHookProofs ------------------------
(***************************************************************************)
(* The allocator hook's properties for any set of segments, any number of  *)
(* communicators, and whichever calls may fail.                            *)
(***************************************************************************)
EXTENDS AllocatorHook, TLAPS

\* The hook knows only segments the allocator holds.  While the process runs:
\* before the hook exists nothing is registered; a communicator that is not
\* attached has nothing registered that the hook still knows (which is what
\* makes it enough to deregister from the attached ones when a segment is
\* freed); an attached one is a live object with a live NCCL communicator; and
\* until a deregistration fails a communicator has registered only what the
\* hook knows, and nothing unless it is attached.
HookInv ==
    /\ HookTypeOK
    /\ memMap \subseteq allocated
    /\ HandlesAllocated
    /\ process = "running" =>
        /\ ~installed => regComms = {} /\ memMap = {} /\ \A c \in Comms : handles[c] = {}
        /\ \A c \in Comms : life[c] = "created" => nccl[c] = "live"
        /\ \A c \in Comms : c \notin regComms => handles[c] \cap memMap = {}
        /\ \A c \in regComms : life[c] \in {"ready", "closed"} /\ nccl[c] = "live"
        /\ "deregister" \notin faulty =>
               \A c \in Comms : /\ handles[c] \subseteq memMap
                                /\ c \notin regComms => handles[c] = {}
        /\ {"register", "deregister"} \cap faulty = {} =>
               \A c \in regComms : handles[c] = memMap

LEMMA HookInitially == Init => HookInv
BY DEF Init, HookInv, HookTypeOK, HandlesAllocated

LEMMA HookStep ==
    ASSUME HookInv, [Next]_vars
    PROVE  HookInv'
<1> USE DEF HookInv, HookTypeOK, HandlesAllocated, move, InstallHook
<1>1. CASE UNCHANGED vars
  BY <1>1 DEF vars
<1>2. CASE Next
  <2> SUFFICES ASSUME process = "running",
                      Allocator \/ \E c \in Comms : Communicator(c)
               PROVE  HookInv'
    BY <1>2 DEF Next
  <2>1. ASSUME NEW a \in Segments, AllocUnseen(a)
        PROVE  HookInv'
    BY <2>1 DEF AllocUnseen
  <2>2. ASSUME NEW a \in Segments, FreeUnseen(a)
        PROVE  HookInv'
    BY <2>2 DEF FreeUnseen
  <2>3. ASSUME NEW a \in Segments, RegMem(a)
        PROVE  HookInv'
    BY <2>3 DEF RegMem, Registered
  <2>4. ASSUME NEW a \in Segments, NEW c \in Comms, RegMemThrows(a, c)
        PROVE  HookInv'
    BY <2>4 DEF RegMemThrows, Registered, RegisterThrows
  <2>5. ASSUME NEW a \in Segments, DeregMem(a)
        PROVE  HookInv'
    BY <2>5 DEF DeregMem, Deregistered
  <2>6. ASSUME NEW a \in Segments, NEW c \in Comms, DeregMemThrows(a, c)
        PROVE  HookInv'
    BY <2>6 DEF DeregMemThrows, Deregistered, DeregisterThrows
  <2>7. ASSUME NEW a \in Segments, FreeUnknown(a)
        PROVE  HookInv'
    BY <2>7 DEF FreeUnknown
  <2>8. ASSUME NEW c \in Comms, CreateComm(c)
        PROVE  HookInv'
    BY <2>8 DEF CreateComm
  <2>9. ASSUME NEW c \in Comms, InitThrows(c)
        PROVE  HookInv'
    BY <2>9 DEF InitThrows
  <2>10. ASSUME NEW c \in Comms, Attach(c)
        PROVE  HookInv'
    BY <2>10 DEF Attach
  <2>11. ASSUME NEW c \in Comms, AttachThrows(c)
        PROVE  HookInv'
    BY <2>11 DEF AttachThrows
  <2>12. ASSUME NEW c \in Comms, Detach(c)
        PROVE  HookInv'
    BY <2>12 DEF Detach, DeregisterComm
  <2>13. ASSUME NEW c \in Comms, DetachThrows(c)
        PROVE  HookInv'
    BY <2>13 DEF DetachThrows, DeregisterCommThrows, DeregisterThrows
  <2>14. ASSUME NEW c \in Comms, DropNccl(c)
        PROVE  HookInv'
    BY <2>14 DEF DropNccl
  <2>15. ASSUME NEW c \in Comms, FinalizeEarly(c)
        PROVE  HookInv'
    BY <2>15 DEF FinalizeEarly
  <2>16. ASSUME NEW c \in Comms, Delete(c)
        PROVE  HookInv'
    BY <2>16 DEF Delete, DeregisterComm
  <2>17. ASSUME NEW c \in Comms, DeleteTerminates(c)
        PROVE  HookInv'
    <3>1. CASE life[c] = "ready" /\ DeregisterComm(c) /\ UNCHANGED faulty
      BY <2>17, <3>1 DEF DeleteTerminates, DeregisterComm
    <3>2. CASE DeregisterCommThrows(c)
      BY <2>17, <3>2 DEF DeleteTerminates, DeregisterCommThrows, DeregisterThrows
    <3> QED BY <2>17, <3>1, <3>2 DEF DeleteTerminates
  <2> QED
    BY <2>1, <2>2, <2>3, <2>4, <2>5, <2>6, <2>7, <2>8, <2>9, <2>10, <2>11, <2>12, <2>13, <2>14, <2>15, <2>16, <2>17 DEF Allocator, Communicator
<1> QED BY <1>1, <1>2

LEMMA HookSafe == Spec => []HookInv
BY HookInitially, HookStep, PTL DEF Spec

\* The hook's data structures keep their types, whatever fails.
THEOREM HookTypeCorrect == Spec => []HookTypeOK
<1>1. HookInv => HookTypeOK
  BY DEF HookInv
<1> QED BY HookSafe, <1>1, PTL

\* registeredComms_ never holds a pointer to a destroyed TorchCommNCCLX: the
\* detachMemoryHook in the destructor makes up for every path of finalize that
\* throws before its own.
THEOREM NoDangling == Spec => []NoDanglingComm
<1>1. HookInv => NoDanglingComm
  BY DEF HookInv, NoDanglingComm
<1> QED BY HookSafe, <1>1, PTL

\* No registration outlives the memory it is for.
THEOREM HandlesValid == Spec => []HandlesAllocated
<1>1. HookInv => HandlesAllocated
  BY DEF HookInv
<1> QED BY HookSafe, <1>1, PTL

\* Until an NCCL call fails, registerComm and regDeregMem together keep every
\* attached communicator's registrations equal to the hook's map.
THEOREM AttachedHaveAll == Spec => []AttachedComplete
<1>1. HookInv => AttachedComplete
  <2> SUFFICES ASSUME HookInv, process = "running",
                      faulty \cap {"register", "deregister"} = {}
               PROVE  \A c \in regComms : nccl[c] = "live" => handles[c] = memMap
    BY DEF AttachedComplete
  <2>1. {"register", "deregister"} \cap faulty = {}
    OBVIOUS
  <2> QED BY <2>1 DEF HookInv
<1> QED BY HookSafe, <1>1, PTL

\* commAbort and commDestroy find no registration left (detachMemoryHook comes
\* first), unless NCCL refused a deregistration.
THEOREM HandlesGoFirst == Spec => NoHandleOutlivesNccl
<1>1. ASSUME HookInv, [Next]_vars
      PROVE  [\A c \in Comms :
                nccl[c] = "live" /\ nccl'[c] = "null" /\ "deregister" \notin faulty
                    => handles[c] = {}]_vars
  <2> SUFFICES ASSUME Next, NEW c \in Comms, nccl[c] = "live", nccl'[c] = "null",
                      "deregister" \notin faulty
               PROVE  handles[c] = {}
    BY <1>1
  <2>1. DropNccl(c) /\ process = "running"
    BY <1>1 DEF Next, Allocator, Communicator, HookInv, HookTypeOK, AllocUnseen, FreeUnseen,
       RegMem, RegMemThrows, DeregMem, DeregMemThrows, FreeUnknown, CreateComm, InitThrows,
       Attach, AttachThrows, Detach, DetachThrows, DropNccl, FinalizeEarly, Delete,
       DeleteTerminates
  <2>2. c \notin regComms
    BY <1>1, <2>1 DEF DropNccl, HookInv
  <2> QED BY <1>1, <2>1, <2>2 DEF HookInv
<1> QED BY HookSafe, <1>1, PTL DEF Spec, NoHandleOutlivesNccl

=============================================================================
