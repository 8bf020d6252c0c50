------------------------------ MODULE Bootstrap ------------------------------
(***************************************************************************)
(* How the ranks of a job come to share an NCCL communicator: rank 0 draws *)
(* a unique id and publishes it in a store, the others read it there, and  *)
(* all hand it to NCCL.  A job creates several communicators one after the *)
(* other; the key under which the next id is looked up is a counter that   *)
(* each process advances on its own (TorchCommNCCLXBootstrap::counter_).   *)
(*                                                                         *)
(* The store is the one the caller passed, with the key alone, or the      *)
(* StoreManager's, with the key prefixed by the communicator's name.       *)
(***************************************************************************)
EXTENDS Naturals, Sequences

CONSTANTS
    N,             \* comm_size_: ranks are 0 .. N - 1
    Names,         \* names of communicators
    Modes          \* the settings to explore

Ranks == 0 .. N - 1
NoId == 0

\* A setting: options_.store is set; the ranks create their communicators in one
\* order; store and NCCL calls may fail or time out; and, a bound, the calls that create
\* a communicator, per rank.
ModeType == [userStore : BOOLEAN, sameOrder : BOOLEAN, canFail : BOOLEAN, maxComms : Nat]

ASSUME BootstrapAssumption ==
    /\ N \in Nat \ {0}
    /\ Modes \subseteq ModeType

VARIABLES
    mode,      \* the setting, fixed
    plan,      \* per rank: the names it will create, in order
    pc,        \* per rank: where createNcclComm is
    counter,   \* per rank: counter_
    used,      \* per rank: StoreManager::storeNames_
    key,       \* per rank: the store key of this call
    id,        \* per rank: the unique id of this call
    store,     \* the entries of the store: key and value
    drawn,     \* unique ids drawn so far
    joined,    \* <<id, rank, name>>: commInitRankConfig was called
    synced,    \* <<id, rank>>: the allReduce of cleanupTCPStore was called
    comms      \* per rank: <<name, id>> of the communicators it has got

vars == <<mode, plan, pc, counter, used, key, id, store, drawn, joined, synced, comms>>

UserStore == mode.userStore
CanFail == mode.canFail

Init ==
    /\ mode \in Modes
    /\ plan \in [Ranks -> [1 .. mode.maxComms -> Names]]
    /\ mode.sameOrder => \A r \in Ranks : plan[r] = plan[0]
    /\ pc = [r \in Ranks |-> "idle"]
    /\ counter = [r \in Ranks |-> 0]
    /\ used = [r \in Ranks |-> {}]
    /\ key = [r \in Ranks |-> << >>]
    /\ id = [r \in Ranks |-> NoId]
    /\ store = {}
    /\ drawn = 0
    /\ joined = {}
    /\ synced = {}
    /\ comms = [r \in Ranks |-> {}]

goto(r, label) == pc' = [pc EXCEPT ![r] = label]

Advanced(n) == n + 1

Prefix(r) == IF UserStore THEN << >> ELSE <<Head(plan[r])>>

\* Faults: the name plays no part; only the others count before they make the key.
NewKey_NoPrefix(r) == << << >>, counter[r]>>
NewKey_Skewed(r) == <<Prefix(r), IF r = 0 THEN counter[r] ELSE counter[r] + 1>>

\* getNCCLXStoreKey, seen through the PrefixStore that StoreManager returns.
NewKey(r) == <<Prefix(r), counter[r]>>

\* exchangeUniqueId up to the store call.
Begin(r) ==
    /\ pc[r] = "idle"
    /\ plan[r] # << >>
    /\ UserStore \/ Head(plan[r]) \notin used[r]
    /\ used' = [used EXCEPT ![r] = IF UserStore THEN @ ELSE @ \cup {Head(plan[r])}]
    /\ key' = [key EXCEPT ![r] = NewKey(r)]
    /\ counter' = [counter EXCEPT ![r] = Advanced(@)]
    /\ goto(r, "exchange")
    /\ UNCHANGED <<mode, plan, id, store, drawn, joined, synced, comms>>

\* StoreManager::getStore throws: "Store prefix has been reused".
PrefixReused(r) ==
    /\ pc[r] = "idle"
    /\ plan[r] # << >>
    /\ ~UserStore /\ Head(plan[r]) \in used[r]
    /\ plan' = [plan EXCEPT ![r] = Tail(@)]
    /\ UNCHANGED <<mode, pc, counter, used, key, id, store, drawn, joined, synced, comms>>

\* Rank 0 draws an id and sets it under its key.
PublishId ==
    /\ pc[0] = "exchange"
    /\ drawn' = drawn + 1
    /\ id' = [id EXCEPT ![0] = drawn']
    /\ store' = {e \in store : e[1] # key[0]} \cup {<<key[0], drawn'>>}
    /\ goto(0, "init")
    /\ UNCHANGED <<mode, plan, counter, used, key, joined, synced, comms>>

\* The others block in get until their key is there.
ReadId(r) ==
    /\ r # 0
    /\ pc[r] = "exchange"
    /\ \E e \in store : e[1] = key[r] /\ id' = [id EXCEPT ![r] = e[2]]
    /\ goto(r, "init")
    /\ UNCHANGED <<mode, plan, counter, used, key, store, drawn, joined, synced, comms>>

\* commInitRankConfig returns when every rank has called it with this id.
CallInit(r) ==
    /\ pc[r] = "init"
    /\ joined' = joined \cup {<<id[r], r, Head(plan[r])>>}
    /\ goto(r, "joining")
    /\ UNCHANGED <<mode, plan, counter, used, key, id, store, drawn, synced, comms>>

AllJoined(u) == \A p \in Ranks : \E j \in joined : j[1] = u /\ j[2] = p

\* cleanupTCPStore: an internal store is released, and the ranks meet in an
\* allReduce on the new communicator.
InitReturns(r) ==
    /\ pc[r] = "joining"
    /\ AllJoined(id[r])
    /\ synced' = IF UserStore THEN synced ELSE synced \cup {<<id[r], r>>}
    /\ goto(r, IF UserStore THEN "created" ELSE "cleanup")
    /\ UNCHANGED <<mode, plan, counter, used, key, id, store, drawn, joined, comms>>

\* An allReduce that fails is logged: no one is waited for.
CleanupReturns(r) ==
    /\ pc[r] = "cleanup"
    /\ CanFail \/ \A p \in Ranks : <<id[r], p>> \in synced
    /\ goto(r, "created")
    /\ UNCHANGED <<mode, plan, counter, used, key, id, store, drawn, joined, synced, comms>>

\* createNcclComm returns, and the program goes on to its next communicator.
Return(r) ==
    /\ pc[r] = "created"
    /\ comms' = [comms EXCEPT ![r] = @ \cup {<<Head(plan[r]), id[r]>>}]
    /\ plan' = [plan EXCEPT ![r] = Tail(@)]
    /\ id' = [id EXCEPT ![r] = NoId]
    /\ goto(r, "idle")
    /\ UNCHANGED <<mode, counter, used, key, store, drawn, joined, synced>>

\* getUniqueId, the store, commInitRankConfig or the synchronization with the
\* stream fails or times out: the call throws, and the program goes on to its next communicator.
Throw(r) ==
    /\ CanFail
    /\ pc[r] \in {"exchange", "init", "joining", "cleanup"}
    /\ plan' = [plan EXCEPT ![r] = Tail(@)]
    /\ id' = [id EXCEPT ![r] = NoId]
    /\ goto(r, "idle")
    /\ UNCHANGED <<mode, counter, used, key, store, drawn, joined, synced, comms>>

Next ==
    \/ PublishId
    \/ \E r \in Ranks :
        \/ Begin(r)
        \/ PrefixReused(r)
        \/ ReadId(r)
        \/ CallInit(r)
        \/ InitReturns(r)
        \/ CleanupReturns(r)
        \/ Return(r)
        \/ Throw(r)

\* Every process keeps running, and a blocked call returns once it can.
Spec == Init /\ [][Next]_vars /\ WF_vars(Next)

-----------------------------------------------------------------------------
(* Properties.                                                              *)

\* Ranks that NCCL brings together under one id are creating the same
\* communicator: no rank takes the id of an earlier or a later call.
NoCrossTalk == \A j, k \in joined : j[1] = k[1] => j[3] = k[3]

\* When nothing fails and the ranks agree on the order, every rank gets every
\* communicator it asks of the caller's store, and all get the same ones.
CreationOver ==
    UserStore /\ mode.sameOrder /\ ~CanFail =>
        \A r \in Ranks : plan[r] = << >> /\ comms[r] = comms[0] /\ counter[r] = mode.maxComms

AllCreated == <>[]CreationOver

=============================================================================
