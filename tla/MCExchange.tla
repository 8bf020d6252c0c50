------------------------------ MODULE MCExchange ------------------------------
(* Instances for TLC of the exchanges below the collective algorithms: a          *)
(* behaviour creates communicators (Bootstrap), or calls NCCL (Collectives), or    *)
(* puts over one InfiniBand connection (CtranIbVc), or connects and exchanges      *)
(* control messages (CtranIbConnect), and leaves the variables of the others.     *)
EXTENDS Bootstrap, CtranIbConnect, TLC

CONSTANTS Jobs, MaxSplit, MaxRow, VcModes

VARIABLES
    part,                                                    \* which exchange it is
    job,                                                     \* the setting of these two:
    prog, at, group, stream, threw,                          \* Collectives, which shares out
    calls, snd, sq, arrived, notifyArrived, recvs, cq, rcv, data           \* CtranIbVc

Calls == INSTANCE Collectives
Puts == INSTANCE CtranIbVc WITH mode <- job

callVars == <<prog, at, group, stream, threw>>
putVars == <<calls, snd, sq, arrived, notifyArrived, recvs, cq, rcv, data>>

\* Those of CtranIbConnect without out, which Collectives uses as well.
ownLinkVars == <<mesh, todo, sockets, connected, pendingOps, wire, landed, in, got, asked>>
exchangeVars == <<vars, part, job, callVars, putVars, linkVars>>

-------------------------------------------------------------------------------
\* The caller's store, three communicators created in one order; an internal store,
\* two communicators in any order, with failures.
BothStores ==
    {[userStore |-> TRUE, sameOrder |-> TRUE, canFail |-> FALSE, maxComms |-> 3],
     [userStore |-> FALSE, sameOrder |-> FALSE, canFail |-> TRUE, maxComms |-> 2]}

AllOperations ==
    {"send", "batch_op_issue", "broadcast", "all_reduce", "reduce", "all_gather",
     "all_gather_v", "all_gather_single", "reduce_scatter", "reduce_scatter_v",
     "reduce_scatter_single", "all_to_all_single", "all_to_all_v_single", "all_to_all",
     "barrier", "scatter", "gather"}
CallsOf(n, ops, width) ==
    [size |-> n, kinds |-> AllOperations, ops |-> ops, width |-> width,
     emptyInput |-> FALSE, throwing |-> {"all_gather", "batch_op_issue", "gather"}]

\* Two operations after each other on two ranks; one between three ranks, where
\* all_to_all_v_single stands for all_to_all as well, which has no displacements.  Those
\* that throw do it in the ways that leave no group open: before any call, between the
\* calls of a group, after a group.
PairsAndTriples ==
    <<CallsOf(2, 2, 2), [CallsOf(3, 1, 1) EXCEPT !.kinds = @ \ {"all_to_all"}]>>

Vc(vcMode, wrs, seqMod, theirPuts, theirCalls) ==
    [vcMode |-> vcMode, numQps |-> 2, devices |-> 1, maxQpMsgs |-> 2, sendWrs |-> wrs,
     recvWrs |-> wrs, seqMod |-> seqMod, puts |-> theirPuts, calls |-> theirCalls]
Notified(n) == [wqes |-> n, notify |-> TRUE]
Silent(n) == [wqes |-> n, notify |-> FALSE]
Issued(kind, ids) == [kind |-> kind, ids |-> ids, wait |-> FALSE]
IssuedAfter(kind, ids) == [kind |-> kind, ids |-> ids, wait |-> TRUE]

\* Fast puts, a put behind them that fills the QPs, a batch, and a fast put that must wait
\* for all of it; more writes than sequence numbers.
FastAndRegular(vcMode) ==
    Vc(vcMode, 1, 5,
       <<Silent(1), Notified(1), Notified(2), Notified(1), Silent(1), Notified(1)>>,
       <<Issued("fast", <<1>>), Issued("fast", <<2>>), Issued("put", <<3>>),
         Issued("batch", <<4, 5>>), IssuedAfter("fast", <<6>>)>>)

EachAlone(n) == [k \in 1 .. n |-> Issued("put", <<k>>)]

\* More writes than the QPs take at a time, silent puts among notified ones, in both
\* modes; and QPs on two devices, whose completions are polled apart.
SomeVcModes ==
    {Vc("dqplb", 2, 8, <<Notified(3), Notified(2), Silent(1), Notified(1)>>, EachAlone(4)),
     Vc("spray", 1, 8, <<Notified(2), Silent(2), Notified(1), Notified(1)>>, EachAlone(4)),
     FastAndRegular("dqplb"), FastAndRegular("spray"),
     [Vc("dqplb", 2, 8, <<Notified(3), Notified(2), Notified(1)>>, EachAlone(3))
        EXCEPT !.devices = 2]}

Send(p) == [op |-> "send", peer |-> p]
Notice(p) == [op |-> "notice", peer |-> p]
Recv(p) == [op |-> "recv", peer |-> p]
WaitAll == [op |-> "wait"]
Connect(P) == [op |-> "preConnect", peers |-> P]
Ranked(maxMsgs, programs) ==
    [maxMsgs |-> maxMsgs, programs |-> [r \in 0 .. Len(programs) - 1 |-> programs[r + 1]]]

\* Messages both ways, with callbacks among them, before the connection, over it with one
\* packet, and after preConnect; two clients of one listen thread, one of them a server
\* as well; the same with preConnect alone.
SomePrograms ==
    {Ranked(1, << <<Send(1), Notice(1), Send(1), Recv(1), WaitAll, Connect({1}), Send(1)>>,
                  <<Send(0), Recv(0), Recv(0), WaitAll, Connect({0}), Recv(0)>> >>),
     Ranked(1, << <<Send(2), Recv(1)>>, <<Send(2), Send(0)>>, <<Recv(0), Recv(1)>> >>),
     Ranked(2, << <<Connect({1, 2}), Send(2)>>, <<Connect({0}), Send(2)>>,
                  <<Connect({0}), Recv(0), Recv(1)>> >>)}

ASSUME LinksAssumption == ProgramsSound

-------------------------------------------------------------------------------
NoCalls == prog = << >> /\ at = << >> /\ group = << >> /\ stream = << >> /\ threw = << >>

NoPuts ==
    /\ calls = << >> /\ snd = << >> /\ sq = << >> /\ arrived = << >> /\ notifyArrived = 0
    /\ recvs = << >> /\ cq = << >> /\ rcv = << >> /\ data = << >>

NoLinks ==
    /\ mesh = [maxMsgs |-> 0, programs |-> << >>]
    /\ todo = << >> /\ main = << >> /\ listen = << >> /\ backlog = << >> /\ qpReady = << >>
    /\ vcs = << >> /\ connected = << >> /\ pendingOps = << >> /\ wire = << >>
    /\ landed = << >> /\ in = << >> /\ asked = << >> /\ got = << >>

\* A bootstrap of nobody.
NoBootstrap ==
    /\ mode = [userStore |-> TRUE, sameOrder |-> TRUE, canFail |-> TRUE, maxComms |-> 0]
    /\ plan = << >> /\ pc = << >> /\ counter = << >> /\ used = << >> /\ key = << >>
    /\ id = << >> /\ store = {} /\ drawn = 0 /\ joined = {} /\ synced = {} /\ comms = << >>

ExchangeInit ==
    \/ /\ part = "bootstrap" /\ Init
       /\ job = << >> /\ out = << >> /\ NoCalls /\ NoPuts /\ NoLinks
    \/ /\ part = "calls" /\ Calls!Init
       /\ NoBootstrap /\ NoPuts /\ NoLinks
    \/ /\ part = "puts" /\ Puts!Init
       /\ out = << >> /\ NoBootstrap /\ NoCalls /\ NoLinks
    \/ /\ part = "links" /\ LinkInit
       /\ job = << >> /\ NoBootstrap /\ NoCalls /\ NoPuts

ExchangeNext ==
    /\ UNCHANGED part
    /\ \/ part = "bootstrap" /\ Next /\ UNCHANGED <<job, callVars, putVars, linkVars>>
       \/ part = "calls" /\ Calls!Next /\ UNCHANGED <<vars, putVars, ownLinkVars>>
       \/ part = "puts" /\ Puts!Next /\ UNCHANGED <<vars, callVars, linkVars>>
       \/ part = "links" /\ LinkNext /\ UNCHANGED <<vars, job, callVars, putVars>>

\* That calls of NCCL end is the invariant NeverStuck.
ExchangeSpec ==
    /\ ExchangeInit
    /\ [][ExchangeNext]_exchangeVars
    /\ WF_exchangeVars(part # "calls" /\ ExchangeNext)

-------------------------------------------------------------------------------
(* The parts' properties, each for the behaviours that run it.                   *)

\* Whatever order NCCL serves the calls in, the operations write what they are for
\* (TorchCommNCCLX::send to gather).
ResultsCorrect == part = "calls" => Calls!ResultsCorrect

\* The ranks never wait for each other in an operation (TorchCommNCCLX::send to gather).
NeverStuck == part = "calls" => Calls!NeverStuck

\* A notification counted means the data is there (writeImmRcvd).
NotifiedHaveLanded == part = "puts" => Puts!NotifiedHaveLanded

\* A completed request means that its put and all puts before it have landed
\* (burnDownPuts, writeComplete).
CompleteHaveLanded == part = "puts" => Puts!CompleteHaveLanded

\* The other exchanges end as they should: AllCreated, AllNotified and CtrlEnds
\* (exchangeUniqueIdStore, tryToPostOp, writeImmRcvd, progressInternal).
ExchangeEnds ==
    <>[](CASE part = "bootstrap" -> CreationOver
           [] part = "calls" -> TRUE
           [] part = "puts" -> Puts!PutsOver
           [] part = "links" -> CtrlOver)
=============================================================================
