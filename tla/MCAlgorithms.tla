----------------------------- MODULE MCAlgorithms -----------------------------
(* Instances of CTRAN's collective algorithms for TLC: a behaviour runs either    *)
(* the pipelined all-reduce or a job of the other algorithms, and leaves the      *)
(* variables of what it does not run alone.                                       *)
EXTENDS AllReduceRing

CONSTANT Jobs

VARIABLES job, current, todo, mem, remote, ctrl, puts, notified

Schedules == INSTANCE CtranSchedules

Setting(n, e, size, chunks, b, ab) ==
    [nRanks |-> n, numElements |-> e, chunkNumel |-> size, numChunks |-> chunks,
     minShardNumel |-> 1, numBlocks |-> b, aborts |-> ab]

\* Two partitions of unlike size, two chunks; three ranks, one chunk, and a last shard of
\* more, its last chunk not full; two partitions with two blocks, and with aborts.
Settings ==
    {Setting(2, 5, 1, 2, 1, FALSE), Setting(3, 5, 2, 1, 1, FALSE),
     Setting(2, 4, 2, 1, 2, FALSE), Setting(2, 4, 2, 1, 1, TRUE)}

Job(n, minReg, ops) == [nRanks |-> n, minReg |-> minReg, ops |-> ops]
AllGather(algo, count, inPlace) ==
    [kind |-> "allGather", algo |-> algo, count |-> count, inPlace |-> inPlace,
     minSplit |-> 1, numSplit |-> 2, readyToRecv |-> inPlace]
Broadcast(algo, root, inPlace) ==
    [kind |-> "broadcast", algo |-> algo, root |-> root, count |-> 1, inPlace |-> inPlace]
ReduceScatterOf(algo, count, halfTmp, inPlace) ==
    [kind |-> "reduceScatter", algo |-> algo, count |-> count, halfTmp |-> halfTmp,
     inPlace |-> inPlace]
AllToAllv(counts, n) == [kind |-> "allToAllv", counts |-> counts, count |-> n, inPlace |-> FALSE]
SendRecv(calls, n) == [kind |-> "sendRecv", calls |-> calls, count |-> n, inPlace |-> FALSE]
SendTo(peer, at) == [send |-> TRUE, peer |-> peer, at |-> at, n |-> 1]
RecvFrom(peer, at) == [send |-> FALSE, peer |-> peer, at |-> at, n |-> 1]

\* Every algorithm, with and without the buffers for small messages, in place or not, and
\* followed by another one that shares buffers or peers with it.  A ring that does not
\* divide its block; two rounds of reduce-scatter, the second shorter; a tree of three
\* levels; a block nobody sends; two sends to one peer with a send to itself.
SomeJobs ==
    {Job(2, 0, <<AllGather("ring", 3, FALSE), AllGather("recDbl", 2, TRUE)>>),
     Job(3, 100, <<AllGather("brucks", 2, FALSE), Broadcast("tree", 1, FALSE)>>),
     Job(3, 100, <<AllGather("direct", 1, TRUE), Broadcast("direct", 2, TRUE)>>),
     Job(4, 0, <<AllGather("recDbl", 1, FALSE)>>),
     Job(3, 0, <<ReduceScatterOf("ring", 3, 2, FALSE), AllGather("ring", 3, FALSE)>>),
     Job(4, 0, <<ReduceScatterOf("ring", 1, 1, TRUE), ReduceScatterOf("rhd", 1, 1, TRUE)>>),
     Job(4, 100, <<ReduceScatterOf("rhd", 1, 1, FALSE), Broadcast("tree", 3, TRUE)>>),
     Job(5, 0, <<Broadcast("tree", 2, FALSE), Broadcast("direct", 0, FALSE)>>),
     Job(3, 0, <<AllToAllv(<<<<1, 2, 0>>, <<0, 1, 1>>, <<1, 0, 0>>>>, 3)>>),
     Job(2, 0, <<SendRecv(<< <<SendTo(1, 0), RecvFrom(1, 0), SendTo(1, 1), SendTo(0, 0),
                              RecvFrom(0, 2)>>,
                            <<RecvFrom(0, 1), SendTo(0, 0), RecvFrom(0, 0)>> >>, 2),
                 AllGather("direct", 1, FALSE)>>)}

schedVars == <<job, current, todo, mem, remote, ctrl, puts, notified>>

\* Nothing is run by a job without ranks.
NoJob == Job(0, 0, << >>)
RunsRing == job = NoJob

AlgorithmsInit ==
    \/ /\ Init
       /\ job = NoJob
       /\ current = << >> /\ todo = << >> /\ mem = << >> /\ remote = << >>
       /\ ctrl = << >> /\ puts = << >> /\ notified = << >>
    \/ /\ Init /\ mode = Setting(2, 5, 1, 2, 1, FALSE)
       /\ Schedules!Init

AlgorithmsNext ==
    \/ RunsRing /\ Next /\ UNCHANGED schedVars
    \/ ~RunsRing /\ Schedules!Next /\ UNCHANGED vars

AlgorithmsProgress ==
    \/ RunsRing /\ Progress /\ UNCHANGED schedVars
    \/ ~RunsRing /\ Schedules!Next /\ UNCHANGED vars

AlgorithmsSpec ==
    /\ AlgorithmsInit
    /\ [][AlgorithmsNext]_<<vars, schedVars>>
    /\ WF_<<vars, schedVars>>(AlgorithmsProgress)

\* A rank that ended an operation of a job keeps its result (Schedules).
SchedulesCorrect == Schedules!SchedulesCorrect

\* RingEnds and SchedulesEnd, each for the behaviours that run it.
AlgorithmsEnd == <>[](IF RunsRing THEN RingOver ELSE Schedules!AllOver)
=============================================================================
