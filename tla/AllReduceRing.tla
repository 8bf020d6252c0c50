---------------------------- MODULE AllReduceRing ----------------------------
(***************************************************************************)
(* CTRAN's ring all-reduce, run by every rank in place on one buffer.      *)
(* The data is cut into partitions, a partition into one shard per rank, a *)
(* shard into chunks.  A shard goes round the ring twice, chunk by chunk:  *)
(* once to be summed, once to be handed out.  Each chunk is a "round" of   *)
(* five pipelined operations, and each rank has two temporary buffers of   *)
(* numChunks chunks that the rounds use in turn.                           *)
(*                                                                         *)
(* Per rank: the host, impl in AllReduceRing.cc, that polls the operations *)
(* and owns the network; the thread blocks of the kernel, algoFn in        *)
(* AllReduceRing.cu, that copy and reduce what the host posts; and the     *)
(* network, external, that carries the puts to the right neighbour and the *)
(* buffer-free messages to the left one.  The host polls in a fixed order; *)
(* here any poll that would succeed may be the next one.                   *)
(***************************************************************************)
EXTENDS Integers, Sequences, FiniteSets

CONSTANT
    Modes          \* the settings to explore: see RingAssumption

\* A setting.  chunkNumel and minShardNumel are chunkSize and minShardSize divided by
\* typeSize; aborts: Abort may be set.  Every shard has an element: ctranAllReduceRing
\* refuses fewer elements than ranks, and the temporary buffers hold more than the
\* minimum that updatePartitionCtx leaves for the last partition.
ASSUME RingAssumption ==
    \A m \in Modes :
        /\ DOMAIN m = {"nRanks", "numElements", "chunkNumel", "numChunks", "minShardNumel",
                       "numBlocks", "aborts"}
        /\ m.nRanks \in Nat \ {0, 1} /\ m.numElements \in Nat /\ m.numElements >= m.nRanks
        /\ {m.chunkNumel, m.numChunks, m.minShardNumel, m.numBlocks} \subseteq Nat \ {0}
        /\ m.chunkNumel * m.numChunks > m.minShardNumel
        /\ m.aborts \in BOOLEAN

KernelOps == {"SendCopy", "RecvRedCopy"}
Ops == KernelOps \cup {"SendTrans", "RecvTrans", "RecvFlush"}
kUnset == -1

VARIABLES
    mode,       \* the setting, fixed
    host,       \* per rank: "running", "done" or "aborted" (impl)
    partition,  \* per rank: AlgoContext::partition of the host
    offset,     \* per rank: AlgoContext::partitionOffset of the host
    post, done, \* per rank and operation: OpRound::post and OpRound::done of the host
    posted,     \* per rank and kernel operation: the word GpeKernelSync::postFlag
    started,    \* per rank: the word postFlag of partitionSync
    completed,  \* per rank and kernel operation, by block: GpeKernelSync::completeFlag
    block,      \* per rank and block: AlgoContext of the kernel, and whether it exited
    data,       \* per rank: the buffer, sendbuff and recvbuff
    tmpSend,    \* per rank and chunk: tmpSendBuf
    tmpRecv,    \* per rank and chunk: tmpRecvBuf, as the GPU sees it
    wire,       \* per rank: puts to its right neighbour, not yet arrived
    arrived,    \* per rank: puts that arrived and the GPU may not see yet
    landed,     \* per rank: its puts of this partition that arrived
    notify,     \* per rank: notifyCount_ of its left neighbour
    sync        \* per rank: buffer-free messages of its right neighbour

partVars == <<partition, offset>>
hostVars == <<mode, host, partVars, post, done>>
flagVars == <<posted, started, completed>>
bufferVars == <<data, tmpSend, tmpRecv>>
netVars == <<wire, arrived, landed, notify, sync>>
vars == <<hostVars, flagVars, block, bufferVars, netVars>>

-----------------------------------------------------------------------------
(* Partitions, shards and chunks.                                          *)

Ranks == 0 .. mode.nRanks - 1
Blocks == 0 .. mode.numBlocks - 1
Elements == 0 .. mode.numElements - 1
Chunks == 0 .. mode.numChunks - 1
Positions == 0 .. mode.chunkNumel - 1
Right(r) == (r + 1) % mode.nRanks
Left(r) == (r - 1 + mode.nRanks) % mode.nRanks

\* updatePartitionCtx: partitionNumel of the partition that begins at p.
PartitionNumel(p) ==
    LET remain == mode.numElements - p
        total == mode.chunkNumel * mode.numChunks * mode.nRanks
        min == mode.minShardNumel * mode.nRanks
    IN CASE remain < total -> remain
         [] remain >= total /\ remain < total + min -> remain - min
         [] OTHER -> total

\* shardNumel; a partition is named by its partitionOffset, p.
ShardNumel(p) == PartitionNumel(p) \div mode.nRanks

\* getShardNumel: the last shard takes what the division leaves.
NumelOf(p, shard) ==
    IF shard = mode.nRanks - 1
      THEN PartitionNumel(p) - ShardNumel(p) * (mode.nRanks - 1)
      ELSE ShardNumel(p)

\* Fault: the elements that do not fill a chunk are left out.
CountChunks_Floor(p, shard) == NumelOf(p, shard) \div mode.chunkNumel

\* countChunksPerShard.
CountChunks(p, shard) == (NumelOf(p, shard) + mode.chunkNumel - 1) \div mode.chunkNumel

NumSteps == 2 * mode.nRanks - 2

\* getStepShardIdx, with sendDataShardIdx and recvDataShardIdx.
StepShard(r, op, step) ==
    LET first == IF op \in {"SendCopy", "SendTrans"} THEN r ELSE Left(r)
        shift == mode.nRanks - (step % mode.nRanks)
    IN (first + shift) % mode.nRanks

\* OpRound::post or OpRound::done, with its OpStep: the round that comes next, its step,
\* and the first round of that step.
RoundZero == [round |-> 0, step |-> 0, start |-> 0]

\* The counter after a round, and opUpdateStep.
Advance(r, op, p, x) ==
    LET end == x.start + CountChunks(p, StepShard(r, op, x.step))
    IN IF x.round + 1 = end THEN [round |-> end, step |-> x.step + 1, start |-> end]
       ELSE [x EXCEPT !.round = @ + 1]

\* All of totalRounds: the step counter has passed the last step.  Only the first step's
\* chunks are copied for sending.
AllRounds(op, x) == x.step = IF op = "SendCopy" THEN 1 ELSE NumSteps

\* getRoundArgs: the first element of a round's chunk and how many it has.
RoundArgs(r, op, p, x) ==
    LET shard == StepShard(r, op, x.step)
        before == (x.round - x.start) * mode.chunkNumel
        rest == NumelOf(p, shard) - before
    IN [first |-> p + shard * ShardNumel(p) + before,
        numel |-> IF rest < mode.chunkNumel THEN rest ELSE mode.chunkNumel]

\* getTmpChunkId.
TmpChunk(round) == round % mode.numChunks

\* isRecvFwd, getRecvFwdSendRound.
IsRecvFwd(step) == step < NumSteps - 1
FwdRound(r, p, round) == CountChunks(p, r) + round

-----------------------------------------------------------------------------
(* Data.  What a rank contributes to an element is a pair of the two; a    *)
(* partial result is the set of contributions reduced into it, and a value *)
(* reduced twice, or never written, is the empty set.                      *)

Contribution(r, e) == {<<r, e>>}
Sum(e) == {<<r, e>> : r \in Ranks}
Garbage == {}
Reduce(a, b) == IF a \cap b = {} THEN a \cup b ELSE Garbage

\* The positions of a chunk that block b works on: copy and localReduce split it.
PartOf(b, numel) == {k \in 0 .. numel - 1 : k % mode.numBlocks = b}

EmptyTmpBuf == [c \in Chunks |-> [k \in Positions |-> Garbage]]
NewBlock(k, p) ==
    [partition |-> k, offset |-> p, SendCopy |-> RoundZero, RecvRedCopy |-> RoundZero, exited |-> FALSE]
Unset == [op \in KernelOps |-> kUnset]
UnsetAll == [op \in KernelOps |-> [b \in Blocks |-> kUnset]]
NoRounds == [op \in Ops |-> RoundZero]

Init ==
    /\ mode \in Modes
    /\ host = [r \in Ranks |-> "running"]
    /\ partition = [r \in Ranks |-> 0]
    /\ offset = [r \in Ranks |-> 0]
    /\ post = [r \in Ranks |-> NoRounds]
    /\ done = [r \in Ranks |-> NoRounds]
    /\ posted = [r \in Ranks |-> Unset]
    /\ started = [r \in Ranks |-> kUnset]
    /\ completed = [r \in Ranks |-> UnsetAll]
    /\ block = [r \in Ranks |-> [b \in Blocks |-> NewBlock(0, 0)]]
    /\ data = [r \in Ranks |-> [e \in Elements |-> Contribution(r, e)]]
    /\ tmpSend = [r \in Ranks |-> EmptyTmpBuf]
    /\ tmpRecv = [r \in Ranks |-> EmptyTmpBuf]
    /\ wire = [r \in Ranks |-> << >>]
    /\ arrived = [r \in Ranks |-> << >>]
    /\ landed = [r \in Ranks |-> 0]
    /\ notify = [r \in Ranks |-> 0]
    /\ sync = [r \in Ranks |-> 0]

-----------------------------------------------------------------------------
(* The host: impl.                                                         *)

Running(r) == host[r] = "running"
\* OpRound::ready: counted up by opUpdateDone of the operation it depends on; no limit for
\* the receive.
ReadyRounds(r, op) ==
    CASE op = "SendCopy" -> CountChunks(offset[r], r)
      [] op = "SendTrans" -> done[r].SendCopy.round + done[r].RecvRedCopy.round
      [] op = "RecvTrans" -> post[r].RecvTrans.round + 1
      [] op = "RecvFlush" -> done[r].RecvTrans.round
      [] op = "RecvRedCopy" -> done[r].RecvFlush.round

\* Fault: the first step's chunks are not waited for.
OpReadyToPost_NoHold(r, op) ==
    /\ Running(r)
    /\ post[r][op].round < ReadyRounds(r, op)
    /\ ~AllRounds(op, post[r][op])

\* opReadyToPost: received chunks are forwarded after the first step's are posted.
OpReadyToPost(r, op) ==
    /\ Running(r)
    /\ op = "RecvRedCopy" => post[r].SendTrans.step # 0
    /\ post[r][op].round < ReadyRounds(r, op)
    /\ ~AllRounds(op, post[r][op])

\* opHasPosted.
OpHasPosted(r, op) == Running(r) /\ done[r][op].round < post[r][op].round

\* opUpdatePost and opUpdateDone.
OpUpdatePost(r, op) == post' = [post EXCEPT ![r][op] = Advance(r, op, offset[r], @)]
OpUpdateDone(r, op) == done' = [done EXCEPT ![r][op] = Advance(r, op, offset[r], @)]

\* progressSendCheckSendBuf and progressRecvCheckSendBuf: the round that had the chunk of
\* tmpSendBuf before has been sent.
TmpSendFree(r, round) ==
    round < mode.numChunks \/ done[r].SendTrans.round > round - mode.numChunks

\* progressSendCheckRemRecvBuf: the right neighbour has reduced the round that had the
\* chunk of its tmpRecvBuf before.
RemRecvFree(r, round) == round < mode.numChunks \/ sync[r] > round - mode.numChunks

\* GpeKernelSync::post.
PostKernel(r, op) == posted' = [posted EXCEPT ![r][op] = post[r][op].round]

\* GpeKernelSync::isComplete.
IsComplete(r, op, round) == \A b \in Blocks : completed[r][op][b] >= round

\* progressSendPostCopyKern.
SendCopyPost(r) ==
    /\ OpReadyToPost(r, "SendCopy")
    /\ TmpSendFree(r, post[r].SendCopy.round)
    /\ PostKernel(r, "SendCopy")
    /\ OpUpdatePost(r, "SendCopy")
    /\ UNCHANGED <<mode, host, partVars, done, started, completed, block, bufferVars, netVars>>

\* progressSendCheckCopyKern.
SendCopyDone(r) ==
    /\ OpHasPosted(r, "SendCopy")
    /\ IsComplete(r, "SendCopy", done[r].SendCopy.round)
    /\ OpUpdateDone(r, "SendCopy")
    /\ UNCHANGED <<mode, host, partVars, post, flagVars, block, bufferVars, netVars>>

\* progressSendPostTrans: iput with a notification.
SendTransPost(r) ==
    LET round == post[r].SendTrans.round
        args == RoundArgs(r, "SendTrans", offset[r], post[r].SendTrans)
    IN /\ OpReadyToPost(r, "SendTrans")
       /\ RemRecvFree(r, round)
       /\ wire' = [wire EXCEPT ![r] = Append(@, [chunk |-> TmpChunk(round), numel |-> args.numel])]
       /\ OpUpdatePost(r, "SendTrans")
       /\ UNCHANGED <<mode, host, partVars, done, flagVars, block, bufferVars, arrived, landed,
                      notify, sync>>

\* progressSendCheckTrans: the requests complete in the order they were posted.
SendTransDone(r) ==
    /\ OpHasPosted(r, "SendTrans")
    /\ done[r].SendTrans.round < landed[r]
    /\ OpUpdateDone(r, "SendTrans")
    /\ UNCHANGED <<mode, host, partVars, post, flagVars, block, bufferVars, netVars>>

\* progressRecvCheckTrans: checkNotify takes a notification of the left neighbour.
RecvTrans(r) ==
    /\ OpReadyToPost(r, "RecvTrans")
    /\ notify[r] > 0
    /\ notify' = [notify EXCEPT ![r] = @ - 1]
    /\ OpUpdatePost(r, "RecvTrans")
    /\ OpUpdateDone(r, "RecvTrans")
    /\ UNCHANGED <<mode, host, partVars, flagVars, block, bufferVars, wire, arrived, landed, sync>>

\* progressRecvPostFlush.
RecvFlushPost(r) ==
    /\ OpReadyToPost(r, "RecvFlush")
    /\ OpUpdatePost(r, "RecvFlush")
    /\ UNCHANGED <<mode, host, partVars, done, flagVars, block, bufferVars, netVars>>

\* The flush of a round is complete when the GPU sees the puts up to that round.
Flushed(r, round) == landed[Left(r)] - Len(arrived[r]) > round

\* progressRecvCheckFlush.
RecvFlushDone(r) ==
    /\ OpHasPosted(r, "RecvFlush")
    /\ Flushed(r, done[r].RecvFlush.round)
    /\ OpUpdateDone(r, "RecvFlush")
    /\ UNCHANGED <<mode, host, partVars, post, flagVars, block, bufferVars, netVars>>

\* progressRecvPostRedCopyKern: a round to forward needs its chunk of tmpSendBuf.
RecvRedCopyPost(r) ==
    /\ OpReadyToPost(r, "RecvRedCopy")
    /\ IsRecvFwd(post[r].RecvRedCopy.step) =>
           TmpSendFree(r, FwdRound(r, offset[r], post[r].RecvRedCopy.round))
    /\ PostKernel(r, "RecvRedCopy")
    /\ OpUpdatePost(r, "RecvRedCopy")
    /\ UNCHANGED <<mode, host, partVars, done, started, completed, block, bufferVars, netVars>>

\* progressRecvCheckRedCopyKern, progressRecvPostRecvBuf: tells the left neighbour.
RecvRedCopyDone(r) ==
    /\ OpHasPosted(r, "RecvRedCopy")
    /\ IsComplete(r, "RecvRedCopy", done[r].RecvRedCopy.round)
    /\ OpUpdateDone(r, "RecvRedCopy")
    /\ sync' = [sync EXCEPT ![Left(r)] = @ + 1]
    /\ UNCHANGED <<mode, host, partVars, post, flagVars, block, bufferVars, wire, arrived, landed,
                   notify>>

\* waitAllResps of bufSyncRResps.
AllSynced(r) == sync[r] = post[r].SendTrans.round

\* The partition is over: waitAllResps, the flags are reset, and the kernel is told of the
\* next partition, if there is one.
PartitionDone(r) ==
    LET next == partition[r] + 1
        end == offset[r] + PartitionNumel(offset[r])
        last == end = mode.numElements
    IN /\ Running(r)
       /\ AllRounds("SendTrans", done[r].SendTrans)
       /\ AllRounds("RecvRedCopy", done[r].RecvRedCopy)
       /\ AllSynced(r)
       /\ sync' = [sync EXCEPT ![r] = 0]
       /\ landed' = [landed EXCEPT ![r] = 0]
       /\ posted' = [posted EXCEPT ![r] = Unset]
       /\ completed' = [completed EXCEPT ![r] = UnsetAll]
       /\ started' = [started EXCEPT ![r] = IF last THEN kUnset ELSE next]
       /\ IF last
            THEN /\ host' = [host EXCEPT ![r] = "done"]
                 /\ UNCHANGED <<partVars, post, done>>
            ELSE /\ partition' = [partition EXCEPT ![r] = next]
                 /\ offset' = [offset EXCEPT ![r] = end]
                 /\ post' = [post EXCEPT ![r] = NoRounds]
                 /\ done' = [done EXCEPT ![r] = NoRounds]
                 /\ UNCHANGED host
       /\ UNCHANGED <<mode, block, bufferVars, wire, arrived, notify>>

\* HOST_ABORT: impl throws, and the GPE thread tells the kernel (CtranGpe).
HostAbort(r) ==
    /\ mode.aborts /\ Running(r)
    /\ host' = [host EXCEPT ![r] = "aborted"]
    /\ UNCHANGED <<mode, partVars, post, done, flagVars, block, bufferVars, netVars>>

-----------------------------------------------------------------------------
(* The kernel: algoFn, run by every block.                                 *)

\* checkPost: the block has a round of the operation left, and the host has posted it.
Posted(r, b, op) ==
    /\ ~block[r][b].exited
    /\ ~AllRounds(op, block[r][b][op])
    /\ posted[r][op] >= block[r][b][op].round

\* complete and opUpdateDone.
Complete(r, b, op) ==
    /\ completed' = [completed EXCEPT ![r][op][b] = block[r][b][op].round]
    /\ block' = [block EXCEPT ![r][b][op] = Advance(r, op, block[r][b].offset, @)]

\* Write the positions of block b of a chunk.
Write(chunk, b, numel, value(_)) ==
    [k \in Positions |-> IF k \in PartOf(b, numel) THEN value(k) ELSE chunk[k]]

\* _progressSend: copy the own shard's chunk to tmpSendBuf.
BlockSend(r, b) ==
    LET round == block[r][b].SendCopy.round
        args == RoundArgs(r, "SendCopy", block[r][b].offset, block[r][b].SendCopy)
        Copied(k) == data[r][args.first + k]
    IN /\ Posted(r, b, "SendCopy")
       /\ tmpSend' = [tmpSend EXCEPT ![r][TmpChunk(round)] = Write(@, b, args.numel, Copied)]
       /\ Complete(r, b, "SendCopy")
       /\ UNCHANGED <<hostVars, posted, started, data, tmpRecv, netVars>>

\* getPhase.
ReduceScatter(step) == step < NumSteps \div 2

\* _progressRecv: reduce or copy the received chunk, into the data from the last step of
\* the first phase on, and into tmpSendBuf unless it is the last step.
BlockRecv(r, b) ==
    LET p == block[r][b].offset
        round == block[r][b].RecvRedCopy.round
        step == block[r][b].RecvRedCopy.step
        args == RoundArgs(r, "RecvRedCopy", p, block[r][b].RecvRedCopy)
        Received(k) == tmpRecv[r][TmpChunk(round)][k]
        Result(k) == IF ReduceScatter(step) THEN Reduce(data[r][args.first + k], Received(k))
                     ELSE Received(k)
        updateData == ~IsRecvFwd(step) \/ step >= NumSteps \div 2 - 1
    IN /\ Posted(r, b, "RecvRedCopy")
       /\ data' =
            IF updateData
              THEN [data EXCEPT ![r] = [e \in Elements |->
                      IF e - args.first \in PartOf(b, args.numel) THEN Result(e - args.first)
                      ELSE @[e]]]
              ELSE data
       /\ tmpSend' =
            IF IsRecvFwd(step)
              THEN [tmpSend EXCEPT ![r][TmpChunk(FwdRound(r, p, round))] =
                      Write(@, b, args.numel, Result)]
              ELSE tmpSend
       /\ Complete(r, b, "RecvRedCopy")
       /\ UNCHANGED <<hostVars, posted, started, tmpRecv, netVars>>

\* Fault: waitPost is left out.
PartitionStarted_Always(r, p) == TRUE

\* waitPost of partitionSync.
PartitionStarted(r, p) == started[r] >= p

\* updatePartitionDone, updatePartitionCtxDevice; after the last one the kernel exits.
BlockNextPartition(r, b) ==
    LET next == block[r][b].partition + 1
        end == block[r][b].offset + PartitionNumel(block[r][b].offset)
    IN /\ ~block[r][b].exited
       /\ \A op \in KernelOps : AllRounds(op, block[r][b][op])
       /\ IF end = mode.numElements
            THEN block' = [block EXCEPT ![r][b].exited = TRUE]
            ELSE /\ PartitionStarted(r, next)
                 /\ block' = [block EXCEPT ![r][b] = NewBlock(next, end)]
       /\ UNCHANGED <<hostVars, flagVars, bufferVars, netVars>>

\* KERNEL_ABORT, also reached from waitPost.
BlockAbort(r, b) ==
    /\ host[r] = "aborted" /\ ~block[r][b].exited
    /\ block' = [block EXCEPT ![r][b].exited = TRUE]
    /\ UNCHANGED <<hostVars, flagVars, bufferVars, netVars>>

-----------------------------------------------------------------------------
(* The network, external: puts of a rank arrive in the order of posting.   *)

\* A put reads the sender's chunk, arrives and raises the notification.
Land(r) ==
    LET put == Head(wire[r])
    IN /\ wire[r] # << >>
       /\ wire' = [wire EXCEPT ![r] = Tail(@)]
       /\ arrived' = [arrived EXCEPT ![Right(r)] =
             Append(@, [chunk |-> put.chunk, numel |-> put.numel, vals |-> tmpSend[r][put.chunk]])]
       /\ landed' = [landed EXCEPT ![r] = @ + 1]
       /\ notify' = [notify EXCEPT ![Right(r)] = @ + 1]
       /\ UNCHANGED <<hostVars, flagVars, block, bufferVars, sync>>

\* The GPU comes to see what arrived.
Settle(r) ==
    LET put == Head(arrived[r])
    IN /\ arrived[r] # << >>
       /\ arrived' = [arrived EXCEPT ![r] = Tail(@)]
       /\ tmpRecv' = [tmpRecv EXCEPT ![r][put.chunk] =
             [k \in Positions |-> IF k < put.numel THEN put.vals[k] ELSE @[k]]]
       /\ UNCHANGED <<hostVars, flagVars, block, data, tmpSend, wire, landed, notify, sync>>

HostStep(r) ==
    \/ SendCopyPost(r) \/ SendCopyDone(r) \/ SendTransPost(r) \/ SendTransDone(r)
    \/ RecvTrans(r) \/ RecvFlushPost(r) \/ RecvFlushDone(r)
    \/ RecvRedCopyPost(r) \/ RecvRedCopyDone(r) \/ PartitionDone(r)
BlockStep(r, b) ==
    BlockSend(r, b) \/ BlockRecv(r, b) \/ BlockNextPartition(r, b) \/ BlockAbort(r, b)
Network(r) == Land(r) \/ Settle(r)

Next ==
    \E r \in Ranks :
        HostStep(r) \/ HostAbort(r) \/ (\E b \in Blocks : BlockStep(r, b)) \/ Network(r)

Spec == Init /\ [][Next]_vars

\* Something that can be done is done in the end: the host polls and the blocks spin, each
\* in a loop, and puts arrive.  Nothing is assumed about who is served when.
Progress ==
    \E r \in Ranks : HostStep(r) \/ (\E b \in Blocks : BlockStep(r, b)) \/ Network(r)
Fairness == WF_vars(Progress)

FairSpec == Spec /\ Fairness

-----------------------------------------------------------------------------
(* Properties.                                                             *)

\* A rank whose all-reduce ended without an error has every rank's contribution to every
\* element, once, in its buffer, although another rank may have been aborted.
AllReduced == \A r \in Ranks : host[r] = "done" => \A e \in Elements : data[r][e] = Sum(e)

\* The chunk a block reduces next, once the host knows it to be received, is in tmpRecvBuf
\* what its round says: the shard's elements in order, with one rank more summed up per
\* step of the first phase, and all of them in the second.  Nobody writes the chunk of
\* either temporary buffer before its turn.
ReceivedIsDue ==
    \A r \in Ranks, b \in Blocks :
        LET x == block[r][b].RecvRedCopy
            args == RoundArgs(r, "RecvRedCopy", offset[r], x)
            from == {(r - i + mode.nRanks) % mode.nRanks : i \in 1 .. x.step + 1}
        IN block[r][b].partition = partition[r] /\ x.round < done[r].RecvFlush.round =>
             \A k \in 0 .. args.numel - 1 :
                tmpRecv[r][TmpChunk(x.round)][k] =
                    IF ReduceScatter(x.step) THEN {<<q, args.first + k>> : q \in from}
                    ELSE Sum(args.first + k)

\* The pipeline does not get stuck on its windows: every rank finishes, unless one is
\* aborted, and then too the blocks of a rank whose host ended, however it did, exit, also
\* the ones that wait for a partition.
RingOver ==
    /\ \A r \in Ranks : host[r] # "running" => \A b \in Blocks : block[r][b].exited
    /\ (\A r \in Ranks : host[r] = "done") \/ (\E r \in Ranks : host[r] = "aborted")
RingEnds == <>[]RingOver
=============================================================================
