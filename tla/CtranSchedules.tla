--------------------------- MODULE CtranSchedules ---------------------------
(***************************************************************************)
(* CTRAN's collectives that the GPE thread drives alone: every rank runs   *)
(* the same operations, one after the other on one stream, each with one   *)
(* of the algorithms of algos/AllGather, Broadcast, ReduceScatter,         *)
(* AllToAll and SendRecv.  An algorithm is, per rank, a program of steps:  *)
(* tell a peer where to write (isendCtrl), learn it from a peer            *)
(* (irecvCtrl), write to a peer (iput), wait for own writes (waitRequest)  *)
(* and for a peer's (waitNotify), and reduce through the kernel.           *)
(*                                                                         *)
(* Every rank is on a node of its own, so that all peers are reached over  *)
(* InfiniBand.  The copies before and after the kernel are steps of the    *)
(* program too: the stream orders them, and the GPE thread runs a program  *)
(* while its kernel runs (CtranGpe).                                       *)
(***************************************************************************)
EXTENDS Integers, Sequences, FiniteSets, TLC, SequencesExt

CONSTANT
    Jobs        \* what to explore: [nRanks, minReg, ops]; minReg is
                \* CTRAN_MIN_REGISTRATION_SIZE in elements

VARIABLES
    job,        \* the job, fixed
    current,    \* per rank: the index of the operation at hand
    todo,       \* per rank: the steps it has left
    mem,        \* per rank: what was written to its buffers, by location
    remote,     \* per pair: the address the first last learned from the second
    ctrl,       \* per pair: control messages on their way from first to second
    puts,       \* per pair: puts on their way
    notified    \* per pair: puts of the first that the second has not waited for

vars == <<job, current, todo, mem, remote, ctrl, puts, notified>>

Ranks == 0 .. job.nRanks - 1
Pairs == Ranks \X Ranks
Op(i) == job.ops[i]

-----------------------------------------------------------------------------
(* Memory.  An element is the set of contributions summed up in it: element *)
(* k of rank r's input to operation i is {<<i, r, k>>}.  Something summed   *)
(* twice or never written is the empty set.                                 *)

Address(buf, at) == [buf |-> buf, at |-> at]
At(a, n) == [a EXCEPT !.at = @ + n]
Locs(a, n) == {<<a.buf, a.at + k>> : k \in 0 .. n - 1}
Nowhere == Address(<<"none">>, 0)

Garbage == {}
Load(m, a, k) == LET l == <<a.buf, a.at + k>> IN IF l \in DOMAIN m THEN m[l] ELSE Garbage
Sum(a, b) == IF a \cap b = {} /\ Garbage \notin {a, b} THEN a \cup b ELSE Garbage
\* The memory after n elements at a got the values value(0), value(1), ...
Store(m, a, n, value(_)) == [l \in Locs(a, n) |-> value(l[2] - a.at)] @@ m

\* The buffers of CtranAlgo that all operations of a communicator share: the two halves of
\* INTERNODE_TMPBUF, and MIN_REG_SRC_TMPBUF and MIN_REG_DST_TMPBUF.
TmpRecv == Address(<<"tmpRecv">>, 0)
TmpRed == Address(<<"tmpRed">>, 0)
MinRegSrc == Address(<<"minRegSrc">>, 0)
MinRegDst == Address(<<"minRegDst">>, 0)

\* Elements of the send buffer; allToAllv and sendRecv have their count for it only.
SendElems(i) == IF Op(i).kind = "reduceScatter" THEN job.nRanks * Op(i).count ELSE Op(i).count

\* The user's buffers, in place or not.
SendBuff(i, r) ==
    CASE Op(i).inPlace /\ Op(i).kind = "allGather" -> Address(<<"recv", i>>, r * Op(i).count)
      [] Op(i).inPlace /\ Op(i).kind = "broadcast" -> Address(<<"recv", i>>, 0)
      [] OTHER -> Address(<<"send", i>>, 0)
RecvBuff(i, r) ==
    IF Op(i).inPlace /\ Op(i).kind = "reduceScatter" THEN Address(<<"send", i>>, r * Op(i).count)
    ELSE Address(<<"recv", i>>, 0)

-----------------------------------------------------------------------------
(* Steps.                                                                   *)

\* isendCtrl: where the peer may write; without a buffer, only that it may.
SendCtrl(to, a) == [do |-> "sendCtrl", to |-> to, addr |-> a]
\* irecvCtrl and waitRequest.
WaitCtrl(from) == [do |-> "waitCtrl", from |-> from]
\* iput of n elements to the peer's address plus off.
Put(to, src, off, n, notify) ==
    [do |-> "put", to |-> to, src |-> src, off |-> off, n |-> n, notify |-> notify]
\* irecvCtrl for each of a sequence of puts, and testRequest in a loop: each put is issued
\* when its control message is found.
PutAny(sends) == [do |-> "putAny", sends |-> sends]
\* waitRequest of the last put to a peer.
WaitPuts(to) == [do |-> "waitPuts", to |-> to]
WaitNotify(from) == [do |-> "waitNotify", from |-> from]
\* KernelElem::post and wait.
Reduce(dst, a, b, n) == [do |-> "reduce", dst |-> dst, a |-> a, b |-> b, n |-> n]
\* icopy or cudaMemcpyAsync on the stream.
Copy(dst, src, n) == [do |-> "copy", dst |-> dst, src |-> src, n |-> n]

When(condition, steps) == IF condition THEN steps ELSE << >>
\* The steps of an index, for all indices from first to last.
Each(first, last, steps(_)) ==
    FlattenSeq([k \in 1 .. last - first + 1 |-> steps(first + k - 1)])
\* The same for all peers of rank r, beginning with the next one.
EachPeer(r, steps(_)) ==
    LET n == job.nRanks
        Of(p) == steps((r + p) % n)
    IN Each(1, n - 1, Of)

Left(r) == (r + job.nRanks - 1) % job.nRanks
Right(r) == (r + 1) % job.nRanks
CeilDiv(a, b) == (a + b - 1) \div b
Least(a, b) == IF a < b THEN a ELSE b
\* ctran::utils::log2i.
Log2(n) == CHOOSE k \in 0 .. n : 2^k <= n /\ n < 2^(k + 1)
\* floorPow2.
FloorPow2(n) == IF n = 0 THEN 0 ELSE 2^Log2(n)

-----------------------------------------------------------------------------
(* All-gather.                                                              *)

\* impl of AllGatherRing.cc: a rank's block is cut into steps, and each is forwarded when its
\* notification arrives, but for those of the last block.
AllGatherRing(i, r, buf) ==
    LET n == job.nRanks
        count == Op(i).count
        stepSize == IF count <= Op(i).minSplit THEN count ELSE count \div Op(i).numSplit
        stepsPerBlock == CeilDiv(count, stepSize)
        PutStep(block, s) ==
            LET off == block * count + s * stepSize
            IN <<Put(Right(r), At(buf, off), off, Least(stepSize, count - s * stepSize), TRUE)>>
        Own(s) == PutStep(r, s)
        Forward(k) ==
            LET blockNum == k \div stepsPerBlock
            IN <<WaitNotify(Left(r))>> \o
               When(blockNum < n - 2, PutStep((r - blockNum - 1 + n) % n, k % stepsPerBlock))
    IN <<SendCtrl(Left(r), buf), WaitCtrl(Right(r))>> \o Each(0, stepsPerBlock - 1, Own)
       \o Each(0, (n - 1) * stepsPerBlock - 1, Forward) \o <<WaitPuts(Right(r))>>

\* impl of AllGatherRecDbl.cc: the distance is halved, the blocks double.
AllGatherRecDbl(i, r, buf) ==
    LET n == job.nRanks
        count == Op(i).count
        Peer(s) ==
            LET dist == n \div 2^(s + 1) IN IF (r \div dist) % 2 = 0 THEN r + dist ELSE r - dist
        Tell(s) == <<SendCtrl(Peer(s), buf)>>
        Step(s) ==
            LET PutBlock(j) ==
                    LET off == (j * (n \div 2^s) + (r % (n \div 2^s))) * count
                    IN <<Put(Peer(s), At(buf, off), off, count, j = 2^s - 1)>>
            IN When(Op(i).readyToRecv, Tell(s)) \o <<WaitCtrl(Peer(s))>>
               \o Each(0, 2^s - 1, PutBlock) \o <<WaitPuts(Peer(s)), WaitNotify(Peer(s))>>
    IN When(~Op(i).readyToRecv, Each(0, Log2(n) - 1, Tell)) \o Each(0, Log2(n) - 1, Step)

\* ceilLog2I, srcAtStep, dstAtStep, stateAtStep and sendsAtStep.
CeilLog2(p) == 1 + Log2(p - 1)
SrcAtStep(p, r, s) == (r + 2^(CeilLog2(p) - s - 1)) % p
DstAtStep(p, r, s) == (p + r - 2^(CeilLog2(p) - s - 1)) % p
StateAtStep(p, r, s) ==
    LET offset == 2^(CeilLog2(p) - s)
    IN {(r + k * offset) % p : k \in 0 .. 2^s - 1}
SendsAtStep(p, r, s) ==
    SetToSortSeq(StateAtStep(p, r, s) \ StateAtStep(p, DstAtStep(p, r, s), s), <)

\* impl of AllGatherBrucksFF.cc: each block in two halves, the first half of a step's blocks
\* sent before the second half of the step before has arrived.
AllGatherBrucksFF(i, r, buf) ==
    LET n == job.nRanks
        count == Op(i).count
        steps == CeilLog2(n)
        first == count \div 2
        Tell(s) == <<SendCtrl(SrcAtStep(n, r, s), buf)>>
        PutHalf(s, at, size) ==
            LET sends == SendsAtStep(n, r, s)
                PutBlock(j) ==
                    LET off == sends[j] * count + at
                    IN <<Put(DstAtStep(n, r, s), At(buf, off), off, size, j = Len(sends))>>
            IN Each(1, Len(sends), PutBlock)
        FirstHalf(s) == <<WaitCtrl(DstAtStep(n, r, s))>> \o PutHalf(s, 0, first)
        Step(s) ==
            PutHalf(s, first, count - first) \o <<WaitNotify(SrcAtStep(n, r, s))>>
            \o When(s < steps - 1, FirstHalf(s + 1)) \o <<WaitNotify(SrcAtStep(n, r, s))>>
        Wait(s) == <<WaitPuts(DstAtStep(n, r, s))>>
    IN Each(0, steps - 1, Tell) \o FirstHalf(0) \o Each(0, steps - 1, Step)
       \o Each(0, steps - 1, Wait)

\* impl of AllGatherDirect.cc, its part between nodes.
AllGatherDirect(i, r, buf) ==
    LET count == Op(i).count
        Tell(peer) == <<SendCtrl(peer, buf)>>
        Block(peer) == <<Put(peer, At(buf, r * count), r * count, count, TRUE)>>
        Wait(peer) == <<WaitPuts(peer), WaitNotify(peer)>>
    IN EachPeer(r, Tell) \o <<PutAny(EachPeer(r, Block))>> \o EachPeer(r, Wait)

\* prepareAllGatherArgs and the copy after submit: small messages go through a buffer that
\* is registered.
AllGather(i, r) ==
    LET count == Op(i).count
        total == job.nRanks * count
        small == total < job.minReg
        buf == IF small THEN MinRegDst ELSE RecvBuff(i, r)
    IN When(~Op(i).inPlace \/ small, <<Copy(At(buf, r * count), SendBuff(i, r), count)>>)
       \o (CASE Op(i).algo = "ring" -> AllGatherRing(i, r, buf)
             [] Op(i).algo = "recDbl" -> AllGatherRecDbl(i, r, buf)
             [] Op(i).algo = "brucks" -> AllGatherBrucksFF(i, r, buf)
             [] Op(i).algo = "direct" -> AllGatherDirect(i, r, buf))
       \o When(small, <<Copy(RecvBuff(i, r), buf, total)>>)

-----------------------------------------------------------------------------
(* Broadcast.                                                               *)

\* impl of BroadcastBinomialTree.cc: ranks are counted from the root; a rank receives from
\* the one its highest bit away, and sends to those that add a higher bit.
BinomialTree(i, r, buf) ==
    LET n == job.nRanks
        rootDist == (r - Op(i).root + n) % n
        recvOffset == FloorPow2(rootDist)
        sendOffset == IF rootDist = 0 THEN 1 ELSE 2 * recvOffset
        parent == (r - recvOffset + n) % n
        children == Cardinality({k \in 0 .. n : rootDist + sendOffset * 2^k < n})
        Child(k) == (r + sendOffset * 2^k) % n
        Send(k) == <<WaitCtrl(Child(k)), Put(Child(k), buf, 0, Op(i).count, TRUE)>>
        Wait(k) == <<WaitPuts(Child(k))>>
    IN When(rootDist # 0, <<SendCtrl(parent, buf), WaitNotify(parent)>>)
       \o Each(0, children - 1, Send) \o Each(0, children - 1, Wait)

\* impl of BroadcastDirect.cc; the root asks its peers in the order of their ranks.
BroadcastDirect(i, r, sbuf, dbuf) ==
    LET root == Op(i).root
        Send(p) == When(p # root, <<Put(p, sbuf, 0, Op(i).count, TRUE)>>)
        Wait(p) == When(p # root, <<WaitPuts(p)>>)
    IN IF r = root
         THEN <<PutAny(Each(0, job.nRanks - 1, Send))>> \o Each(0, job.nRanks - 1, Wait)
         ELSE <<SendCtrl(root, dbuf), WaitNotify(root)>>

\* ctranBroadcastBinomialTree and ctranBroadcastDirect.
Broadcast(i, r) ==
    LET count == Op(i).count
        small == count < job.minReg
        tree == Op(i).algo = "tree"
        isRoot == r = Op(i).root
        sbuf == IF small THEN MinRegSrc ELSE SendBuff(i, r)
        dbuf == IF small THEN MinRegDst ELSE RecvBuff(i, r)
    IN When(isRoot /\ ~Op(i).inPlace, <<Copy(RecvBuff(i, r), SendBuff(i, r), count)>>)
       \o When(small, <<IF tree THEN Copy(dbuf, RecvBuff(i, r), count)
                        ELSE Copy(sbuf, SendBuff(i, r), count)>>)
       \o (IF tree THEN BinomialTree(i, r, dbuf) ELSE BroadcastDirect(i, r, sbuf, dbuf))
       \o When(small /\ ~isRoot, <<Copy(RecvBuff(i, r), dbuf, count)>>)

-----------------------------------------------------------------------------
(* Reduce-scatter.                                                          *)

\* impl of ReduceScatterRing.cc: rounds of at most half the temporary buffer, in each of
\* which a partial sum goes round the ring to the rank it is for.
ReduceScatterRing(i, r) ==
    LET n == job.nRanks
        count == Op(i).count
        stepCount == Least(Op(i).halfTmp, count)
        rounds == CeilDiv(count, stepCount)
        Round(d) ==
            LET at == d * stepCount
                size == Least(stepCount, count - at)
                Chunk(pos) == At(SendBuff(i, r), at + pos * count)
                Step(s) ==
                    LET lastStep == s = n - 2
                        src == IF s = 0 THEN Chunk((n + r - 1) % n) ELSE TmpRed
                        dst == IF lastStep THEN At(RecvBuff(i, r), at) ELSE TmpRed
                    IN <<WaitCtrl(Right(r)), Put(Right(r), src, 0, size, TRUE),
                         WaitNotify(Left(r)), WaitPuts(Right(r)),
                         Reduce(dst, TmpRecv, Chunk((2 * n + r - 2 - s) % n), size)>>
                       \o When(~lastStep \/ d # rounds - 1, <<SendCtrl(Left(r), Nowhere)>>)
            IN Each(0, n - 2, Step)
    IN <<SendCtrl(Left(r), TmpRecv)>> \o Each(0, rounds - 1, Round)

\* impl of ReduceScatterRHD.cc: the distance doubles, the blocks halve.
ReduceScatterRHD(i, r, sbuf, dbuf) ==
    LET n == job.nRanks
        count == Op(i).count
        Bit(q, s) == (q \div 2^s) % 2
        Step(s) ==
            LET peer == IF Bit(r, s) = 0 THEN r + 2^s ELSE r - 2^s
                last == n \div 2^(s + 1) - 1
                \* The partial result of block j that rank q keeps in this step.
                Block(q, j) == IF s = 0 THEN At(sbuf, (2 * j + (q % 2)) * count)
                               ELSE At(TmpRed, (2 * j + Bit(q, s)) * count)
                PutBlock(j) == <<Put(peer, Block(peer, j), j * count, count, j = last)>>
                dst == IF s = Log2(n) - 1 THEN dbuf ELSE TmpRed
                ReduceBlock(j) ==
                    <<Reduce(At(dst, j * count), At(TmpRecv, j * count), Block(r, j), count)>>
            IN <<SendCtrl(peer, TmpRecv), WaitCtrl(peer)>> \o Each(0, last, PutBlock)
               \o <<WaitPuts(peer), WaitNotify(peer)>> \o Each(0, last, ReduceBlock)
    IN Each(0, Log2(n) - 1, Step)

\* ctranReduceScatterRHD; ctranReduceScatterRing takes the user's buffers as they are.
ReduceScatter(i, r) ==
    LET count == Op(i).count
        total == job.nRanks * count
        sbuf == IF total < job.minReg THEN MinRegSrc ELSE SendBuff(i, r)
        dbuf == IF count < job.minReg THEN MinRegDst ELSE RecvBuff(i, r)
    IN IF Op(i).algo = "ring" THEN ReduceScatterRing(i, r)
       ELSE When(total < job.minReg, <<Copy(sbuf, SendBuff(i, r), total)>>)
            \o ReduceScatterRHD(i, r, sbuf, dbuf)
            \o When(count < job.minReg, <<Copy(RecvBuff(i, r), dbuf, count)>>)

-----------------------------------------------------------------------------
(* All-to-all and groups of sends and receives.                             *)

\* The elements of a rank's buffer that belong to the ranks before q.
Before(counts, q) == FoldSeq(+, 0, SubSeq(counts, 1, q))

\* ctranAllToAllvIbImpl, and the kernel's copy of what a rank keeps; counts[r + 1][q + 1] is
\* what r sends to q, contiguous in both buffers.
AllToAllv(i, r) ==
    LET counts == Op(i).counts
        sendCounts == counts[r + 1]
        recvCounts == [q \in 1 .. job.nRanks |-> counts[q][r + 1]]
        From(q) == At(SendBuff(i, r), Before(sendCounts, q))
        Into(q) == At(RecvBuff(i, r), Before(recvCounts, q))
        Tell(q) == When(recvCounts[q + 1] # 0, <<SendCtrl(q, Into(q))>>)
        Send(q) == When(sendCounts[q + 1] # 0,
                        <<WaitCtrl(q), Put(q, From(q), 0, sendCounts[q + 1], TRUE)>>)
        Sent(q) == When(sendCounts[q + 1] # 0, <<WaitPuts(q)>>)
        Received(q) == When(recvCounts[q + 1] # 0, <<WaitNotify(q)>>)
    IN <<Copy(Into(r), From(r), sendCounts[r + 1])>> \o EachPeer(r, Tell) \o EachPeer(r, Send)
       \o EachPeer(r, Sent) \o EachPeer(r, Received)

\* sendRecvSelfImpl and sendRecvImpl for the group calls[r + 1], a sequence of sends and
\* receives: [send, peer, at, n], at being the place in the rank's buffer.
SendRecv(i, r) ==
    LET calls == Op(i).calls[r + 1]
        Calls(isSend, self) ==
            SelectSeq(calls, LAMBDA c : c.send = isSend /\ (c.peer = r) = self)
        sends == Calls(TRUE, FALSE)
        recvs == Calls(FALSE, FALSE)
        Self(k) == <<Copy(At(RecvBuff(i, r), Calls(FALSE, TRUE)[k].at),
                          At(SendBuff(i, r), Calls(TRUE, TRUE)[k].at), Calls(TRUE, TRUE)[k].n)>>
        Tell(k) == <<SendCtrl(recvs[k].peer, At(RecvBuff(i, r), recvs[k].at))>>
        Send(k) == <<Put(sends[k].peer, At(SendBuff(i, r), sends[k].at), 0, sends[k].n, TRUE)>>
        Sent(k) == <<WaitPuts(sends[k].peer)>>
        Received(k) == <<WaitNotify(recvs[k].peer)>>
    IN Each(1, Len(Calls(TRUE, TRUE)), Self) \o Each(1, Len(recvs), Tell)
       \o <<PutAny(Each(1, Len(sends), Send))>> \o Each(1, Len(sends), Sent)
       \o Each(1, Len(recvs), Received)

Program(i, r) ==
    CASE Op(i).kind = "allGather" -> AllGather(i, r)
      [] Op(i).kind = "broadcast" -> Broadcast(i, r)
      [] Op(i).kind = "reduceScatter" -> ReduceScatter(i, r)
      [] Op(i).kind = "allToAllv" -> AllToAllv(i, r)
      [] Op(i).kind = "sendRecv" -> SendRecv(i, r)

-----------------------------------------------------------------------------
(* Running the programs.                                                    *)

InputOf(i, r) ==
    LET Input(k) == {<<i, r, k>>}
    IN Store(<< >>, SendBuff(i, r), SendElems(i), Input)

Init ==
    /\ job \in Jobs
    /\ current = [r \in Ranks |-> 1]
    /\ todo = [r \in Ranks |-> Program(1, r)]
    /\ mem = [r \in Ranks |-> FoldLeft(@@, << >>, [i \in DOMAIN job.ops |-> InputOf(i, r)])]
    /\ remote = [p \in Pairs |-> Nowhere]
    /\ ctrl = [p \in Pairs |-> << >>]
    /\ puts = [p \in Pairs |-> << >>]
    /\ notified = [p \in Pairs |-> 0]

\* The next step of rank r is of this kind.
Due(r, do) == todo[r] # << >> /\ Head(todo[r]).do = do
Step(r) == Head(todo[r])
StepDone(r) == todo' = [todo EXCEPT ![r] = Tail(@)]

DoSendCtrl(r) ==
    /\ Due(r, "sendCtrl")
    /\ ctrl' = [ctrl EXCEPT ![r, Step(r).to] = Append(@, Step(r).addr)]
    /\ StepDone(r)
    /\ UNCHANGED <<job, current, mem, remote, puts, notified>>

\* Control messages of a peer complete the requests in the order they were posted.
DoWaitCtrl(r) ==
    LET from == Step(r).from
    IN /\ Due(r, "waitCtrl")
       /\ ctrl[from, r] # << >>
       /\ remote' = [remote EXCEPT ![r, from] =
                        IF Head(ctrl[from, r]) = Nowhere THEN @ ELSE Head(ctrl[from, r])]
       /\ ctrl' = [ctrl EXCEPT ![from, r] = Tail(@)]
       /\ StepDone(r)
       /\ UNCHANGED <<job, current, mem, puts, notified>>

\* The put of a step on its way to an address.
Issue(r, put, addr) ==
    puts' = [puts EXCEPT ![r, put.to] =
                Append(@, [src |-> put.src, dst |-> At(addr, put.off), n |-> put.n,
                           notify |-> put.notify])]

DoPut(r) ==
    /\ Due(r, "put")
    /\ Issue(r, Step(r), remote[r, Step(r).to])
    /\ StepDone(r)
    /\ UNCHANGED <<job, current, mem, remote, ctrl, notified>>

\* A put to a peer takes the message for its request: that after those for the earlier
\* requests that were not found complete yet.
DoPutAny(r) ==
    /\ Due(r, "putAny")
    /\ \E k \in DOMAIN Step(r).sends :
          LET sends == Step(r).sends
              to == sends[k].to
              place == 1 + Cardinality({j \in 1 .. k - 1 : sends[j].to = to})
          IN /\ place <= Len(ctrl[to, r])
             /\ Issue(r, sends[k], ctrl[to, r][place])
             /\ ctrl' = [ctrl EXCEPT ![to, r] = RemoveAt(@, place)]
             /\ todo' = [todo EXCEPT ![r][1].sends = RemoveAt(@, k)]
    /\ UNCHANGED <<job, current, mem, remote, notified>>

\* All puts of the loop are issued.
DoPutAnyEnd(r) ==
    /\ Due(r, "putAny") /\ Step(r).sends = << >>
    /\ StepDone(r)
    /\ UNCHANGED <<job, current, mem, remote, ctrl, puts, notified>>

\* Fault: a put counts as complete when it is issued.
Landed_Issued(r, to) == TRUE

\* The puts to a peer are complete: it has the data.
Landed(r, to) == puts[r, to] = << >>

DoWaitPuts(r) ==
    /\ Due(r, "waitPuts")
    /\ Landed(r, Step(r).to)
    /\ StepDone(r)
    /\ UNCHANGED <<job, current, mem, remote, ctrl, puts, notified>>

DoWaitNotify(r) ==
    /\ Due(r, "waitNotify")
    /\ notified[Step(r).from, r] > 0
    /\ notified' = [notified EXCEPT ![Step(r).from, r] = @ - 1]
    /\ StepDone(r)
    /\ UNCHANGED <<job, current, mem, remote, ctrl, puts>>

\* The kernel reduces two sources, or the stream copies one, into the destination.
DoReduce(r) ==
    LET Reduced(k) == Sum(Load(mem[r], Step(r).a, k), Load(mem[r], Step(r).b, k))
    IN /\ Due(r, "reduce")
       /\ mem' = [mem EXCEPT ![r] = Store(@, Step(r).dst, Step(r).n, Reduced)]
       /\ StepDone(r)
       /\ UNCHANGED <<job, current, remote, ctrl, puts, notified>>

DoCopy(r) ==
    LET Copied(k) == Load(mem[r], Step(r).src, k)
    IN /\ Due(r, "copy")
       /\ mem' = [mem EXCEPT ![r] = Store(@, Step(r).dst, Step(r).n, Copied)]
       /\ StepDone(r)
       /\ UNCHANGED <<job, current, remote, ctrl, puts, notified>>

\* The stream goes on to the rank's next operation.
NextOp(r) ==
    /\ todo[r] = << >> /\ current[r] < Len(job.ops)
    /\ current' = [current EXCEPT ![r] = @ + 1]
    /\ todo' = [todo EXCEPT ![r] = Program(current[r] + 1, r)]
    /\ UNCHANGED <<job, mem, remote, ctrl, puts, notified>>

\* A put of CtranMapper::iput is carried out: the oldest one from r to a peer reads its
\* source, arrives, and raises the peer's notification.  Puts to a peer land in the order
\* they were posted, which CtranIbVc shows of spray mode, and of dqplb mode when every put
\* notifies; puts that do not notify may overtake each other in dqplb mode.
Land(r, to) ==
    LET put == Head(puts[r, to])
        Written(k) == Load(mem[r], put.src, k)
    IN /\ puts[r, to] # << >>
       /\ mem' = [mem EXCEPT ![to] = Store(@, put.dst, put.n, Written)]
       /\ notified' = [notified EXCEPT ![r, to] = IF put.notify THEN @ + 1 ELSE @]
       /\ puts' = [puts EXCEPT ![r, to] = Tail(@)]
       /\ UNCHANGED <<job, current, todo, remote, ctrl>>

RankStep(r) ==
    \/ DoSendCtrl(r) \/ DoWaitCtrl(r) \/ DoPut(r) \/ DoPutAny(r) \/ DoPutAnyEnd(r)
    \/ DoWaitPuts(r) \/ DoWaitNotify(r) \/ DoReduce(r) \/ DoCopy(r) \/ NextOp(r)

Next == \E r \in Ranks : RankStep(r) \/ (\E to \in Ranks : Land(r, to))

Spec == Init /\ [][Next]_vars

\* What can be done is done in the end: the GPE threads poll, and puts arrive.
Fairness == WF_vars(Next)

FairSpec == Spec /\ Fairness

-----------------------------------------------------------------------------
(* Properties.                                                              *)

\* Rank r has ended operation i.
Over(r, i) == current[r] > i \/ (current[r] = i /\ todo[r] = << >>)

\* The n elements at a of rank r's memory are value(0), value(1), ...
Holds(r, a, n, value(_)) == \A k \in 0 .. n - 1 : Load(mem[r], a, k) = value(k)

\* The calls of rank r in operation i that send to q, or receive from it.
CallsWith(i, r, q, isSend) ==
    SelectSeq(Op(i).calls[r + 1], LAMBDA c : c.send = isSend /\ c.peer = q)

\* What operation i is to leave at rank r.
Delivered(i, r) ==
    LET count == Op(i).count
        recv == RecvBuff(i, r)
    IN CASE Op(i).kind = "allGather" ->
              \A q \in Ranks :
                LET Own(k) == {<<i, q, k>>} IN Holds(r, At(recv, q * count), count, Own)
         [] Op(i).kind = "broadcast" ->
              LET Root(k) == {<<i, Op(i).root, k>>} IN Holds(r, recv, count, Root)
         [] Op(i).kind = "reduceScatter" ->
              LET All(k) == {<<i, q, r * count + k>> : q \in Ranks} IN Holds(r, recv, count, All)
         [] Op(i).kind = "allToAllv" ->
              \A q \in Ranks :
                LET sent == Op(i).counts[q + 1]
                    received == [p \in 1 .. job.nRanks |-> Op(i).counts[p][r + 1]]
                    Part(k) == {<<i, q, Before(sent, r) + k>>}
                IN Holds(r, At(recv, Before(received, q)), sent[r + 1], Part)
         [] Op(i).kind = "sendRecv" ->
              \A q \in Ranks :
                LET sends == CallsWith(i, q, r, TRUE)
                    recvs == CallsWith(i, r, q, FALSE)
                IN \A j \in DOMAIN recvs :
                     LET Sent(k) == {<<i, q, sends[j].at + k>>}
                     IN Holds(r, At(recv, recvs[j].at), recvs[j].n, Sent)

\* A rank that ended an operation has the result in its receive buffer, every contribution
\* once, and keeps it while the others go on and later operations use the same temporary
\* buffers, control messages and notifications.  Between two operations it has no put on
\* its way and no notification left over, which the next one would take for its own.
SchedulesCorrect ==
    \A r \in Ranks :
        /\ \A i \in DOMAIN job.ops : Over(r, i) => Delivered(i, r)
        /\ todo[r] = << >> =>
             \A q \in Ranks : puts[r, q] = << >> /\ notified[q, r] = 0

\* Every rank has ended its last operation.
AllOver == \A r \in Ranks : Over(r, Len(job.ops))

\* No rank waits for ever for a control message, a notification or a put.
SchedulesEnd == <>[]AllOver
=============================================================================
