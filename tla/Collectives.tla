---------------------------- MODULE Collectives ----------------------------
(***************************************************************************)
(* What the operations of TorchCommNCCLX ask of NCCL, rank by rank, and    *)
(* what comes out of it.  Every rank runs the same sequence of operations  *)
(* on its own stream; an operation is a sequence of launches, a launch the *)
(* calls of one NCCL group (or one call, or one copy).  NCCL is external:  *)
(* it matches the calls of the launches at the head of the streams.        *)
(*                                                                         *)
(* An element of a tensor is the set of input elements that went into it:  *)
(* {<<r, i, k>>} for the k-th element of tensor i (or of slice i) of rank  *)
(* r's input, a union of such sets for a reduction, {} for memory nobody   *)
(* has written.                                                            *)
(***************************************************************************)
EXTENDS Integers, SequencesExt

CONSTANTS
    Jobs,        \* the settings to explore, a sequence: see JobType
    MaxSplit,    \* bound: the slices one rank sends another
    MaxRow       \* bound: the slices one rank sends in an uneven exchange

VARIABLES
    job,      \* the setting, an index of Jobs, fixed
    prog,     \* the operations every rank performs, in this order
    at,       \* per rank: operations called so far
    group,    \* per rank: an NCCL group was started and not ended
    stream,   \* per rank: launches not finished, each with its operation
    out,      \* per rank: the output elements written
    threw     \* per rank: an operation has thrown

vars == <<job, prog, at, group, stream, out, threw>>

CommSize == Jobs[job].size     \* comm_size_
Kinds == Jobs[job].kinds       \* the operations explored
MaxOps == Jobs[job].ops        \* bound: operations issued by each rank
Width == Jobs[job].width       \* elements per slice of a single-tensor operation
Ranks == 0 .. CommSize - 1
Rooted == {"send", "broadcast", "reduce", "scatter", "gather"}
UnevenLists == {"all_gather_v", "reduce_scatter_v"}
UnevenExchanges == {"all_to_all", "all_to_all_v_single"}
Operations == Rooted \cup UnevenLists \cup UnevenExchanges \cup
    {"batch_op_issue", "all_reduce", "all_gather", "all_gather_single", "reduce_scatter",
     "reduce_scatter_single", "all_to_all_single", "barrier"}
NoRank == -1
NoSlot == -1

\* emptyInput: a rank may have nothing to send in an uneven exchange; throwing: the
\* operations that may be called in a way that throws.
JobType ==
    [size : Nat \ {0, 1}, kinds : SUBSET Operations, ops : Nat, width : Nat \ {0},
     emptyInput : BOOLEAN, throwing : SUBSET Operations]

-----------------------------------------------------------------------------
(* The arguments of an operation, agreed by all ranks: split[r][p] is the   *)
(* number of elements (or slices) rank r has for rank p; bad is the rank, if *)
(* any, whose call throws.                                                  *)

Matrices == [Ranks -> [Ranks -> 0 .. MaxSplit]]

Splits(op) ==
    CASE op \in UnevenExchanges ->
             {m \in Matrices : \A r \in Ranks :
                 LET row == MapThenSumSet(LAMBDA p : m[r][p], Ranks) IN
                 row <= MaxRow /\ (Jobs[job].emptyInput \/ row # 0)}
      [] op \in UnevenLists -> {m \in Matrices : \A r, p \in Ranks : m[r][p] = m[r][0]}
      [] OTHER -> {[r \in Ranks |-> [p \in Ranks |-> 1]]}

Requests == UNION {
    [op : {op}, root : IF op \in Rooted THEN Ranks ELSE {0}, split : Splits(op),
     bad : IF op \in Jobs[job].throwing THEN Ranks \cup {NoRank} ELSE {NoRank}] : op \in Kinds}

\* n elements of tensor i of rank r, and a tensor nobody has written.
Tensor(r, i, n) == [k \in 1 .. n |-> {<<r, i, k>>}]
Unwritten(n) == [k \in 1 .. n |-> {}]

\* A single tensor made of a part for each rank.
Joined(part(_)) == FlattenSeq([i \in 1 .. CommSize |-> part(i - 1)])

-----------------------------------------------------------------------------
(* NCCL calls.  The result of a receiving call is written to tensor slot of *)
(* the operation's output, from offset off.                                 *)

Call(call, peer, data, n, slot, off) ==
    [call |-> call, peer |-> peer, data |-> data, n |-> n, slot |-> slot, off |-> off]

Send(peer, data) == Call("send", peer, data, Len(data), NoSlot, 0)
Recv(peer, n, slot, off) == Call("recv", peer, << >>, n, slot, off)
Broadcast(root, data, slot) == Call("broadcast", root, data, Len(data), slot, 0)
Reduce(root, data, slot) == Call("reduce", root, data, Len(data), slot, 0)
AllReduce(data, slot) == Call("allReduce", 0, data, Len(data), slot, 0)
Copy(data, slot) == Call("memcpy", NoRank, data, Len(data), slot, 0)

\* One call (or local copy) for each rank i, in the order of the loops.
ForRanks(call(_)) == [i \in 1 .. CommSize |-> call(i - 1)]

\* ncclAllGather and ncclReduceScatter: a broadcast from, and a reduction to,
\* every rank.
AllGather(data) == ForRanks(LAMBDA i : Broadcast(i, data, i))
ReduceScatter(r, parts) ==
    ForRanks(LAMBDA i : Reduce(i, parts[i], IF i = r THEN 0 ELSE NoSlot))

\* ncclAllToAllv: counts and displacements in elements of the two buffers.
AllToAllv(input, sendcounts, senddispls, recvcounts, recvdispls) ==
    ForRanks(LAMBDA i : Send(i, SubSeq(input, senddispls[i] + 1,
                                              senddispls[i] + sendcounts[i])))
    \o ForRanks(LAMBDA i : Recv(i, recvcounts[i], 0, recvdispls[i]))

-----------------------------------------------------------------------------
(* The operations: the launches of rank r for the arguments q.              *)

Next1(r) == (r + 1) % CommSize
Prev1(r) == (r + CommSize - 1) % CommSize

\* send on the root, recv on the rank after it, nothing elsewhere.
SendRecv(r, q) ==
    (IF r = q.root THEN << <<Send(Next1(r), Tensor(r, 0, 1))>> >> ELSE << >>)
    \o (IF r = Next1(q.root) THEN << <<Recv(q.root, 1, 0, 0)>> >> ELSE << >>)

\* batch_op_issue, with a batch that passes a tensor around the ring.
BatchOpIssue(r) == << <<Send(Next1(r), Tensor(r, 0, 1)), Recv(Prev1(r), 1, 0, 0)>> >>

BroadcastOp(r, q) == << <<Broadcast(q.root, Tensor(r, 0, 1), 0)>> >>

AllReduceOp(r) == << <<AllReduce(Tensor(r, 0, 1), 0)>> >>

ReduceOp(r, q) ==
    << <<Reduce(q.root, Tensor(r, 0, 1), IF r = q.root THEN 0 ELSE NoSlot)>> >>

\* A barrier reduces a buffer nobody looks at.
Barrier == << <<AllReduce(Unwritten(1), NoSlot)>> >>

AllGatherSingle(r) == << AllGather(Tensor(r, 0, Width)) >>

ReduceScatterSingle(r) == << ReduceScatter(r, [i \in Ranks |-> Tensor(r, i, Width)]) >>

AllGatherList(r) == << ForRanks(LAMBDA i : Broadcast(i, Tensor(r, 0, 1), i)) >>

\* The tensor of rank i has a size of its own, so a rank that is not the root
\* of a broadcast passes its output as the input too.
AllGatherV(r, q) ==
    << ForRanks(LAMBDA i : Broadcast(i, IF i = r THEN Tensor(r, 0, q.split[i][0])
                                                 ELSE Unwritten(q.split[i][0]), i)) >>

ReduceScatterList(r) ==
    << ForRanks(LAMBDA i : Reduce(i, Tensor(r, i, 1), IF i = r THEN 0 ELSE NoSlot)) >>

ReduceScatterV(r, q) ==
    << ForRanks(LAMBDA i : Reduce(i, Tensor(r, i, q.split[i][0]),
                                  IF i = r THEN 0 ELSE NoSlot)) >>

\* all_to_all_single: equal chunks of numel / comm_size_ elements.
AllToAllSingle(r) ==
    LET input == Joined(LAMBDA p : Tensor(r, p, Width))
        chunk == Len(input) \div CommSize
        counts == [p \in Ranks |-> chunk]
        displs == [p \in Ranks |-> p * chunk]
    IN  << AllToAllv(input, counts, displs, counts, displs) >>

\* Fault: the offset is set to the last count, not advanced by it.
Displacements_LastOnly(counts) ==
    [i \in Ranks |-> IF i = 0 THEN 0 ELSE counts[i - 1]]

\* The sum of the counts before i: the running offset of the loop.
Displacements(counts) ==
    [i \in Ranks |-> MapThenSumSet(LAMBDA p : counts[p], 0 .. i - 1)]

\* all_to_all_v_single: the splits are scaled by the elements of a slice, which
\* are computed from the input.
AllToAllVSingle(r, q) ==
    LET input == Joined(LAMBDA p : Tensor(r, p, q.split[r][p] * Width))
        rows == MapThenSumSet(LAMBDA p : q.split[r][p], Ranks)
        slice == IF Len(input) # 0 THEN Len(input) \div rows ELSE 0
        sendcounts == [p \in Ranks |-> q.split[r][p] * slice]
        recvcounts == [p \in Ranks |-> q.split[p][r] * slice]
    IN  << AllToAllv(input, sendcounts, Displacements(sendcounts),
                     recvcounts, Displacements(recvcounts)) >>

\* Fault: the sends and receives are not grouped.
AllToAll_NoGroup(r, q) ==
    FlattenSeq(ForRanks(LAMBDA i : << <<Send(i, Tensor(r, i, q.split[r][i]))>>,
                                      <<Recv(i, q.split[i][r], i, 0)>> >>))

AllToAll(r, q) ==
    << FlattenSeq(ForRanks(LAMBDA i : <<Send(i, Tensor(r, i, q.split[r][i])),
                                        Recv(i, q.split[i][r], i, 0)>>)) >>

\* The ranks other than the root, in the order of the loop.
Others(q) == SelectSeq([i \in 1 .. CommSize |-> i - 1], LAMBDA i : i # q.root)

Scatter(r, q) ==
    IF r = q.root
    THEN << [j \in 1 .. CommSize - 1 |-> Send(Others(q)[j], Tensor(r, Others(q)[j], 1))],
            <<Copy(Tensor(r, r, 1), 0)>> >>
    ELSE << <<Recv(q.root, 1, 0, 0)>> >>

Gather(r, q) ==
    IF r = q.root
    THEN << [j \in 1 .. CommSize - 1 |-> Recv(Others(q)[j], 1, Others(q)[j], 0)],
            <<Copy(Tensor(r, 0, 1), r)>> >>
    ELSE << <<Send(q.root, Tensor(r, 0, 1))>> >>

Launches(r, q) ==
    CASE q.op = "send" -> SendRecv(r, q)
      [] q.op = "batch_op_issue" -> BatchOpIssue(r)
      [] q.op = "broadcast" -> BroadcastOp(r, q)
      [] q.op = "all_reduce" -> AllReduceOp(r)
      [] q.op = "reduce" -> ReduceOp(r, q)
      [] q.op = "all_gather" -> AllGatherList(r)
      [] q.op = "all_gather_v" -> AllGatherV(r, q)
      [] q.op = "all_gather_single" -> AllGatherSingle(r)
      [] q.op = "reduce_scatter" -> ReduceScatterList(r)
      [] q.op = "reduce_scatter_v" -> ReduceScatterV(r, q)
      [] q.op = "reduce_scatter_single" -> ReduceScatterSingle(r)
      [] q.op = "all_to_all_single" -> AllToAllSingle(r)
      [] q.op = "all_to_all_v_single" -> AllToAllVSingle(r, q)
      [] q.op = "all_to_all" -> AllToAll(r, q)
      [] q.op = "barrier" -> Barrier
      [] q.op = "scatter" -> Scatter(r, q)
      [] q.op = "gather" -> Gather(r, q)

-----------------------------------------------------------------------------
Init ==
    /\ job \in DOMAIN Jobs
    /\ prog \in [1 .. MaxOps -> Requests]
    /\ at = [r \in Ranks |-> 0]
    /\ group = [r \in Ranks |-> FALSE]
    /\ stream = [r \in Ranks |-> << >>]
    /\ out = [r \in Ranks |-> {}]
    /\ threw = [r \in Ranks |-> FALSE]

Upcoming(r) == prog[at[r] + 1]

\* The launches of the operation rank r is calling, as its stream holds them.
Tagged(r, launches) ==
    [j \in DOMAIN launches |-> [k |-> at[r] + 1, calls |-> launches[j]]]

\* An operation that returns has put its launches on the stream.
Issue(r) ==
    /\ at[r] < MaxOps /\ ~threw[r]
    /\ Upcoming(r).bad # r
    /\ at' = [at EXCEPT ![r] = @ + 1]
    /\ stream' = [stream EXCEPT ![r] = @ \o Tagged(r, Launches(r, Upcoming(r)))]
    /\ UNCHANGED <<job, prog, group, out, threw>>

\* The two operations that compare sizes between groupStart and groupEnd: the
\* group stays open, and later calls of the thread would only be added to it.
GroupAfterThrow(op) == op \in {"all_gather_v", "reduce_scatter_v"}

\* What an operation that throws may have launched.  Most throw before their
\* first NCCL call, or on it; batch_op_issue ends its group with the calls made
\* so far; the root of a scatter or gather may fail in the copy that comes last.
LaunchedBeforeThrow(r, q) ==
    {<< >>} \cup
    (CASE q.op = "batch_op_issue" -> {<< SubSeq(BatchOpIssue(r)[1], 1, 1) >>}
       [] q.op \in {"scatter", "gather"} /\ r = q.root -> {SubSeq(Launches(r, q), 1, 1)}
       [] OTHER -> {})

\* The operation throws, and with it ends the program of its rank.
IssueThrows(r) ==
    LET q == Upcoming(r) IN
    /\ at[r] < MaxOps /\ ~threw[r]
    /\ q.bad = r
    /\ threw' = [threw EXCEPT ![r] = TRUE]
    /\ group' = [group EXCEPT ![r] = GroupAfterThrow(q.op)]
    /\ \E ls \in LaunchedBeforeThrow(r, q) : stream' = [stream EXCEPT ![r] = @ \o Tagged(r, ls)]
    /\ UNCHANGED <<job, prog, at, out>>

-----------------------------------------------------------------------------
(* NCCL and the streams.                                                    *)

Calls(r) == IF stream[r] = << >> THEN << >> ELSE Head(stream[r]).calls

\* The first call of the running launch for which test holds, 0 if none.
FirstCall(r, test(_)) == SelectInSeq(Calls(r), test)

\* The stream without call j of its first launch, or without that launch.
Without(s, j) ==
    IF Len(Head(s).calls) = 1 THEN Tail(s)
    ELSE <<[Head(s) EXCEPT !.calls = RemoveAt(@, j)]>> \o Tail(s)

\* Call c of rank r's running launch delivers data.
Written(r, c, data) ==
    IF c.slot = NoSlot THEN {}
    ELSE {<<Head(stream[r]).k, c.slot, c.off + j, data[j]>> : j \in DOMAIN data}

SendTo(r, p) == FirstCall(r, LAMBDA c : c.call = "send" /\ c.peer = p)
RecvFrom(r, p) == FirstCall(r, LAMBDA c : c.call = "recv" /\ c.peer = p)

\* A send has met the receive of its peer.
CanTransfer(r, p) ==
    /\ SendTo(r, p) # 0 /\ RecvFrom(p, r) # 0
    /\ Calls(r)[SendTo(r, p)].n = Calls(p)[RecvFrom(p, r)].n

Transfer(r, p) ==
    LET i == SendTo(r, p)
        j == RecvFrom(p, r)
        from == Calls(r)[i]
        to == Calls(p)[j]
    IN
    /\ CanTransfer(r, p)
    /\ out' = [out EXCEPT ![p] = @ \cup Written(p, to, from.data)]
    /\ stream' = IF r = p
                 THEN [stream EXCEPT ![r] = LET s == Without(@, i) IN
                                            Without(s, IF i < j THEN j - 1 ELSE j)]
                 ELSE [stream EXCEPT ![r] = Without(@, i), ![p] = Without(@, j)]
    /\ UNCHANGED <<job, prog, at, group, threw>>

Collective == {"broadcast", "reduce", "allReduce"}
FirstCollective(r) == FirstCall(r, LAMBDA c : c.call \in Collective)

\* All ranks have reached the same collective call.
CanMeet ==
    /\ \A r \in Ranks : FirstCollective(r) # 0
    /\ \A r \in Ranks : LET c == Calls(r)[FirstCollective(r)]
                          d == Calls(0)[FirstCollective(0)]
                      IN  <<c.call, c.peer, c.n>> = <<d.call, d.peer, d.n>>

Rendezvous ==
    LET j == [r \in Ranks |-> FirstCollective(r)]
        c == [r \in Ranks |-> Calls(r)[j[r]]]
        union == [k \in 1 .. c[0].n |-> UNION {c[r].data[k] : r \in Ranks}]
        result(r) == CASE c[r].call = "broadcast" -> c[c[r].peer].data
                       [] c[r].call = "reduce" -> IF r = c[r].peer THEN union ELSE << >>
                       [] c[r].call = "allReduce" -> union
    IN
    /\ CanMeet
    /\ out' = [r \in Ranks |-> out[r] \cup Written(r, c[r], result(r))]
    /\ stream' = [r \in Ranks |-> Without(stream[r], j[r])]
    /\ UNCHANGED <<job, prog, at, group, threw>>

\* cudaMemcpyAsync.
CanCopy(r) == Calls(r) # << >> /\ Calls(r)[1].call = "memcpy"

LocalCopy(r) ==
    /\ CanCopy(r)
    /\ out' = [out EXCEPT ![r] = @ \cup Written(r, Calls(r)[1], Calls(r)[1].data)]
    /\ stream' = [stream EXCEPT ![r] = Without(@, 1)]
    /\ UNCHANGED <<job, prog, at, group, threw>>

Completed == \A r \in Ranks : at[r] = MaxOps /\ stream[r] = << >>

Next ==
    \/ \E r \in Ranks : Issue(r) \/ IssueThrows(r) \/ LocalCopy(r)
    \/ \E r, p \in Ranks : Transfer(r, p)
    \/ Rendezvous

Spec == Init /\ [][Next]_vars

-----------------------------------------------------------------------------
(* What each operation is for, and the properties.                          *)

Elements(slot, data) == {<<slot, k, data[k]>> : k \in DOMAIN data}
Reduced(i, n) == [k \in 1 .. n |-> {<<r, i, k>> : r \in Ranks}]

\* The elements of rank r's output that operation q shall write.
Result(r, q) ==
    CASE q.op = "send" ->
             IF r = Next1(q.root) THEN Elements(0, Tensor(q.root, 0, 1)) ELSE {}
      [] q.op = "batch_op_issue" -> Elements(0, Tensor(Prev1(r), 0, 1))
      [] q.op = "broadcast" -> Elements(0, Tensor(q.root, 0, 1))
      [] q.op = "all_reduce" -> Elements(0, Reduced(0, 1))
      [] q.op = "reduce" -> IF r = q.root THEN Elements(0, Reduced(0, 1)) ELSE {}
      [] q.op = "all_gather" -> UNION {Elements(i, Tensor(i, 0, 1)) : i \in Ranks}
      [] q.op = "all_gather_v" -> UNION {Elements(i, Tensor(i, 0, q.split[i][0])) : i \in Ranks}
      [] q.op = "all_gather_single" -> UNION {Elements(i, Tensor(i, 0, Width)) : i \in Ranks}
      [] q.op = "reduce_scatter" -> Elements(0, Reduced(r, 1))
      [] q.op = "reduce_scatter_v" -> Elements(0, Reduced(r, q.split[r][0]))
      [] q.op = "reduce_scatter_single" -> Elements(0, Reduced(r, Width))
      [] q.op = "all_to_all_single" -> Elements(0, Joined(LAMBDA p : Tensor(p, r, Width)))
      [] q.op = "all_to_all_v_single" ->
             Elements(0, Joined(LAMBDA p : Tensor(p, r, q.split[p][r] * Width)))
      [] q.op = "all_to_all" -> UNION {Elements(p, Tensor(p, r, q.split[p][r])) : p \in Ranks}
      [] q.op = "barrier" -> {}
      [] q.op = "scatter" -> Elements(0, Tensor(q.root, r, 1))
      [] q.op = "gather" ->
             IF r = q.root THEN UNION {Elements(i, Tensor(i, 0, 1)) : i \in Ranks} ELSE {}

Ended(r, k) == k <= at[r] /\ \A j \in DOMAIN stream[r] : stream[r][j].k > k

\* When the stream is past an operation on a rank, exactly the elements the
\* operation is for are in that rank's output, each from the right place: the
\* loops of point-to-point calls, broadcasts and reductions are the collectives
\* they stand for, whatever the order in which NCCL serves them.
ResultsCorrect ==
    \A r \in Ranks, k \in 1 .. MaxOps : Ended(r, k) =>
        {<<e[2], e[3], e[4]>> : e \in {f \in out[r] : f[1] = k}} = Result(r, prog[k])

\* What a rank sends a peer is as long as what the peer expects: "For a tensor
\* with shape [N, D1, D2, ..., Dk], each slice of size S along dim 0 contains
\* S * D1 * D2 * ... * Dk elements", on both sides.
CountsAgree ==
    \A r, p \in Ranks :
        SendTo(r, p) # 0 /\ RecvFrom(p, r) # 0 =>
            Calls(r)[SendTo(r, p)].n = Calls(p)[RecvFrom(p, r)].n

\* No order of the calls makes the ranks wait for each other: once every rank has made
\* its calls, some call can be served, until all are, unless an operation throws.  (A
\* step takes a call off a program or a stream, so every operation then ends.)
NeverStuck ==
    \/ Completed
    \/ CanMeet
    \/ \E r \in Ranks : threw[r] \/ at[r] < MaxOps \/ CanCopy(r)
    \/ \E r, p \in Ranks : CanTransfer(r, p)

=============================================================================
