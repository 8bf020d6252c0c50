------------------------------ MODULE CtranIbVc ------------------------------
(* The puts of one rank to another over an InfiniBand virtual connection of      *)
(* CTRAN (CtranIbVc.h): a put is split into writes on several queue pairs (QPs), *)
(* each of which delivers and acknowledges its own writes in order, and the      *)
(* receiver is told of puts by the immediate data of writes or, in spray mode,   *)
(* by a write of no data on a QP of its own.                                     *)
(*                                                                              *)
(* One action of a rank is one call of CtranIb or one completion it polls, both  *)
(* under the connection's mutex; LandWrite and LandNotify are the network, which *)
(* carries a QP's writes in order and keeps one waiting for a posted receive     *)
(* (rnr_retry = 7 is forever).  The length of a put is the number of writes it   *)
(* is split into, addresses and keys are left out, and so are gets and atomics.  *)
EXTENDS Integers, Sequences, FiniteSets, SequencesExt, Functions

\* What a behaviour does: the connection's parameters [vcMode, numQps, devices,
\* maxQpMsgs, sendWrs, recvWrs, seqMod], puts, a sequence of [wqes, notify], and calls, a
\* sequence of [kind, ids, wait]: one iput ("put", or "fast") or iputBatch ("batch") of the
\* puts ids, which the caller makes after the requests of all earlier puts if wait.
CONSTANT VcModes

VARIABLES
    mode,         \* the element of VcModes
    calls,        \* calls the sender has still to make
    snd,          \* the sender's side of the connection, see SenderInit
    sq,           \* per QP, the writes posted and not yet polled as complete
    arrived,      \* per QP, how many of them have landed
    notifyArrived,\* the same for the writes of the notify QP
    recvs,        \* per QP, the receives posted
    cq,           \* per device of the receiver, completions not yet polled
    rcv,          \* the receiver's side of the connection, see ReceiverInit
    data          \* per put, how many of its writes have landed

network == <<sq, arrived, notifyArrived, recvs, cq, data>>
vars == <<mode, calls, snd, rcv, network>>

NotifyQp == -1
NoSeq == -1
FastQp == 0

PutIds == DOMAIN mode.puts
Put(k) == mode.puts[k]
Spray == mode.vcMode = "spray"
Qps == 0 .. mode.numQps - 1

getIbDevFromQpIdx(q) ==
    IF q = NotifyQp THEN 0 ELSE q \div (mode.numQps \div mode.devices)

\* snd.pendingWrites are the writes of the puts not yet completely posted (pendingPuts_),
\* in order; on QP q are those of regular puts snd.pendingWqeQs[q], and on QP 0 those of
\* snd.outstandingFastPuts.  snd.posts[q] is what a step is about to post.
SenderInit ==
    snd = [pendingWrites |-> << >>, outstandingPuts |-> << >>, outstandingFastPuts |-> << >>,
           pendingNotifies |-> << >>, outstandingNotifies |-> << >>,
           pendingWqeQs |-> [q \in Qps |-> << >>], posts |-> [q \in Qps |-> << >>],
           qpIdxRR |-> 0, sndNxt |-> 0, complete |-> {}, rejected |-> {}]

ReceiverInit ==
    rcv = [rcvNxt |-> 0, rcvdSeqNums |-> [s \in {} |-> FALSE], notifyCount |-> 0]

\* setupVc has posted the receives.
Init ==
    /\ mode \in VcModes
    /\ calls = mode.calls
    /\ SenderInit
    /\ ReceiverInit
    /\ sq = [q \in Qps |-> << >>]
    /\ arrived = [q \in Qps |-> 0]
    /\ notifyArrived = 0
    /\ recvs = [q \in Qps \cup {NotifyQp} |-> mode.recvWrs]
    /\ cq = [d \in 0 .. mode.devices - 1 |-> << >>]
    /\ data = [k \in PutIds |-> 0]

-------------------------------------------------------------------------------
(* Posting.  The operators below map a state s of the sender to the next one.    *)

NextSeq(n) == (n + 1) % mode.seqMod

\* Only a notified put of dqplb mode gives its writes sequence numbers.
IsNumbered(k) == ~Spray /\ Put(k).notify

\* queueWriteOnQp for one QP after the other: the first pending writes go to the QPs qs.
QueueWritesOnQps(s, qs) ==
    LET write(j) == s.pendingWrites[j]
        numbered == {j \in DOMAIN qs : IsNumbered(write(j).put)}
        seq(j) == (s.sndNxt + Cardinality({i \in numbered : i < j})) % mode.seqMod
        wqe(j) == [put |-> write(j).put, fast |-> FALSE,
                   notify |-> j \in numbered /\ write(j).final,
                   seq |-> IF j \in numbered THEN seq(j) ELSE NoSeq]
        isFinal(w) == w.final
        finals == SelectSeq(SubSeq(s.pendingWrites, 1, Len(qs)), isFinal)
        on == [q \in Qps |-> SelectSeq([j \in DOMAIN qs |-> j], LAMBDA j : qs[j] = q)]
    IN  [s EXCEPT !.pendingWrites = SubSeq(@, Len(qs) + 1, Len(@)),
                  !.outstandingPuts = @ \o [i \in DOMAIN finals |-> finals[i].put],
                  !.pendingWqeQs =
                      [q \in Qps |-> @[q] \o [i \in DOMAIN on[q] |-> write(on[q][i]).put]],
                  !.posts = [q \in Qps |-> [i \in DOMAIN on[q] |-> wqe(on[q][i])]],
                  !.sndNxt = seq(Len(qs) + 1)]

QueueWriteOnQp(s, q) == QueueWritesOnQps(s, IF s.pendingWrites = << >> THEN << >> ELSE <<q>>)

\* tryToPostOp: in rounds, the QPs from qpIdxRR on are offered a write each, until there
\* is none or a round posts nothing.  Offer i is made in round i \div numQps, and a QP
\* with room for r more writes takes the offers of r rounds.
TryToPostOp(s) ==
    LET n == mode.numQps
        room(q) == mode.maxQpMsgs - Len(s.pendingWqeQs[q])
                     - (IF q = FastQp THEN Len(s.outstandingFastPuts) ELSE 0)
        qp(i) == (s.qpIdxRR + i) % n
        taken == SelectSeq([i \in 1 .. n * mode.maxQpMsgs |-> i - 1],
                           LAMBDA i : i \div n < room(qp(i)))
        m == IF Len(s.pendingWrites) <= Len(taken) THEN Len(s.pendingWrites) ELSE Len(taken)
        posted == QueueWritesOnQps(s, [j \in 1 .. m |-> qp(taken[j])])
    IN  IF m > 0 /\ m = Len(s.pendingWrites)
        THEN [posted EXCEPT !.qpIdxRR = qp(taken[m] + 1)]
        ELSE posted

\* Fault: the writes of one QP only are looked at.
IsAcked_OneQp(s, k) == k \notin Range(s.pendingWqeQs[FastQp])

\* No write of put k is outstanding.
IsAcked(s, k) == \A q \in Qps : k \notin Range(s.pendingWqeQs[q])

\* burnDownPuts completes puts in the order they were posted in; a notified put of
\* spray mode is notified now, and its request completes with the notification.
BurnDownPuts(s) ==
    IF s.outstandingFastPuts # << >> THEN s
    ELSE LET out == s.outstandingPuts
             n == CHOOSE i \in 0 .. Len(out) :
                      /\ \A j \in 1 .. i : IsAcked(s, out[j])
                      /\ i < Len(out) => ~IsAcked(s, out[i + 1])
             toNotify == SelectSeq(SubSeq(out, 1, n), LAMBDA k : Spray /\ Put(k).notify)
         IN  [s EXCEPT !.outstandingPuts = SubSeq(@, n + 1, Len(@)),
                       !.complete = @ \cup ({out[i] : i \in 1 .. n} \ Range(toNotify)),
                       !.pendingNotifies = @ \o toNotify]

\* tryPostImmNotifyMsg, n times: the first pending notifications, as the QP has room.
TryPostNotifies(s, n) ==
    LET room == mode.sendWrs - Len(s.outstandingNotifies)
        k == CHOOSE i \in 0 .. n :
                 /\ i <= room /\ i <= Len(s.pendingNotifies)
                 /\ i = n \/ i = room \/ i = Len(s.pendingNotifies)
    IN  [s EXCEPT !.outstandingNotifies = @ \o SubSeq(s.pendingNotifies, 1, k),
                  !.pendingNotifies = SubSeq(@, k + 1, Len(@))]

\* How many notifications burnDownPuts added.
Added(s, t) == Len(t.pendingNotifies) - Len(s.pendingNotifies)

\* What a step of the sender posts reaches the QPs; base is what they held before.
Posts(sender, base) ==
    \E s \in {sender} :
        /\ snd' = [s EXCEPT !.posts = [q \in Qps |-> << >>]]
        /\ sq' = [q \in Qps |-> base[q] \o s.posts[q]]

-------------------------------------------------------------------------------
(* The sender.                                                                  *)

isFastPutValid(ids) ==
    /\ snd.outstandingPuts = << >> /\ snd.pendingWrites = << >>
    /\ Len(snd.outstandingFastPuts) + Len(ids) <= mode.maxQpMsgs
    /\ \A i \in DOMAIN ids : Put(ids[i]).wqes = 1

\* processFastWriteWqe: one write on QP 0 each, which takes a sequence number but does
\* not carry it.
PostFast(ids) ==
    LET write(k) == [put |-> k, fast |-> TRUE, notify |-> Put(k).notify, seq |-> NoSeq]
        s == [snd EXCEPT !.posts[FastQp] = [i \in DOMAIN ids |-> write(ids[i])],
                         !.outstandingFastPuts = @ \o ids,
                         !.sndNxt = (@ + Len(ids)) % mode.seqMod]
    IN  Posts(s, sq)

PostRegular(ids) ==
    LET writes(k) == [i \in 1 .. Put(k).wqes |-> [put |-> k, final |-> i = Put(k).wqes]]
        all == FlattenSeq([i \in DOMAIN ids |-> writes(ids[i])])
    IN  Posts(TryToPostOp([snd EXCEPT !.pendingWrites = @ \o all]), sq)

\* iput and iputBatch.  An iput that asks for the fast path and may not take it is
\* refused; a batch falls back.
Iput ==
    /\ calls # << >>
    /\ LET call == Head(calls)
           earlier == {k \in PutIds : k < call.ids[1]} \ snd.rejected
       IN  /\ call.wait => earlier \subseteq snd.complete
           /\ CASE call.kind # "put" /\ isFastPutValid(call.ids) -> PostFast(call.ids)
                [] call.kind = "fast" /\ ~isFastPutValid(call.ids) ->
                       /\ snd' = [snd EXCEPT !.rejected = @ \cup Range(call.ids)]
                       /\ UNCHANGED sq
                [] OTHER -> PostRegular(call.ids)
    /\ calls' = Tail(calls)
    /\ UNCHANGED <<mode, rcv, arrived, notifyArrived, recvs, cq, data>>

\* writeComplete on a data QP: the completion is taken for the first fast put as long as
\* there is one, for the first write of the QP's queue otherwise.
WriteComplete(q) ==
    /\ arrived[q] > 0
    /\ arrived' = [arrived EXCEPT ![q] = @ - 1]
    /\ LET acked ==
               IF q = FastQp /\ snd.outstandingFastPuts # << >>
               THEN [snd EXCEPT !.complete = @ \cup {Head(snd.outstandingFastPuts)},
                                !.outstandingFastPuts = Tail(@)]
               ELSE [snd EXCEPT !.pendingWqeQs[q] = Tail(@)]
       IN  \E s \in {acked} : \E t \in {BurnDownPuts(s)} :
               Posts(QueueWriteOnQp(TryPostNotifies(t, Added(s, t)), q),
                     [sq EXCEPT ![q] = Tail(@)])
    /\ UNCHANGED <<mode, calls, rcv, notifyArrived, recvs, cq, data>>

\* writeComplete on the notify QP.
NotifyComplete ==
    /\ notifyArrived > 0
    /\ notifyArrived' = notifyArrived - 1
    /\ snd' = TryPostNotifies(
                  [snd EXCEPT !.complete = @ \cup {Head(snd.outstandingNotifies)},
                              !.outstandingNotifies = Tail(@)], 1)
    /\ UNCHANGED <<mode, calls, rcv, sq, arrived, recvs, cq, data>>

-------------------------------------------------------------------------------
(* The network.                                                                 *)

\* A write with immediate data takes a receive and leaves a completion.
Deliver(q, completion) ==
    /\ recvs[q] > 0
    /\ recvs' = [recvs EXCEPT ![q] = @ - 1]
    /\ cq' = [cq EXCEPT ![getIbDevFromQpIdx(q)] = Append(@, completion)]

LandWrite(q) ==
    /\ arrived[q] < Len(sq[q])
    /\ LET write == sq[q][arrived[q] + 1]
       IN  /\ data' = [data EXCEPT ![write.put] = @ + 1]
           /\ IF write.fast \/ write.seq # NoSeq
              THEN Deliver(q, [qp |-> q, fast |-> write.fast, notify |-> write.notify,
                               seq |-> write.seq])
              ELSE UNCHANGED <<recvs, cq>>
    /\ arrived' = [arrived EXCEPT ![q] = @ + 1]
    /\ UNCHANGED <<mode, calls, snd, rcv, sq, notifyArrived>>

LandNotify ==
    /\ notifyArrived < Len(snd.outstandingNotifies)
    /\ Deliver(NotifyQp, [qp |-> NotifyQp, fast |-> FALSE, notify |-> TRUE, seq |-> NoSeq])
    /\ notifyArrived' = notifyArrived + 1
    /\ UNCHANGED <<mode, calls, snd, rcv, sq, arrived, data>>

-------------------------------------------------------------------------------
(* The receiver.                                                                *)

\* Fault: every number received is next.
InOrder_All(r) == SetToSeq(DOMAIN r.rcvdSeqNums)

\* The numbers r.rcvNxt, ..., in a row that have been received.
InOrder(r) ==
    LET at(i) == (r.rcvNxt + i) % mode.seqMod
        n == CHOOSE i \in 0 .. mode.seqMod :
                 /\ \A j \in 0 .. i - 1 : at(j) \in DOMAIN r.rcvdSeqNums
                 /\ i < mode.seqMod => at(i) \notin DOMAIN r.rcvdSeqNums
    IN  [j \in 1 .. n |-> at(j - 1)]

\* The loop at the end of writeImmRcvd.
Advance(r) ==
    LET run == InOrder(r)
    IN  [rcvNxt |-> (r.rcvNxt + Len(run)) % mode.seqMod,
         rcvdSeqNums |-> Restrict(r.rcvdSeqNums, DOMAIN r.rcvdSeqNums \ Range(run)),
         notifyCount |-> r.notifyCount + Len(SelectSeq(run, LAMBDA n : r.rcvdSeqNums[n]))]

\* writeImmRcvd, and postRecvNotifyMsg.
WriteImmRcvd(d) ==
    /\ cq[d] # << >>
    /\ LET wc == Head(cq[d])
       IN  /\ rcv' = CASE wc.qp = NotifyQp -> [rcv EXCEPT !.notifyCount = @ + 1]
                       [] wc.qp # NotifyQp /\ wc.fast ->
                              Advance([rcv EXCEPT !.rcvNxt = NextSeq(@),
                                           !.notifyCount = IF wc.notify THEN @ + 1 ELSE @])
                       [] OTHER ->
                              Advance([rcv EXCEPT !.rcvdSeqNums =
                                           [n \in DOMAIN @ \cup {wc.seq} |->
                                               IF n = wc.seq THEN wc.notify ELSE @[n]]])
           /\ recvs' = [recvs EXCEPT ![wc.qp] = @ + 1]
    /\ cq' = [cq EXCEPT ![d] = Tail(@)]
    /\ UNCHANGED <<mode, calls, snd, sq, arrived, notifyArrived, data>>

-------------------------------------------------------------------------------
Next ==
    \/ Iput
    \/ \E q \in Qps : WriteComplete(q)
    \/ NotifyComplete
    \/ \E q \in Qps : LandWrite(q)
    \/ LandNotify
    \/ \E d \in DOMAIN cq : WriteImmRcvd(d)

\* Every step uses up a call, a write or a completion, so that it is enough that
\* somebody goes on.
Spec == Init /\ [][Next]_vars /\ WF_vars(Next)

-------------------------------------------------------------------------------
Landed(k) == data[k] = Put(k).wqes
Issued == PutIds \ snd.rejected

\* The notified puts in the order they were issued in.
Notified == SelectSeq([k \in PutIds |-> k], LAMBDA k : k \in Issued /\ Put(k).notify)

\* Puts of dqplb mode that ask for no notification are not counted by the receiver unless
\* they are fast.
IsTracked(k) ==
    \/ Spray \/ Put(k).notify
    \/ \E i \in DOMAIN mode.calls : k \in Range(mode.calls[i].ids) /\ mode.calls[i].kind = "fast"

\* When n notifications have been counted (writeImmRcvd), the data of the first n notified
\* puts is there, and that of every put before them whose writes the receiver can track.
NotifiedHaveLanded ==
    \A i \in 1 .. rcv.notifyCount :
        /\ i <= Len(Notified)
        /\ \A k \in Issued : k < Notified[i] /\ IsTracked(k) => Landed(k)
        /\ Landed(Notified[i])

\* The same of every put before them: what the callers that ask for one notification with
\* their last put rely on (AllGatherRecDbl, AllGatherBrucksFF, ReduceScatterRHD).
NotifyFollowsAllPuts ==
    \A i \in 1 .. rcv.notifyCount : \A k \in Issued : k <= Notified[i] => Landed(k)

\* A request that is complete says that its put and every put before it have landed:
\* callers wait for the last put of a step only and then reuse or deregister the buffers
\* of all (burnDownPuts, writeComplete).
CompleteHaveLanded ==
    \A k \in snd.complete : \A j \in Issued : j <= k => Landed(j)

\* Every put that was not refused completes, and the receiver counts every notification
\* and is left with no sequence number it cannot place.
PutsOver ==
    /\ calls = << >> /\ snd.complete = Issued
    /\ rcv.notifyCount = Len(Notified)
    /\ rcv.rcvNxt = snd.sndNxt /\ DOMAIN rcv.rcvdSeqNums = {}

AllNotified == <>[]PutsOver
=============================================================================
