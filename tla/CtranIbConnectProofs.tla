------------------------- MODULE CtranIbConnectProofs -------------------------
(* Proofs about CTRAN's InfiniBand connections: every receive gets the control    *)
(* message it was posted for, and no completion can be polled of a connection     *)
(* its rank does not know, for any ranks, programs and number of packets.         *)
EXTENDS CtranIbConnect, SequenceTheorems, TLAPS

OutType == [freePkts : Nat, enqueued : Seq(Nat), acked : Nat]
InType == [enqueued : Seq(Nat), unexp : Seq(Nat)]
PendingType == [send : Seq(Nat), recv : Seq(Nat)]
LandedType == [count : Nat, data : Seq(Nat), called : BOOLEAN]
Busy == {"sentCard", "setUp", "sentAck", "acked"}

LinkTypeOK ==
    /\ mesh \in Programs
    /\ todo \in [Peers -> Seq(CallType(Peers))]
    /\ main \in [Peers -> [at : Busy \cup {"idle"}, peer : Peers \cup {Nobody}]]
    /\ listen \in [Peers -> [at : Busy \cup {"idle"}, peer : Peers \cup {Nobody}]]
    /\ backlog \in [Peers -> Seq(Peers)]
    /\ qpReady \in [Peers -> SUBSET Peers]
    /\ vcs \in [Peers -> SUBSET Peers]
    /\ connected \in [Peers -> SUBSET Peers]
    /\ pendingOps \in [Peers -> [Peers -> PendingType]]
    /\ out \in [Peers -> [Peers -> OutType]]
    /\ wire \in [Peers -> [Peers -> Seq(Nat)]]
    /\ landed \in [Peers -> [Peers -> LandedType]]
    /\ in \in [Peers -> [Peers -> InType]]
    /\ asked \in [Peers -> [Peers -> [send : Nat, recv : Nat]]]
    /\ got \in [Peers -> [Peers -> SUBSET (Nat \X Nat)]]

-------------------------------------------------------------------------------
(* The handshake.                                                                *)

\* The lower rank of two is the client.
Roles ==
    /\ \A r \in Peers : main[r].at # "idle" => main[r].peer \in Peers /\ r < main[r].peer
    /\ \A r \in Peers : listen[r].at # "idle" => listen[r].peer \in Peers /\ listen[r].peer < r
    /\ \A r \in Peers : \A k \in 1 .. Len(backlog[r]) : backlog[r][k] < r

\* The server publishes before it acknowledges, and the client returns after that.
Published ==
    /\ \A r \in Peers : listen[r].at \in {"sentAck", "acked"} => listen[r].peer \in vcs[r]
    /\ \A s, d \in Peers : s < d /\ d \in vcs[s] =>
        s \in vcs[d] \/ (main[s].at = "setUp" /\ main[s].peer = d)

\* A client knows its connections at once.
ClientKnows == \A s, d \in Peers : s >= d /\ s \in qpReady[d] => d # s /\ s \in vcs[d]

\* Nothing leaves a client before its server has published the connection.
SentIsKnown ==
    \A s, d \in Peers :
        /\ landed[s][d].count > 0 => s \in qpReady[d]
        /\ s < d /\ (landed[s][d].count > 0 \/ wire[s][d] # << >> \/ out[s][d].enqueued # << >>)
           => s \in vcs[d]

Handshake == LinkTypeOK /\ Roles /\ Published /\ ClientKnows /\ SentIsKnown

-------------------------------------------------------------------------------
(* The numbers of messages.                                                      *)

\* These calls wait before they mark p connected.
WaitsFor(calls, p) ==
    \A k \in DOMAIN calls :
        calls[k].op = "preConnect" /\ p \in calls[k].peers =>
            \E w \in 1 .. k - 1 : calls[w].op = "wait"

\* Requests held for a peer are waited for before preConnect marks it connected.
HeldAreWaitedFor ==
    \A r \in Peers :
        /\ WaitsFirst(todo[r])
        /\ \A p \in connected[r] : p \in vcs[r] /\ pendingOps[r][p] = NonePending
        /\ \A p \in Peers : pendingOps[r][p] # NonePending => WaitsFor(todo[r], p)

\* q is lo + 1, ..., hi.
Numbered(q, lo, hi) == Len(q) = hi - lo /\ \A i \in 1 .. Len(q) : q[i] = lo + i

\* Without its messages for a callback q is lo + 1, ..., hi.
Ascending(q, lo, hi) ==
    /\ lo <= hi
    /\ \A i \in 1 .. Len(q) : q[i] # IsCallback => q[i] \in lo + 1 .. hi
    /\ \A i, j \in 1 .. Len(q) : i < j /\ q[i] # IsCallback /\ q[j] # IsCallback => q[i] < q[j]
    /\ \A n \in lo + 1 .. hi : \E i \in 1 .. Len(q) : q[i] = n

\* From s to d, in the order in which they go: on the wire, waiting for a packet, held.
Channel(s, d) == (wire[s][d] \o out[s][d].enqueued) \o pendingOps[s][d].send

\* l messages have landed; the rest of those asked for are on their way.
SendSide(s, d, l) ==
    /\ Ascending(Channel(s, d), l, asked[s][d].send)
    /\ out[s][d].enqueued # << >> => out[s][d].freePkts = 0

\* The m first of them are matched, and so are the m first receives.
ReceiveSide(s, d, l) ==
    \E m, e, u \in Nat :
        /\ Numbered(in[d][s].enqueued, m, e) /\ Numbered(pendingOps[d][s].recv, e, asked[d][s].recv)
        /\ Numbered(in[d][s].unexp, m, u) /\ Numbered(landed[s][d].data, u, l)

InNumber == \A s, d \in Peers : \E l \in Nat : SendSide(s, d, l) /\ ReceiveSide(s, d, l)

LinkInv == Handshake /\ HeldAreWaitedFor /\ InNumber /\ CtrlMatches

-------------------------------------------------------------------------------
(* What the operators on queues return.                                          *)

LEMMA CatFacts ==
    ASSUME NEW a \in Seq(Nat), NEW b \in Seq(Nat)
    PROVE  /\ a \o b \in Seq(Nat) /\ Len(a \o b) = Len(a) + Len(b)
           /\ \A i \in 1 .. Len(a) : (a \o b)[i] = a[i]
           /\ \A i \in 1 .. Len(b) : (a \o b)[Len(a) + i] = b[i]
           /\ a = << >> => a \o b = b
           /\ b = << >> => a \o b = a
<1>1. Len(a) \in Nat /\ Len(b) \in Nat
  OBVIOUS
<1>2. /\ a \o b \in Seq(Nat) /\ Len(a \o b) = Len(a) + Len(b)
      /\ \A i \in 1 .. Len(a) + Len(b) :
            (a \o b)[i] = IF i <= Len(a) THEN a[i] ELSE b[i - Len(a)]
  BY ConcatProperties
<1>3. \A i \in 1 .. Len(a) : (a \o b)[i] = a[i]
  BY <1>1, <1>2
<1>4. \A i \in 1 .. Len(b) : (a \o b)[Len(a) + i] = b[i]
  <2>. TAKE i \in 1 .. Len(b)
  <2>1. Len(a) + i \in 1 .. Len(a) + Len(b) /\ ~(Len(a) + i <= Len(a)) /\ Len(a) + i - Len(a) = i
    BY <1>1
  <2>. QED
    BY <1>2, <2>1
<1>5. (a = << >> => a \o b = b) /\ (b = << >> => a \o b = a)
  BY ConcatEmptySeq
<1>. QED
  BY <1>2, <1>3, <1>4, <1>5

LEMMA CatAssociates ==
    ASSUME NEW a \in Seq(Nat), NEW b \in Seq(Nat), NEW c \in Seq(Nat)
    PROVE  (a \o b) \o c = a \o (b \o c)
BY ConcatAssociative

LEMMA FirstFacts ==
    ASSUME NEW q \in Seq(Nat), NEW n \in 0 .. Len(q)
    PROVE  /\ First(q, n) \in Seq(Nat) /\ Len(First(q, n)) = n
           /\ \A i \in 1 .. n : First(q, n)[i] = q[i]
<1>1. Len(q) \in Nat /\ n \in Int /\ \A i \in 1 .. n : q[i] \in Nat
  OBVIOUS
<1>2. First(q, n) \in Seq(Nat)
  BY <1>1 DEF First
<1>3. Len(First(q, n)) = n
  BY <1>1 DEF First
<1>4. \A i \in 1 .. n : First(q, n)[i] = q[i]
  BY <1>1 DEF First
<1>. QED
  BY <1>2, <1>3, <1>4, Zenon

LEMMA RestFacts ==
    ASSUME NEW q \in Seq(Nat), NEW n \in 0 .. Len(q)
    PROVE  /\ Rest(q, n) \in Seq(Nat) /\ Len(Rest(q, n)) = Len(q) - n
           /\ \A i \in 1 .. Len(q) - n : Rest(q, n)[i] = q[n + i]
<1>1. Len(q) \in Nat /\ n \in Int /\ \A i \in n + 1 .. Len(q) : q[i] \in Nat
  OBVIOUS
<1>2. Rest(q, n) \in Seq(Nat)
  BY <1>1 DEF Rest
<1>3. Len(Rest(q, n)) = Len(q) - n
  BY <1>1 DEF Rest
<1>4. \A i \in 1 .. Len(q) - n : Rest(q, n)[i] = q[n + i]
  <2>. TAKE i \in 1 .. Len(q) - n
  <2>1. i \in 1 .. Len(q) - (n + 1) + 1 /\ (n + 1) + i - 1 = n + i
    BY <1>1
  <2>2. SubSeq(q, n + 1, Len(q))[i] = q[(n + 1) + i - 1]
    BY <1>1, <2>1
  <2>. QED
    BY <2>1, <2>2 DEF Rest
<1>. QED
  BY <1>2, <1>3, <1>4, Zenon

\* A queue is its first n and the rest.
LEMMA CutFacts ==
    ASSUME NEW q \in Seq(Nat), NEW n \in 0 .. Len(q)
    PROVE  /\ First(q, n) \o Rest(q, n) = q
           /\ n = 0 => First(q, n) = << >> /\ Rest(q, n) = q
           /\ n = Len(q) => First(q, n) = q /\ Rest(q, n) = << >>
<1>1. Len(q) \in Nat /\ n \in Int
  OBVIOUS
<1>2. First(q, n) \o Rest(q, n) = q
  <2>1. 1 \in 1 .. Len(q) + 1 /\ n \in 1 - 1 .. Len(q) /\ Len(q) \in n .. Len(q)
    BY <1>1
  <2>2. SubSeq(q, 1, n) \o SubSeq(q, n + 1, Len(q)) = SubSeq(q, 1, Len(q))
    BY <2>1, ConcatAdjacentSubSeq, Zenon
  <2>. QED
    BY <2>2, SubSeqFull, Zenon DEF First, Rest
<1>3. n = 0 => First(q, n) = << >> /\ Rest(q, n) = q
  <2>. SUFFICES ASSUME n = 0 PROVE First(q, 0) = << >> /\ Rest(q, 0) = q
    OBVIOUS
  <2>1. First(q, 0) = << >>
    BY SubSeqEmpty DEF First
  <2>2. 0 + 1 = 1
    OBVIOUS
  <2>. QED
    BY <2>1, <2>2, SubSeqFull, Zenon DEF Rest
<1>4. n = Len(q) => First(q, n) = q /\ Rest(q, n) = << >>
  <2>. SUFFICES ASSUME n = Len(q) PROVE First(q, n) = q /\ Rest(q, n) = << >>
    OBVIOUS
  <2>1. First(q, n) = q
    BY SubSeqFull DEF First
  <2>2. Rest(q, n) = << >>
    BY <1>1, SubSeqEmpty DEF Rest
  <2>. QED
    BY <2>1, <2>2
<1>. QED
  BY <1>2, <1>3, <1>4
\* Sending keeps the order of what is queued and what is new, and leaves no packet free
\* while something is queued.
LEMMA SentFacts ==
    ASSUME NEW o \in OutType, NEW msgs \in Seq(Nat), o.enqueued # << >> => o.freePkts = 0
    PROVE  /\ Sent(o, msgs).out \in OutType /\ Sent(o, msgs).posted \in Seq(Nat)
           /\ Sent(o, msgs).posted \o Sent(o, msgs).out.enqueued = o.enqueued \o msgs
           /\ Sent(o, msgs).out.enqueued # << >> => Sent(o, msgs).out.freePkts = 0
<1>. DEFINE n == Least(o.freePkts, Len(msgs))
            q == o.enqueued
            e == q \o Rest(msgs, n)
<1>1. /\ o.freePkts \in Nat /\ q \in Seq(Nat) /\ o.acked \in Nat
      /\ n \in 0 .. Len(msgs) /\ n <= o.freePkts /\ (n = o.freePkts \/ n = Len(msgs))
  BY DEF OutType, Least
<1>2. Sent(o, msgs).posted = First(msgs, n)
  BY DEF Sent
<1>3. Sent(o, msgs).out = [freePkts |-> o.freePkts - n, enqueued |-> e, acked |-> o.acked]
  BY DEF Sent, OutType
<1>4. q # << >> => o.freePkts = 0
  OBVIOUS
<1>. HIDE DEF n, q
<1>5. First(msgs, n) \in Seq(Nat) /\ Rest(msgs, n) \in Seq(Nat)
  BY <1>1, FirstFacts, RestFacts
<1>6. e \in Seq(Nat)
  BY <1>1, <1>5, CatFacts, Zenon
<1>. HIDE DEF e
<1>7. First(msgs, n) \o e = q \o msgs
  <2>1. CASE q # << >>
    <3>1. n = 0
      BY <1>1, <1>4, <2>1
    <3>2. First(msgs, n) = << >> /\ Rest(msgs, n) = msgs
      BY <3>1, <1>1, CutFacts
    <3>3. e = q \o msgs
      BY <3>2 DEF e
    <3>4. << >> \o e = e
      BY <1>6, ConcatEmptySeq, Zenon
    <3>. QED
      BY <3>2, <3>3, <3>4, Zenon
  <2>2. CASE q = << >>
    <3>1. << >> \o Rest(msgs, n) = Rest(msgs, n) /\ << >> \o msgs = msgs
      BY <1>5, ConcatEmptySeq, Zenon
    <3>2. e = Rest(msgs, n)
      BY <2>2, <3>1, Zenon DEF e
    <3>3. First(msgs, n) \o Rest(msgs, n) = msgs
      BY <1>1, CutFacts, Zenon
    <3>. QED
      BY <2>2, <3>1, <3>2, <3>3, Zenon
  <2>. QED
    BY <2>1, <2>2
<1>8. e # << >> => o.freePkts - n = 0
  <2>1. CASE q # << >>
    BY <1>1, <1>4, <2>1
  <2>2. CASE q = << >> /\ n = Len(msgs)
    <3>1. Rest(msgs, n) = << >>
      BY <1>1, <2>2, CutFacts
    <3>2. << >> \o << >> = << >>
      OBVIOUS
    <3>. QED
      BY <2>2, <3>1, <3>2, Zenon DEF e
  <2>. QED
    BY <1>1, <2>1, <2>2
<1>9. Sent(o, msgs).out \in OutType
  BY <1>1, <1>3, <1>6 DEF OutType
<1>10. Sent(o, msgs).out.enqueued = e /\ Sent(o, msgs).out.freePkts = o.freePkts - n
  BY <1>3
<1>. QED
  BY <1>2, <1>5, <1>7, <1>8, <1>9, <1>10, Zenon DEF q

\* So does taking up what is queued for the packets that are acknowledged.
LEMMA AckedFacts ==
    ASSUME NEW o \in OutType, o.enqueued # << >> => o.freePkts = 0
    PROVE  /\ Acked(o).out \in OutType /\ Acked(o).posted \in Seq(Nat)
           /\ Acked(o).posted \o Acked(o).out.enqueued = o.enqueued
           /\ Acked(o).out.enqueued # << >> => Acked(o).out.freePkts = 0
<1>. DEFINE n == Least(o.acked, Len(o.enqueued))
            q == o.enqueued
            e == Rest(q, n)
<1>1. /\ o.freePkts \in Nat /\ q \in Seq(Nat) /\ o.acked \in Nat
      /\ n \in 0 .. Len(q) /\ n <= o.acked /\ (n = o.acked \/ n = Len(q))
  BY DEF OutType, Least
<1>2. Acked(o).posted = First(q, n)
  BY DEF Acked
<1>3. Acked(o).out = [freePkts |-> o.freePkts + o.acked - n, enqueued |-> e, acked |-> 0]
  BY DEF Acked
<1>4. q # << >> => o.freePkts = 0
  OBVIOUS
<1>. HIDE DEF n, q
<1>5. First(q, n) \in Seq(Nat) /\ e \in Seq(Nat) /\ Len(e) = Len(q) - n
  BY <1>1, FirstFacts, RestFacts
<1>6. First(q, n) \o e = q
  BY <1>1, CutFacts
<1>7. n = Len(q) => e = << >>
  BY <1>1, CutFacts
<1>. HIDE DEF e
<1>8. e # << >> => o.freePkts + o.acked - n = 0
  <2>. SUFFICES ASSUME e # << >> PROVE n = o.acked /\ o.freePkts = 0
    BY <1>1
  <2>1. n = o.acked /\ n # Len(q)
    BY <1>1, <1>7
  <2>2. q # << >>
    BY <1>1, <2>1
  <2>. QED
    BY <1>4, <2>1, <2>2
<1>9. o.freePkts + o.acked - n \in Nat
  BY <1>1
<1>10. Acked(o).out \in OutType
  BY <1>3, <1>5, <1>9 DEF OutType
<1>11. Acked(o).out.enqueued = e /\ Acked(o).out.freePkts = o.freePkts + o.acked - n
  BY <1>3
<1>. QED
  BY <1>2, <1>5, <1>6, <1>8, <1>10, <1>11, Zenon DEF q

LEMMA MatchedType ==
    ASSUME NEW i \in InType, NEW recvs \in Seq(Nat), NEW msgs \in Seq(Nat)
    PROVE  /\ Matched(i, recvs, msgs).in \in InType
           /\ Matched(i, recvs, msgs).pairs \subseteq Nat \X Nat
<1>. DEFINE waiting == i.enqueued \o recvs
            there == i.unexp \o msgs
            n == Least(Len(waiting), Len(there))
<1>1. i.enqueued \in Seq(Nat) /\ i.unexp \in Seq(Nat)
  BY DEF InType
<1>2. waiting \in Seq(Nat) /\ there \in Seq(Nat)
  BY <1>1, CatFacts, Zenon
<1>3. /\ Matched(i, recvs, msgs).in = [enqueued |-> Rest(waiting, n), unexp |-> Rest(there, n)]
      /\ Matched(i, recvs, msgs).pairs = {<<waiting[k], there[k]>> : k \in 1 .. n}
  BY DEF Matched
<1>. HIDE DEF waiting, there
<1>4. n \in 0 .. Len(waiting) /\ n \in 0 .. Len(there)
  BY <1>2 DEF Least
<1>. HIDE DEF n
<1>5. Rest(waiting, n) \in Seq(Nat) /\ Rest(there, n) \in Seq(Nat)
  BY <1>2, <1>4, RestFacts
<1>6. \A k \in 1 .. n : waiting[k] \in Nat /\ there[k] \in Nat
  BY <1>2, <1>4
<1>. QED
  BY <1>3, <1>5, <1>6 DEF InType

\* Receives and messages that are numbered from the same number on are matched by number,
\* and what is left begins with the same number again.
LEMMA MatchedFacts ==
    ASSUME NEW i \in InType, NEW recvs \in Seq(Nat), NEW msgs \in Seq(Nat),
           NEW m \in Nat, NEW a \in Nat, NEW b \in Nat,
           Numbered(i.enqueued \o recvs, m, a), Numbered(i.unexp \o msgs, m, b)
    PROVE  /\ \A pair \in Matched(i, recvs, msgs).pairs : pair[1] = pair[2]
           /\ \E c \in Nat : /\ Numbered(Matched(i, recvs, msgs).in.enqueued, c, a)
                             /\ Numbered(Matched(i, recvs, msgs).in.unexp, c, b)
<1>. DEFINE waiting == i.enqueued \o recvs
            there == i.unexp \o msgs
            n == Least(Len(waiting), Len(there))
<1>1. i.enqueued \in Seq(Nat) /\ i.unexp \in Seq(Nat)
  BY DEF InType
<1>2. waiting \in Seq(Nat) /\ there \in Seq(Nat)
  BY <1>1, CatFacts, Zenon
<1>3. /\ Matched(i, recvs, msgs).in.enqueued = Rest(waiting, n)
      /\ Matched(i, recvs, msgs).in.unexp = Rest(there, n)
      /\ Matched(i, recvs, msgs).pairs = {<<waiting[k], there[k]>> : k \in 1 .. n}
  BY DEF Matched
<1>4. Numbered(waiting, m, a) /\ Numbered(there, m, b)
  OBVIOUS
<1>. HIDE DEF waiting, there
<1>5. n \in 0 .. Len(waiting) /\ n \in 0 .. Len(there) /\ n \in Nat
  BY <1>2 DEF Least
<1>. HIDE DEF n
<1>6. \A k \in 1 .. n : waiting[k] = m + k /\ there[k] = m + k
  BY <1>2, <1>4, <1>5 DEF Numbered
<1>7. Numbered(Rest(waiting, n), m + n, a)
  <2>1. /\ Len(Rest(waiting, n)) = Len(waiting) - n
        /\ \A k \in 1 .. Len(waiting) - n : Rest(waiting, n)[k] = waiting[n + k]
    BY <1>2, <1>5, RestFacts
  <2>2. Len(waiting) \in Nat /\ \A k \in 1 .. Len(waiting) - n : n + k \in 1 .. Len(waiting)
    BY <1>2, <1>5
  <2>. QED
    BY <1>4, <1>5, <2>1, <2>2 DEF Numbered
<1>8. Numbered(Rest(there, n), m + n, b)
  <2>1. /\ Len(Rest(there, n)) = Len(there) - n
        /\ \A k \in 1 .. Len(there) - n : Rest(there, n)[k] = there[n + k]
    BY <1>2, <1>5, RestFacts
  <2>2. Len(there) \in Nat /\ \A k \in 1 .. Len(there) - n : n + k \in 1 .. Len(there)
    BY <1>2, <1>5
  <2>. QED
    BY <1>4, <1>5, <2>1, <2>2 DEF Numbered
<1>9. m + n \in Nat
  BY <1>5
<1>. QED
  BY <1>3, <1>6, <1>7, <1>8, <1>9

LEMMA NumberedCat ==
    ASSUME NEW q \in Seq(Nat), NEW t \in Seq(Nat), NEW lo \in Nat, NEW mid \in Nat, NEW hi \in Nat,
           Numbered(q, lo, mid), Numbered(t, mid, hi)
    PROVE  Numbered(q \o t, lo, hi)
<1>1. Len(q) \in Nat /\ Len(t) \in Nat /\ Len(q) = mid - lo /\ Len(t) = hi - mid
  BY DEF Numbered
<1>2. /\ Len(q \o t) = Len(q) + Len(t)
      /\ \A i \in 1 .. Len(q) : (q \o t)[i] = q[i]
      /\ \A i \in 1 .. Len(t) : (q \o t)[Len(q) + i] = t[i]
  BY CatFacts, Zenon
<1>3. \A i \in 1 .. Len(q) + Len(t) :
        i \in 1 .. Len(q) \/ (i - Len(q) \in 1 .. Len(t) /\ Len(q) + (i - Len(q)) = i)
  BY <1>1
<1>4. \A i \in 1 .. Len(q) + Len(t) : (q \o t)[i] = lo + i
  <2>. TAKE i \in 1 .. Len(q) + Len(t)
  <2>1. CASE i \in 1 .. Len(q)
    BY <1>2, <2>1 DEF Numbered
  <2>2. CASE i - Len(q) \in 1 .. Len(t) /\ Len(q) + (i - Len(q)) = i
    <3>. DEFINE j == i - Len(q)
    <3>1. (q \o t)[Len(q) + j] = t[j] /\ t[j] = mid + j /\ Len(q) + j = i
      BY <1>2, <2>2 DEF Numbered
    <3>. QED
      BY <1>1, <3>1
  <2>. QED
    BY <1>3, <2>1, <2>2
<1>. QED
  BY <1>1, <1>2, <1>4 DEF Numbered

LEMMA NumberedEnds ==
    ASSUME NEW lo \in Nat
    PROVE  /\ Numbered(<< >>, lo, lo) /\ Numbered(<<lo + 1>>, lo, lo + 1)
           /\ \A hi \in Nat : Numbered(<< >>, lo, hi) => hi = lo
BY DEF Numbered

LEMMA NumberedAppend ==
    ASSUME NEW q \in Seq(Nat), NEW lo \in Nat, NEW hi \in Nat, Numbered(q, lo, hi)
    PROVE  Numbered(Append(q, hi + 1), lo, hi + 1)
<1>1. /\ Append(q, hi + 1) \in Seq(Nat) /\ Len(Append(q, hi + 1)) = Len(q) + 1
      /\ \A i \in 1 .. Len(q) : Append(q, hi + 1)[i] = q[i]
      /\ Append(q, hi + 1)[Len(q) + 1] = hi + 1
  BY AppendProperties
<1>2. Len(q) \in Nat /\ Len(q) = hi - lo /\ \A i \in 1 .. Len(q) + 1 : i \in 1 .. Len(q) \/ i = Len(q) + 1
  BY DEF Numbered
<1>. QED
  BY <1>1, <1>2 DEF Numbered

\* A message with the next number, or one for a callback, may follow.
LEMMA AscendingAppend ==
    ASSUME NEW q \in Seq(Nat), NEW lo \in Nat, NEW hi \in Nat, Ascending(q, lo, hi)
    PROVE  /\ Ascending(Append(q, hi + 1), lo, hi + 1)
           /\ Ascending(Append(q, IsCallback), lo, hi)
<1>1. Len(q) \in Nat /\ \A i \in 1 .. Len(q) + 1 : i \in 1 .. Len(q) \/ i = Len(q) + 1
  OBVIOUS
<1>2. ASSUME NEW x \in Nat
      PROVE  /\ Len(Append(q, x)) = Len(q) + 1
             /\ \A i \in 1 .. Len(q) : Append(q, x)[i] = q[i]
             /\ Append(q, x)[Len(q) + 1] = x
  BY AppendProperties
<1>3. Ascending(Append(q, hi + 1), lo, hi + 1)
  <2>. DEFINE t == Append(q, hi + 1)
  <2>1. /\ Len(t) = Len(q) + 1 /\ t[Len(q) + 1] = hi + 1
        /\ \A i \in 1 .. Len(q) : t[i] = q[i]
    BY <1>2
  <2>. HIDE DEF t
  <2>2. \A i \in 1 .. Len(t) : t[i] # IsCallback => t[i] \in lo + 1 .. hi + 1
    BY <1>1, <2>1 DEF Ascending
  <2>3. \A i, j \in 1 .. Len(t) :
          i < j /\ t[i] # IsCallback /\ t[j] # IsCallback => t[i] < t[j]
    <3>. TAKE i, j \in 1 .. Len(t)
    <3>. HAVE i < j /\ t[i] # IsCallback /\ t[j] # IsCallback
    <3>1. i \in 1 .. Len(q) /\ t[i] = q[i]
      BY <1>1, <2>1
    <3>2. CASE j \in 1 .. Len(q)
      BY <2>1, <3>1, <3>2 DEF Ascending
    <3>3. CASE j = Len(q) + 1
      <4>1. q[i] \in lo + 1 .. hi
        BY <3>1 DEF Ascending
      <4>. QED
        BY <2>1, <3>1, <3>3, <4>1
    <3>. QED
      BY <1>1, <2>1, <3>2, <3>3
  <2>4. \A n \in lo + 1 .. hi + 1 : \E i \in 1 .. Len(t) : t[i] = n
    <3>. TAKE n \in lo + 1 .. hi + 1
    <3>1. CASE n \in lo + 1 .. hi
      <4>1. PICK i \in 1 .. Len(q) : q[i] = n
        BY <3>1 DEF Ascending
      <4>. QED
        BY <1>1, <2>1, <4>1
    <3>2. CASE n = hi + 1
      BY <1>1, <2>1, <3>2
    <3>. QED
      BY <3>1, <3>2
  <2>5. lo <= hi + 1
    BY DEF Ascending
  <2>6. Ascending(t, lo, hi + 1)
    BY <2>2, <2>3, <2>4, <2>5 DEF Ascending
  <2>. QED
    BY <2>6 DEF t
<1>4. Ascending(Append(q, IsCallback), lo, hi)
  <2>. DEFINE t == Append(q, IsCallback)
  <2>1. /\ Len(t) = Len(q) + 1 /\ t[Len(q) + 1] = IsCallback
        /\ \A i \in 1 .. Len(q) : t[i] = q[i]
    BY <1>2 DEF IsCallback
  <2>. HIDE DEF t
  <2>2. \A i \in 1 .. Len(t) : t[i] # IsCallback => t[i] \in lo + 1 .. hi
    BY <1>1, <2>1 DEF Ascending
  <2>3. \A i, j \in 1 .. Len(t) :
          i < j /\ t[i] # IsCallback /\ t[j] # IsCallback => t[i] < t[j]
    <3>. TAKE i, j \in 1 .. Len(t)
    <3>. HAVE i < j /\ t[i] # IsCallback /\ t[j] # IsCallback
    <3>1. i \in 1 .. Len(q) /\ t[i] = q[i]
      BY <1>1, <2>1
    <3>2. CASE j \in 1 .. Len(q)
      BY <2>1, <3>1, <3>2 DEF Ascending
    <3>3. CASE j = Len(q) + 1
      <4>1. q[i] \in lo + 1 .. hi
        BY <3>1 DEF Ascending
      <4>. QED
        BY <2>1, <3>1, <3>3, <4>1
    <3>. QED
      BY <1>1, <2>1, <3>2, <3>3
  <2>4. \A n \in lo + 1 .. hi : \E i \in 1 .. Len(t) : t[i] = n
    <3>. TAKE n \in lo + 1 .. hi
    <3>1. PICK i \in 1 .. Len(q) : q[i] = n
      BY DEF Ascending
    <3>. QED
      BY <1>1, <2>1, <3>1
  <2>5. lo <= hi
    BY DEF Ascending
  <2>6. Ascending(t, lo, hi)
    BY <2>2, <2>3, <2>4, <2>5 DEF Ascending
  <2>. QED
    BY <2>6 DEF t
<1>. QED
  BY <1>3, <1>4

\* The first message with a number has the lowest one.
LEMMA AscendingTail ==
    ASSUME NEW q \in Seq(Nat), q # << >>, NEW lo \in Nat, NEW hi \in Nat, Ascending(q, lo, hi)
    PROVE  IF Head(q) = IsCallback THEN Ascending(Tail(q), lo, hi)
           ELSE Head(q) = lo + 1 /\ Ascending(Tail(q), lo + 1, hi)
<1>. DEFINE t == Tail(q)
<1>1. /\ Len(q) \in Nat \ {0} /\ Len(t) = Len(q) - 1 /\ Head(q) = q[1] /\ 1 \in 1 .. Len(q)
      /\ \A i \in 1 .. Len(t) : t[i] = q[i + 1]
  BY HeadTailProperties, EmptySeq
<1>. HIDE DEF t
<1>2. /\ \A i \in 1 .. Len(t) : i + 1 \in 1 .. Len(q) /\ 1 < i + 1
      /\ \A i \in 1 .. Len(q) : i = 1 \/ (i - 1 \in 1 .. Len(t) /\ (i - 1) + 1 = i)
      /\ \A i \in 1 .. Len(q) : q[i] \in Nat
  BY <1>1
<1>3. \A i \in 1 .. Len(q) : i # 1 => \E j \in 1 .. Len(t) : t[j] = q[i]
  <2>. SUFFICES ASSUME NEW i \in 1 .. Len(q), i # 1 PROVE \E j \in 1 .. Len(t) : t[j] = q[i]
    OBVIOUS
  <2>1. i - 1 \in 1 .. Len(t) /\ (i - 1) + 1 = i
    BY <1>2
  <2>. QED
    BY <1>1, <2>1
<1>4. \A i, j \in 1 .. Len(t) : i < j /\ t[i] # IsCallback /\ t[j] # IsCallback => t[i] < t[j]
  <2>. TAKE i, j \in 1 .. Len(t)
  <2>1. i + 1 \in 1 .. Len(q) /\ j + 1 \in 1 .. Len(q) /\ (i < j => i + 1 < j + 1)
    BY <1>1
  <2>. QED
    BY <1>1, <2>1 DEF Ascending
<1>5. CASE Head(q) = IsCallback
  <2>1. \A i \in 1 .. Len(t) : t[i] # IsCallback => t[i] \in lo + 1 .. hi
    BY <1>1, <1>2 DEF Ascending
  <2>2. \A n \in lo + 1 .. hi : \E i \in 1 .. Len(t) : t[i] = n
    <3>. TAKE n \in lo + 1 .. hi
    <3>1. PICK i \in 1 .. Len(q) : q[i] = n
      BY DEF Ascending
    <3>2. i # 1
      BY <1>1, <1>5, <3>1 DEF IsCallback
    <3>. QED
      BY <1>3, <3>1, <3>2
  <2>. QED
    BY <1>4, <1>5, <2>1, <2>2 DEF Ascending, t
<1>6. CASE Head(q) # IsCallback
  <2>1. q[1] \in lo + 1 .. hi
    BY <1>1, <1>6 DEF Ascending
  <2>2. q[1] = lo + 1
    <3>. lo + 1 \in lo + 1 .. hi
      BY <2>1
    <3>1. PICK i \in 1 .. Len(q) : q[i] = lo + 1
      BY DEF Ascending
    <3>2. ASSUME i # 1 PROVE FALSE
      <4>1. 1 < i /\ q[1] # IsCallback /\ q[i] # IsCallback
        BY <1>1, <1>6, <3>1, <3>2 DEF IsCallback
      <4>2. q[1] < q[i]
        BY <1>1, <4>1 DEF Ascending
      <4>. QED
        BY <2>1, <3>1, <4>2
    <3>. QED
      BY <3>1, <3>2
  <2>3. \A i \in 1 .. Len(t) : t[i] # IsCallback => t[i] \in lo + 2 .. hi
    <3>. TAKE i \in 1 .. Len(t)
    <3>. HAVE t[i] # IsCallback
    <3>1. i + 1 \in 1 .. Len(q) /\ 1 < i + 1 /\ q[i + 1] # IsCallback /\ t[i] = q[i + 1]
      BY <1>1, <1>2
    <3>2. q[1] < q[i + 1] /\ q[i + 1] \in lo + 1 .. hi
      BY <1>1, <1>6, <3>1 DEF Ascending
    <3>. QED
      BY <2>2, <3>1, <3>2
  <2>4. \A n \in lo + 2 .. hi : \E i \in 1 .. Len(t) : t[i] = n
    <3>. TAKE n \in lo + 2 .. hi
    <3>1. PICK i \in 1 .. Len(q) : q[i] = n
      BY DEF Ascending
    <3>2. i # 1
      BY <2>2, <3>1
    <3>. QED
      BY <1>3, <3>1, <3>2
  <2>5. lo + 1 <= hi /\ lo + 1 + 1 = lo + 2
    BY <2>1
  <2>. QED
    BY <1>1, <1>4, <1>6, <2>2, <2>3, <2>4, <2>5 DEF Ascending, t
<1>. QED
  BY <1>5, <1>6

-------------------------------------------------------------------------------
(* Types.                                                                        *)

\* A connection queues a message only when it has no packet free.
QueuedForPackets == \A s, d \in Peers : out[s][d].enqueued # << >> => out[s][d].freePkts = 0

LEMMA ProgramsAre ==
    ASSUME ProgramsSound, mesh \in Programs
    PROVE  /\ Peers \subseteq Nat /\ mesh.maxMsgs \in Nat \ {0}
           /\ mesh.programs \in [Peers -> Seq(CallType(Peers))]
           /\ \A r \in Peers : WaitsFirst(mesh.programs[r])
BY DEF ProgramsSound, Peers

LEMMA CallsAre ==
    ASSUME NEW calls \in Seq(CallType(Peers)), calls # << >>
    PROVE  /\ Tail(calls) \in Seq(CallType(Peers))
           /\ Head(calls).op \in {"send", "notice", "recv"} => Head(calls).peer \in Peers
           /\ Head(calls).op = "preConnect" => Head(calls).peers \subseteq Peers
<1>1. Head(calls) \in CallType(Peers) /\ Tail(calls) \in Seq(CallType(Peers))
  BY HeadTailProperties
<1>2. CASE Head(calls) \in [op : {"send", "notice", "recv"}, peer : Peers]
  BY <1>1, <1>2
<1>3. CASE Head(calls) \in [op : {"wait"}]
  BY <1>1, <1>3
<1>4. CASE Head(calls) \in [op : {"preConnect"}, peers : SUBSET Peers]
  BY <1>1, <1>4
<1>. QED
  BY <1>1, <1>2, <1>3, <1>4 DEF CallType

\* Changing one part of a record is building the record.
LEMMA SendChanged ==
    ASSUME NEW S, NEW h \in [send : S, recv : S], NEW v \in S
    PROVE  [h EXCEPT !.send = v] = [send |-> v, recv |-> h.recv]
OBVIOUS

LEMMA RecvChanged ==
    ASSUME NEW S, NEW h \in [send : S, recv : S], NEW v \in S
    PROVE  [h EXCEPT !.recv = v] = [send |-> h.send, recv |-> v]
OBVIOUS

\* What a request changes: a message of number n, or a receive.
AskMessage(r, p, n) ==
    /\ \/ n = IsCallback /\ asked' = asked
       \/ /\ n = asked[r][p].send + 1
          /\ asked' = [asked EXCEPT ![r][p] = [send |-> n, recv |-> asked[r][p].recv]]
    /\ \/ /\ IsPending(r, p)
          /\ pendingOps' = [pendingOps EXCEPT ![r][p] =
                [send |-> Append(pendingOps[r][p].send, n), recv |-> pendingOps[r][p].recv]]
          /\ UNCHANGED control
       \/ /\ ~IsPending(r, p)
          /\ out' = [out EXCEPT ![r][p] = Sent(out[r][p], <<n>>).out]
          /\ wire' = [wire EXCEPT ![r][p] = wire[r][p] \o Sent(out[r][p], <<n>>).posted]
          /\ UNCHANGED <<pendingOps, landed, in, got>>

AskReceive(r, p, n) ==
    /\ n = asked[r][p].recv + 1
    /\ asked' = [asked EXCEPT ![r][p] = [send |-> asked[r][p].send, recv |-> n]]
    /\ \/ /\ IsPending(r, p)
          /\ pendingOps' = [pendingOps EXCEPT ![r][p] =
                [send |-> pendingOps[r][p].send, recv |-> Append(pendingOps[r][p].recv, n)]]
          /\ UNCHANGED control
       \/ /\ ~IsPending(r, p)
          /\ in' = [in EXCEPT ![r][p] = Matched(in[r][p], <<n>>, << >>).in]
          /\ got' = [got EXCEPT ![r][p] = got[r][p] \cup Matched(in[r][p], <<n>>, << >>).pairs]
          /\ UNCHANGED <<pendingOps, out, wire, landed>>

LEMMA AskIs ==
    ASSUME LinkTypeOK, NEW r \in Peers, NEW p \in Peers,
           NEW call \in {"send", "notice", "recv"}, Ask(r, p, call)
    PROVE  \E n \in Nat : AskMessage(r, p, n) \/ AskReceive(r, p, n)
<1>1. /\ asked \in [Peers -> [Peers -> [send : Nat, recv : Nat]]]
      /\ pendingOps \in [Peers -> [Peers -> [send : Seq(Nat), recv : Seq(Nat)]]]
  BY DEF LinkTypeOK, PendingType
<1>2. /\ asked[r][p] \in [send : Nat, recv : Nat]
      /\ pendingOps[r][p] \in [send : Seq(Nat), recv : Seq(Nat)]
      /\ asked[r][p].send \in Nat /\ asked[r][p].recv \in Nat
      /\ pendingOps[r][p].send \in Seq(Nat) /\ pendingOps[r][p].recv \in Seq(Nat)
  BY <1>1
<1>3. CASE call = "recv"
  <2>. DEFINE n == asked[r][p].recv + 1
  <2>1. n \in Nat /\ Append(pendingOps[r][p].recv, n) \in Seq(Nat)
    BY <1>2
  <2>2. asked' = [asked EXCEPT ![r][p]["recv"] = n]
    BY <1>3, Zenon DEF Ask
  <2>3. asked' = [asked EXCEPT ![r][p] = [send |-> asked[r][p].send, recv |-> n]]
    <3>. HIDE DEF n
    <3>1. [asked[r][p] EXCEPT !.recv = n] = [send |-> asked[r][p].send, recv |-> n]
      BY <1>2, <2>1, RecvChanged, Zenon
    <3>2. asked' = [asked EXCEPT ![r] = [asked[r] EXCEPT ![p] = [asked[r][p] EXCEPT !.recv = n]]]
      BY <2>2
    <3>. QED
      BY <3>1, <3>2, Zenon
  <2>4. \/ /\ IsPending(r, p)
           /\ pendingOps' = [pendingOps EXCEPT ![r][p]["recv"] = Append(@, n)]
           /\ UNCHANGED control
        \/ /\ ~IsPending(r, p)
           /\ in' = [in EXCEPT ![r][p] = Matched(in[r][p], <<n>>, << >>).in]
           /\ got' = [got EXCEPT ![r][p] = got[r][p] \cup Matched(in[r][p], <<n>>, << >>).pairs]
           /\ UNCHANGED <<pendingOps, out, wire, landed>>
    BY <1>3 DEF Ask
  <2>5. n = asked[r][p].recv + 1
    OBVIOUS
  <2>. HIDE DEF n
  <2>6. pendingOps' = [pendingOps EXCEPT ![r][p]["recv"] = Append(@, n)] =>
          pendingOps' = [pendingOps EXCEPT ![r][p] =
            [send |-> pendingOps[r][p].send, recv |-> Append(pendingOps[r][p].recv, n)]]
    <3>1. [pendingOps[r][p] EXCEPT !.recv = Append(pendingOps[r][p].recv, n)] =
            [send |-> pendingOps[r][p].send, recv |-> Append(pendingOps[r][p].recv, n)]
      BY <1>2, <2>1, RecvChanged, Zenon
    <3>. SUFFICES ASSUME pendingOps' = [pendingOps EXCEPT ![r][p]["recv"] = Append(@, n)]
                  PROVE  pendingOps' = [pendingOps EXCEPT ![r] = [pendingOps[r] EXCEPT ![p] =
                            [pendingOps[r][p] EXCEPT !.recv = Append(pendingOps[r][p].recv, n)]]]
      BY <3>1, Zenon
    <3>. QED
      OBVIOUS
  <2>7. AskReceive(r, p, n)
    BY <2>3, <2>4, <2>5, <2>6 DEF AskReceive
  <2>. QED
    BY <2>1, <2>7
<1>4. ASSUME NEW n \in Nat, call # "recv",
             n = IF call = "notice" THEN IsCallback ELSE asked[r][p].send + 1
      PROVE  /\ pendingOps' = [pendingOps EXCEPT ![r][p]["send"] = Append(@, n)] =>
                pendingOps' = [pendingOps EXCEPT ![r][p] =
                  [send |-> Append(pendingOps[r][p].send, n), recv |-> pendingOps[r][p].recv]]
             /\ \/ /\ IsPending(r, p)
                   /\ pendingOps' = [pendingOps EXCEPT ![r][p]["send"] = Append(@, n)]
                   /\ UNCHANGED control
                \/ /\ ~IsPending(r, p)
                   /\ out' = [out EXCEPT ![r][p] = Sent(out[r][p], <<n>>).out]
                   /\ wire' = [wire EXCEPT ![r][p] = wire[r][p] \o Sent(out[r][p], <<n>>).posted]
                   /\ UNCHANGED <<pendingOps, landed, in, got>>
  <2>1. Append(pendingOps[r][p].send, n) \in Seq(Nat)
    BY <1>2
  <2>2. pendingOps' = [pendingOps EXCEPT ![r][p]["send"] = Append(@, n)] =>
          pendingOps' = [pendingOps EXCEPT ![r][p] =
            [send |-> Append(pendingOps[r][p].send, n), recv |-> pendingOps[r][p].recv]]
    <3>1. [pendingOps[r][p] EXCEPT !.send = Append(pendingOps[r][p].send, n)] =
            [send |-> Append(pendingOps[r][p].send, n), recv |-> pendingOps[r][p].recv]
      BY <1>2, <2>1, SendChanged, Zenon
    <3>. SUFFICES ASSUME pendingOps' = [pendingOps EXCEPT ![r][p]["send"] = Append(@, n)]
                  PROVE  pendingOps' = [pendingOps EXCEPT ![r] = [pendingOps[r] EXCEPT ![p] =
                            [pendingOps[r][p] EXCEPT !.send = Append(pendingOps[r][p].send, n)]]]
      BY <3>1, Zenon
    <3>. QED
      OBVIOUS
  <2>3. \/ /\ IsPending(r, p)
           /\ pendingOps' = [pendingOps EXCEPT ![r][p]["send"] = Append(@, n)]
           /\ UNCHANGED control
        \/ /\ ~IsPending(r, p)
           /\ out' = [out EXCEPT ![r][p] = Sent(out[r][p], <<n>>).out]
           /\ wire' = [wire EXCEPT ![r][p] = wire[r][p] \o Sent(out[r][p], <<n>>).posted]
           /\ UNCHANGED <<pendingOps, landed, in, got>>
    BY <1>4 DEF Ask
  <2>. QED
    BY <2>2, <2>3
<1>5. CASE call = "send"
  <2>. DEFINE n == asked[r][p].send + 1
  <2>1. n \in Nat
    BY <1>2
  <2>2. asked' = [asked EXCEPT ![r][p]["send"] = n]
    BY <1>5, Zenon DEF Ask
  <2>3. n = IF call = "notice" THEN IsCallback ELSE asked[r][p].send + 1
    BY <1>5
  <2>4. n = asked[r][p].send + 1
    OBVIOUS
  <2>. HIDE DEF n
  <2>5. asked' = [asked EXCEPT ![r][p] = [send |-> n, recv |-> asked[r][p].recv]]
    <3>1. [asked[r][p] EXCEPT !.send = n] = [send |-> n, recv |-> asked[r][p].recv]
      BY <1>2, <2>1, SendChanged, Zenon
    <3>2. asked' = [asked EXCEPT ![r] = [asked[r] EXCEPT ![p] = [asked[r][p] EXCEPT !.send = n]]]
      BY <2>2
    <3>. QED
      BY <3>1, <3>2, Zenon
  <2>6. AskMessage(r, p, n)
    BY <1>4, <1>5, <2>1, <2>3, <2>4, <2>5 DEF AskMessage
  <2>. QED
    BY <2>1, <2>6
<1>6. CASE call = "notice"
  <2>1. asked' = asked /\ IsCallback \in Nat
    BY <1>6 DEF Ask, IsCallback
  <2>2. AskMessage(r, p, IsCallback)
    BY <1>4, <1>6, <2>1 DEF AskMessage
  <2>. QED
    BY <2>1, <2>2
<1>. QED
  BY <1>3, <1>5, <1>6

LEMMA AckedChanged ==
    ASSUME NEW h \in OutType, NEW v \in Nat
    PROVE  [h EXCEPT !.acked = v] =
                [freePkts |-> h.freePkts, enqueued |-> h.enqueued, acked |-> v]
BY DEF OutType

Places == [at : Busy \cup {"idle"}, peer : Peers \cup {Nobody}]

LEMMA AtChanged ==
    ASSUME NEW h \in Places, NEW v \in Busy \cup {"idle"}
    PROVE  [h EXCEPT !.at = v] = [at |-> v, peer |-> h.peer]
BY DEF Places

\* Where a step of the handshake leaves its thread.
LEMMA HandshakeIs ==
    ASSUME LinkTypeOK, Roles, NEW r \in Peers
    PROVE  /\ ServerSetup(r) => listen[r].peer \in Peers
                /\ listen' = [listen EXCEPT ![r] = [at |-> "setUp", peer |-> listen[r].peer]]
           /\ ServerPublish(r) => listen[r].peer \in Peers
                /\ listen' = [listen EXCEPT ![r] = [at |-> "sentAck", peer |-> listen[r].peer]]
           /\ ClientSetup(r) => main[r].peer \in Peers
                /\ main' = [main EXCEPT ![r] = [at |-> "setUp", peer |-> main[r].peer]]
           /\ ClientReturn(r) => main[r].peer \in Peers
                /\ listen' = [listen EXCEPT ![main[r].peer] =
                                [at |-> "acked", peer |-> listen[main[r].peer].peer]]
<1>1. /\ main \in [Peers -> Places] /\ listen \in [Peers -> Places]
      /\ backlog \in [Peers -> Seq(Peers)]
      /\ qpReady \in [Peers -> SUBSET Peers] /\ vcs \in [Peers -> SUBSET Peers]
  BY DEF LinkTypeOK, Places
<1>2. \A x \in Peers :
        /\ listen[x].at # "idle" => listen[x].peer \in Peers
        /\ main[x].at # "idle" => main[x].peer \in Peers
  BY DEF Roles
<1>3. \A x \in Peers, v \in Busy :
        /\ [at |-> v, peer |-> listen[x].peer] \in Places
        /\ [at |-> v, peer |-> main[x].peer] \in Places
        /\ [listen[x] EXCEPT !.at = v] = [at |-> v, peer |-> listen[x].peer]
        /\ [main[x] EXCEPT !.at = v] = [at |-> v, peer |-> main[x].peer]
  <2>. TAKE x \in Peers, v \in Busy
  <2>1. listen[x] \in Places /\ main[x] \in Places
    BY <1>1
  <2>2. [at |-> v, peer |-> listen[x].peer] \in Places /\ [at |-> v, peer |-> main[x].peer] \in Places
    BY <2>1 DEF Places
  <2>3. v \in Busy \cup {"idle"}
    OBVIOUS
  <2>4. [listen[x] EXCEPT !.at = v] = [at |-> v, peer |-> listen[x].peer]
    BY <2>1, <2>3, AtChanged, Zenon
  <2>5. [main[x] EXCEPT !.at = v] = [at |-> v, peer |-> main[x].peer]
    BY <2>1, <2>3, AtChanged, Zenon
  <2>. QED
    BY <2>2, <2>4, <2>5
<1>4. Idle \in Places /\ {"sentCard", "setUp", "sentAck", "acked"} \subseteq Busy
  BY DEF Idle, Places, Busy
<1>5. ServerSetup(r) => listen[r].peer \in Peers
        /\ listen' = [listen EXCEPT ![r] = [at |-> "setUp", peer |-> listen[r].peer]]
  <2>. SUFFICES ASSUME ServerSetup(r)
                PROVE  listen[r].peer \in Peers
                  /\ listen' = [listen EXCEPT ![r] = [at |-> "setUp", peer |-> listen[r].peer]]
    OBVIOUS
  <2>1. listen[r].peer \in Peers
    BY <1>2 DEF ServerSetup
  <2>. QED
    BY <1>3, <1>4, <2>1, Zenon DEF ServerSetup
<1>6. ServerPublish(r) => listen[r].peer \in Peers
        /\ listen' = [listen EXCEPT ![r] = [at |-> "sentAck", peer |-> listen[r].peer]]
  <2>. SUFFICES ASSUME ServerPublish(r)
                PROVE  listen[r].peer \in Peers
                  /\ listen' = [listen EXCEPT ![r] = [at |-> "sentAck", peer |-> listen[r].peer]]
    OBVIOUS
  <2>1. listen[r].peer \in Peers
    BY <1>2 DEF ServerPublish
  <2>. QED
    BY <1>3, <1>4, <2>1, Zenon DEF ServerPublish
<1>7. ClientSetup(r) => main[r].peer \in Peers
        /\ main' = [main EXCEPT ![r] = [at |-> "setUp", peer |-> main[r].peer]]
  <2>. SUFFICES ASSUME ClientSetup(r)
                PROVE  main[r].peer \in Peers
                  /\ main' = [main EXCEPT ![r] = [at |-> "setUp", peer |-> main[r].peer]]
    OBVIOUS
  <2>1. main[r].peer \in Peers
    BY <1>2 DEF ClientSetup
  <2>. QED
    BY <1>3, <1>4, <2>1, Zenon DEF ClientSetup
<1>8. ClientReturn(r) => main[r].peer \in Peers
        /\ listen' = [listen EXCEPT ![main[r].peer] =
                        [at |-> "acked", peer |-> listen[main[r].peer].peer]]
  <2>. SUFFICES ASSUME ClientReturn(r)
                PROVE  main[r].peer \in Peers
                  /\ listen' = [listen EXCEPT ![main[r].peer] =
                                  [at |-> "acked", peer |-> listen[main[r].peer].peer]]
    OBVIOUS
  <2>1. main[r].peer \in Peers
    BY <1>2 DEF ClientReturn
  <2>. QED
    BY <1>3, <1>4, <2>1, Zenon DEF ClientReturn
<1>. QED
  BY <1>5, <1>6, <1>7, <1>8

LEMMA SocketTypes ==
    ASSUME LinkTypeOK, Roles, mesh' = mesh, NEW r \in Peers,
           Accept(r) \/ ServerSetup(r) \/ ServerPublish(r) \/ ServerReturn(r)
             \/ ClientSetup(r) \/ ClientReturn(r)
    PROVE  /\ main' \in [Peers -> Places] /\ listen' \in [Peers -> Places]
           /\ backlog' \in [Peers -> Seq(Peers)]
           /\ qpReady' \in [Peers -> SUBSET Peers] /\ vcs' \in [Peers -> SUBSET Peers]
           /\ UNCHANGED <<todo, connected, pendingOps, control, asked>>
<1>1. /\ main \in [Peers -> Places] /\ listen \in [Peers -> Places]
      /\ backlog \in [Peers -> Seq(Peers)]
      /\ qpReady \in [Peers -> SUBSET Peers] /\ vcs \in [Peers -> SUBSET Peers]
  BY DEF LinkTypeOK, Places
<1>2. \A x \in Peers :
        /\ listen[x].at # "idle" => listen[x].peer \in Peers
        /\ main[x].at # "idle" => main[x].peer \in Peers
  BY DEF Roles
<1>3. \A x \in Peers, v \in Busy :
        /\ [at |-> v, peer |-> listen[x].peer] \in Places
        /\ [at |-> v, peer |-> main[x].peer] \in Places
  BY <1>1 DEF Places
<1>4. Idle \in Places /\ {"sentCard", "setUp", "sentAck", "acked"} \subseteq Busy
  BY DEF Idle, Places, Busy
<1>5. CASE Accept(r)
  <2>1. Head(backlog[r]) \in Peers /\ Tail(backlog[r]) \in Seq(Peers)
    BY <1>1, <1>5, HeadTailProperties DEF Accept
  <2>2. [at |-> "sentCard", peer |-> Head(backlog[r])] \in Places
    BY <2>1 DEF Places, Busy
  <2>. QED
    BY <1>1, <1>5, <2>1, <2>2 DEF Accept
<1>6. CASE ServerSetup(r)
  <2>1. listen[r].peer \in Peers
    BY <1>2, <1>6 DEF ServerSetup
  <2>2. listen' = [listen EXCEPT ![r] = [at |-> "setUp", peer |-> listen[r].peer]]
    BY <1>6, HandshakeIs, Zenon
  <2>3. listen' \in [Peers -> Places]
    BY <1>1, <1>3, <1>4, <2>2
  <2>. QED
    BY <1>1, <1>6, <2>1, <2>3 DEF ServerSetup
<1>7. CASE ServerPublish(r)
  <2>1. listen[r].peer \in Peers
    BY <1>2, <1>7 DEF ServerPublish
  <2>2. listen' = [listen EXCEPT ![r] = [at |-> "sentAck", peer |-> listen[r].peer]]
    BY <1>7, HandshakeIs, Zenon
  <2>3. listen' \in [Peers -> Places]
    BY <1>1, <1>3, <1>4, <2>2
  <2>. QED
    BY <1>1, <1>7, <2>1, <2>3 DEF ServerPublish
<1>8. CASE ServerReturn(r)
  BY <1>1, <1>4, <1>8 DEF ServerReturn
<1>9. CASE ClientSetup(r)
  <2>1. main[r].peer \in Peers
    BY <1>2, <1>9 DEF ClientSetup
  <2>2. main' = [main EXCEPT ![r] = [at |-> "setUp", peer |-> main[r].peer]]
    BY <1>9, HandshakeIs, Zenon
  <2>3. main' \in [Peers -> Places]
    BY <1>1, <1>3, <1>4, <2>2
  <2>. QED
    BY <1>1, <1>9, <2>1, <2>3 DEF ClientSetup
<1>10. CASE ClientReturn(r)
  <2>. DEFINE s == main[r].peer
  <2>1. s \in Peers
    BY <1>2, <1>10 DEF ClientReturn
  <2>2. listen' = [listen EXCEPT ![s] = [at |-> "acked", peer |-> listen[s].peer]]
    BY <1>10, HandshakeIs, Zenon
  <2>3. listen' \in [Peers -> Places]
    BY <1>1, <1>3, <1>4, <2>1, <2>2
  <2>. QED
    BY <1>1, <1>4, <1>10, <2>3 DEF ClientReturn
<1>. QED
  BY <1>5, <1>6, <1>7, <1>8, <1>9, <1>10

QueueTypes ==
    /\ pendingOps \in [Peers -> [Peers -> PendingType]]
    /\ out \in [Peers -> [Peers -> OutType]]
    /\ wire \in [Peers -> [Peers -> Seq(Nat)]]
    /\ landed \in [Peers -> [Peers -> LandedType]]
    /\ in \in [Peers -> [Peers -> InType]]
    /\ asked \in [Peers -> [Peers -> [send : Nat, recv : Nat]]]
    /\ got \in [Peers -> [Peers -> SUBSET (Nat \X Nat)]]

\* An entry of a table by rank and peer.
LEMMA EntryChanged ==
    ASSUME NEW T, NEW f \in [Peers -> [Peers -> T]], NEW r \in Peers, NEW p \in Peers, NEW v \in T
    PROVE  /\ [f EXCEPT ![r][p] = v] \in [Peers -> [Peers -> T]]
           /\ \A s, d \in Peers :
                [f EXCEPT ![r][p] = v][s][d] = IF s = r /\ d = p THEN v ELSE f[s][d]
OBVIOUS

LEMMA AskTypes ==
    ASSUME QueueTypes, QueuedForPackets, mesh' = mesh, NEW r \in Peers, NEW p \in Peers,
           NEW n \in Nat, AskMessage(r, p, n) \/ AskReceive(r, p, n)
    PROVE  QueueTypes'
<1>1. Peers' = Peers
  BY DEF Peers
<1>2. /\ <<n>> \in Seq(Nat) /\ << >> \in Seq(Nat) /\ wire[r][p] \in Seq(Nat)
      /\ asked[r][p] \in [send : Nat, recv : Nat] /\ pendingOps[r][p] \in PendingType
      /\ out[r][p] \in OutType /\ in[r][p] \in InType /\ got[r][p] \in SUBSET (Nat \X Nat)
  BY DEF QueueTypes
<1>3. /\ asked[r][p].send \in Nat /\ asked[r][p].recv \in Nat
      /\ pendingOps[r][p].send \in Seq(Nat) /\ pendingOps[r][p].recv \in Seq(Nat)
  BY <1>2 DEF PendingType
<1>4. /\ Append(pendingOps[r][p].send, n) \in Seq(Nat) /\ Append(pendingOps[r][p].recv, n) \in Seq(Nat)
  BY <1>3
<1>5. /\ Sent(out[r][p], <<n>>).out \in OutType
      /\ wire[r][p] \o Sent(out[r][p], <<n>>).posted \in Seq(Nat)
  <2>1. out[r][p].enqueued # << >> => out[r][p].freePkts = 0
    BY DEF QueuedForPackets
  <2>2. Sent(out[r][p], <<n>>).out \in OutType /\ Sent(out[r][p], <<n>>).posted \in Seq(Nat)
    BY <1>2, <2>1, SentFacts
  <2>. QED
    BY <1>2, <2>2, CatFacts
<1>6. /\ Matched(in[r][p], <<n>>, << >>).in \in InType
      /\ got[r][p] \cup Matched(in[r][p], <<n>>, << >>).pairs \in SUBSET (Nat \X Nat)
  <2>1. /\ Matched(in[r][p], <<n>>, << >>).in \in InType
        /\ Matched(in[r][p], <<n>>, << >>).pairs \subseteq Nat \X Nat
    BY <1>2, MatchedType
  <2>. QED
    BY <1>2, <2>1
<1>7. CASE AskMessage(r, p, n)
  <2>1. asked' \in [Peers -> [Peers -> [send : Nat, recv : Nat]]]
    <3>. DEFINE x == [send |-> n, recv |-> asked[r][p].recv]
    <3>1. x \in [send : Nat, recv : Nat]
      BY <1>3
    <3>2. asked' = asked \/ asked' = [asked EXCEPT ![r][p] = x]
      BY <1>7, Zenon DEF AskMessage
    <3>3. asked \in [Peers -> [Peers -> [send : Nat, recv : Nat]]]
      BY DEF QueueTypes
    <3>. HIDE DEF x
    <3>4. [asked EXCEPT ![r][p] = x] \in [Peers -> [Peers -> [send : Nat, recv : Nat]]]
      BY <3>1, <3>3, EntryChanged, Zenon
    <3>. QED
      BY <3>2, <3>3, <3>4, Zenon
  <2>2. pendingOps' \in [Peers -> [Peers -> PendingType]]
    <3>. DEFINE x == [send |-> Append(pendingOps[r][p].send, n), recv |-> pendingOps[r][p].recv]
    <3>1. x \in PendingType
      BY <1>3, <1>4 DEF PendingType
    <3>2. pendingOps' = pendingOps \/ pendingOps' = [pendingOps EXCEPT ![r][p] = x]
      BY <1>7, Zenon DEF AskMessage
    <3>3. pendingOps \in [Peers -> [Peers -> PendingType]]
      BY DEF QueueTypes
    <3>. HIDE DEF x
    <3>4. [pendingOps EXCEPT ![r][p] = x] \in [Peers -> [Peers -> PendingType]]
      BY <3>1, <3>3, EntryChanged, Zenon
    <3>. QED
      BY <3>2, <3>3, <3>4, Zenon
  <2>3. /\ out' \in [Peers -> [Peers -> OutType]] /\ wire' \in [Peers -> [Peers -> Seq(Nat)]]
        /\ UNCHANGED <<landed, in, got>>
    <3>. DEFINE x == Sent(out[r][p], <<n>>).out
                y == wire[r][p] \o Sent(out[r][p], <<n>>).posted
    <3>1. x \in OutType /\ y \in Seq(Nat)
      BY <1>5
    <3>2. /\ (out' = out /\ wire' = wire) \/ (out' = [out EXCEPT ![r][p] = x] /\ wire' = [wire EXCEPT ![r][p] = y])
          /\ UNCHANGED <<landed, in, got>>
      BY <1>7, Zenon DEF AskMessage, control
    <3>3. out \in [Peers -> [Peers -> OutType]] /\ wire \in [Peers -> [Peers -> Seq(Nat)]]
      BY DEF QueueTypes
    <3>. HIDE DEF x, y
    <3>4. [out EXCEPT ![r][p] = x] \in [Peers -> [Peers -> OutType]]
      BY <3>1, <3>3, EntryChanged, Zenon
    <3>5. [wire EXCEPT ![r][p] = y] \in [Peers -> [Peers -> Seq(Nat)]]
      BY <3>1, <3>3, EntryChanged, Zenon
    <3>. QED
      BY <3>2, <3>3, <3>4, <3>5, Zenon
  <2>. QED
    BY <1>1, <2>1, <2>2, <2>3 DEF QueueTypes
<1>8. CASE AskReceive(r, p, n)
  <2>1. asked' \in [Peers -> [Peers -> [send : Nat, recv : Nat]]]
    <3>. DEFINE x == [send |-> asked[r][p].send, recv |-> n]
    <3>1. x \in [send : Nat, recv : Nat]
      BY <1>3
    <3>2. asked' = [asked EXCEPT ![r][p] = x]
      BY <1>8, Zenon DEF AskReceive
    <3>3. asked \in [Peers -> [Peers -> [send : Nat, recv : Nat]]]
      BY DEF QueueTypes
    <3>. HIDE DEF x
    <3>4. [asked EXCEPT ![r][p] = x] \in [Peers -> [Peers -> [send : Nat, recv : Nat]]]
      BY <3>1, <3>3, EntryChanged, Zenon
    <3>. QED
      BY <3>2, <3>3, <3>4, Zenon
  <2>2. pendingOps' \in [Peers -> [Peers -> PendingType]]
    <3>. DEFINE x == [send |-> pendingOps[r][p].send, recv |-> Append(pendingOps[r][p].recv, n)]
    <3>1. x \in PendingType
      BY <1>3, <1>4 DEF PendingType
    <3>2. pendingOps' = pendingOps \/ pendingOps' = [pendingOps EXCEPT ![r][p] = x]
      BY <1>8, Zenon DEF AskReceive
    <3>3. pendingOps \in [Peers -> [Peers -> PendingType]]
      BY DEF QueueTypes
    <3>. HIDE DEF x
    <3>4. [pendingOps EXCEPT ![r][p] = x] \in [Peers -> [Peers -> PendingType]]
      BY <3>1, <3>3, EntryChanged, Zenon
    <3>. QED
      BY <3>2, <3>3, <3>4, Zenon
  <2>3. /\ in' \in [Peers -> [Peers -> InType]]
        /\ got' \in [Peers -> [Peers -> SUBSET (Nat \X Nat)]]
        /\ UNCHANGED <<out, wire, landed>>
    <3>. DEFINE x == Matched(in[r][p], <<n>>, << >>).in
                y == got[r][p] \cup Matched(in[r][p], <<n>>, << >>).pairs
    <3>1. x \in InType /\ y \in SUBSET (Nat \X Nat)
      BY <1>6
    <3>2. /\ (in' = in /\ got' = got) \/ (in' = [in EXCEPT ![r][p] = x] /\ got' = [got EXCEPT ![r][p] = y])
          /\ UNCHANGED <<out, wire, landed>>
      BY <1>8, Zenon DEF AskReceive, control
    <3>3. in \in [Peers -> [Peers -> InType]] /\ got \in [Peers -> [Peers -> SUBSET (Nat \X Nat)]]
      BY DEF QueueTypes
    <3>. HIDE DEF x, y
    <3>4. [in EXCEPT ![r][p] = x] \in [Peers -> [Peers -> InType]]
      BY <3>1, <3>3, EntryChanged, Zenon
    <3>5. [got EXCEPT ![r][p] = y] \in [Peers -> [Peers -> SUBSET (Nat \X Nat)]]
      BY <3>1, <3>3, EntryChanged, Zenon
    <3>. QED
      BY <3>2, <3>3, <3>4, <3>5, Zenon
  <2>. QED
    BY <1>1, <2>1, <2>2, <2>3 DEF QueueTypes
<1>. QED
  BY <1>7, <1>8

LEMMA ProgressTypes ==
    ASSUME LinkTypeOK, QueueTypes, QueuedForPackets, mesh' = mesh, NEW r \in Peers, Progress(r)
    PROVE  QueueTypes'
<1>. DEFINE acked(p) == Acked(out[r][p])
            sent(p) == Sent(acked(p).out, Ready(r, p).send)
            matched(p) == Matched(in[r][p], << >>, landed[p][r].data)
            pending(p) == Matched(matched(p).in, Ready(r, p).recv, << >>)
            called(p) == IF landed[p][r].called THEN {<<0, IsCallback>>} ELSE {}
<1>1. Peers' = Peers
  BY DEF Peers
<1>2. NonePending \in PendingType /\ NothingLanded \in LandedType /\ << >> \in Seq(Nat)
  BY DEF NonePending, PendingType, NothingLanded, LandedType
<1>3. ASSUME NEW p \in Peers
      PROVE  /\ sent(p).out \in OutType /\ (wire[r][p] \o acked(p).posted) \o sent(p).posted \in Seq(Nat)
             /\ pending(p).in \in InType
             /\ got[r][p] \cup matched(p).pairs \cup pending(p).pairs \cup called(p)
                    \in SUBSET (Nat \X Nat)
  <2>1. /\ out[r][p] \in OutType /\ in[r][p] \in InType /\ landed[p][r] \in LandedType
        /\ wire[r][p] \in Seq(Nat) /\ got[r][p] \in SUBSET (Nat \X Nat)
        /\ pendingOps[r][p] \in PendingType
    BY DEF QueueTypes
  <2>2. Ready(r, p) \in PendingType
    BY <1>2, <2>1 DEF Ready
  <2>3. Ready(r, p).send \in Seq(Nat) /\ Ready(r, p).recv \in Seq(Nat) /\ landed[p][r].data \in Seq(Nat)
    BY <2>1, <2>2 DEF PendingType, LandedType
  <2>4. out[r][p].enqueued # << >> => out[r][p].freePkts = 0
    BY DEF QueuedForPackets
  <2>5. /\ acked(p).out \in OutType /\ acked(p).posted \in Seq(Nat)
        /\ acked(p).out.enqueued # << >> => acked(p).out.freePkts = 0
    BY <2>1, <2>4, AckedFacts
  <2>. HIDE DEF acked
  <2>6. sent(p).out \in OutType /\ sent(p).posted \in Seq(Nat)
    BY <2>3, <2>5, SentFacts
  <2>. HIDE DEF sent
  <2>7. (wire[r][p] \o acked(p).posted) \o sent(p).posted \in Seq(Nat)
    BY <2>1, <2>5, <2>6, CatFacts
  <2>8. matched(p).in \in InType /\ matched(p).pairs \subseteq Nat \X Nat
    BY <1>2, <2>1, <2>3, MatchedType
  <2>. HIDE DEF matched
  <2>9. pending(p).in \in InType /\ pending(p).pairs \subseteq Nat \X Nat
    BY <1>2, <2>3, <2>8, MatchedType
  <2>. HIDE DEF pending
  <2>10. called(p) \subseteq Nat \X Nat
    BY DEF IsCallback
  <2>. HIDE DEF called
  <2>. QED
    BY <2>1, <2>6, <2>7, <2>8, <2>9, <2>10
<1>4. /\ out' = [out EXCEPT ![r] = [p \in Peers |-> sent(p).out]]
      /\ wire' = [wire EXCEPT ![r] =
                    [p \in Peers |-> (wire[r][p] \o acked(p).posted) \o sent(p).posted]]
      /\ landed' = [s \in Peers |-> [landed[s] EXCEPT ![r] = NothingLanded]]
      /\ in' = [in EXCEPT ![r] = [p \in Peers |-> pending(p).in]]
      /\ got' = [got EXCEPT ![r] = [p \in Peers |->
                    got[r][p] \cup matched(p).pairs \cup pending(p).pairs \cup called(p)]]
      /\ pendingOps' = [pendingOps EXCEPT ![r] =
                    [p \in Peers |-> IF p \in vcs[r] THEN NonePending ELSE pendingOps[r][p]]]
      /\ asked' = asked
  BY DEF Progress
<1>. HIDE DEF acked, sent, matched, pending, called
<1>5. out' \in [Peers -> [Peers -> OutType]]
  BY <1>3, <1>4 DEF QueueTypes
<1>6. wire' \in [Peers -> [Peers -> Seq(Nat)]]
  BY <1>3, <1>4 DEF QueueTypes
<1>7. landed' \in [Peers -> [Peers -> LandedType]]
  BY <1>2, <1>4 DEF QueueTypes
<1>8. in' \in [Peers -> [Peers -> InType]]
  BY <1>3, <1>4 DEF QueueTypes
<1>9. got' \in [Peers -> [Peers -> SUBSET (Nat \X Nat)]]
  BY <1>3, <1>4 DEF QueueTypes
<1>10. pendingOps' \in [Peers -> [Peers -> PendingType]]
  BY <1>2, <1>4 DEF QueueTypes
<1>. QED
  BY <1>1, <1>4, <1>5, <1>6, <1>7, <1>8, <1>9, <1>10 DEF QueueTypes

\* What landing one message changes.
LEMMA LandIs ==
    ASSUME QueueTypes, NEW s \in Peers, NEW d \in Peers, Land(s, d)
    PROVE  /\ wire[s][d] \in Seq(Nat) /\ wire[s][d] # << >> /\ Head(wire[s][d]) \in Nat
           /\ landed[s][d] \in LandedType /\ out[s][d] \in OutType
           /\ s \in qpReady[d]
           /\ wire' = [wire EXCEPT ![s][d] = Tail(wire[s][d])]
           /\ landed' = [landed EXCEPT ![s][d] =
                [count |-> landed[s][d].count + 1,
                 called |-> landed[s][d].called \/ Head(wire[s][d]) = IsCallback,
                 data |-> IF Head(wire[s][d]) = IsCallback THEN landed[s][d].data
                          ELSE Append(landed[s][d].data, Head(wire[s][d]))]]
           /\ out' = [out EXCEPT ![s][d] = [freePkts |-> out[s][d].freePkts,
                          enqueued |-> out[s][d].enqueued, acked |-> out[s][d].acked + 1]]
           /\ UNCHANGED <<mesh, todo, sockets, connected, pendingOps, in, got, asked>>
<1>1. wire[s][d] \in Seq(Nat) /\ landed[s][d] \in LandedType /\ out[s][d] \in OutType
  BY DEF QueueTypes
<1>2. wire[s][d] # << >>
  BY DEF Land
<1>3. Head(wire[s][d]) \in Nat
  BY <1>1, <1>2
<1>4. out[s][d].acked + 1 \in Nat
  BY <1>1 DEF OutType
<1>5. [out[s][d] EXCEPT !.acked = out[s][d].acked + 1] =
        [freePkts |-> out[s][d].freePkts, enqueued |-> out[s][d].enqueued,
         acked |-> out[s][d].acked + 1]
  BY <1>1, <1>4, AckedChanged, Zenon
<1>6. out' = [out EXCEPT ![s] = [out[s] EXCEPT ![d] =
                [out[s][d] EXCEPT !.acked = out[s][d].acked + 1]]]
  BY Zenon DEF Land
<1>7. out' = [out EXCEPT ![s][d] = [freePkts |-> out[s][d].freePkts,
                enqueued |-> out[s][d].enqueued, acked |-> out[s][d].acked + 1]]
  BY <1>5, <1>6, Zenon
<1>8. /\ s \in qpReady[d]
      /\ wire' = [wire EXCEPT ![s][d] = Tail(wire[s][d])]
      /\ landed' = [landed EXCEPT ![s][d] =
                [count |-> landed[s][d].count + 1,
                 called |-> landed[s][d].called \/ Head(wire[s][d]) = IsCallback,
                 data |-> IF Head(wire[s][d]) = IsCallback THEN landed[s][d].data
                          ELSE Append(landed[s][d].data, Head(wire[s][d]))]]
      /\ UNCHANGED <<mesh, todo, sockets, connected, pendingOps, in, got, asked>>
  BY Zenon DEF Land
<1>. QED
  BY <1>1, <1>2, <1>3, <1>7, <1>8, Zenon

LEMMA LandTypes ==
    ASSUME QueueTypes, NEW s \in Peers, NEW d \in Peers, Land(s, d)
    PROVE  QueueTypes'
<1>. DEFINE here == landed[s][d]
            m == Head(wire[s][d])
<1>1. /\ wire[s][d] \in Seq(Nat) /\ wire[s][d] # << >> /\ m \in Nat
      /\ here \in LandedType /\ out[s][d] \in OutType
      /\ UNCHANGED <<mesh, pendingOps, in, got, asked>>
  BY LandIs
<1>2. Tail(wire[s][d]) \in Seq(Nat)
  BY <1>1
<1>3. /\ here.count + 1 \in Nat /\ here.data \in Seq(Nat) /\ here.called \in BOOLEAN
      /\ Append(here.data, m) \in Seq(Nat)
      /\ out[s][d].freePkts \in Nat /\ out[s][d].enqueued \in Seq(Nat) /\ out[s][d].acked + 1 \in Nat
  BY <1>1 DEF LandedType, OutType
<1>4. wire' \in [Peers -> [Peers -> Seq(Nat)]]
  <2>. DEFINE x == Tail(wire[s][d])
  <2>1. x \in Seq(Nat) /\ wire' = [wire EXCEPT ![s][d] = x]
    BY <1>2, LandIs, Zenon
  <2>2. wire \in [Peers -> [Peers -> Seq(Nat)]]
    BY DEF QueueTypes
  <2>. HIDE DEF x
  <2>. QED
    BY <2>1, <2>2, EntryChanged, Zenon
<1>5. [freePkts |-> out[s][d].freePkts, enqueued |-> out[s][d].enqueued,
         acked |-> out[s][d].acked + 1] \in OutType
  BY <1>3 DEF OutType
<1>6. out' \in [Peers -> [Peers -> OutType]]
  <2>. DEFINE x == [freePkts |-> out[s][d].freePkts, enqueued |-> out[s][d].enqueued,
                acked |-> out[s][d].acked + 1]
  <2>1. x \in OutType /\ out' = [out EXCEPT ![s][d] = x]
    BY <1>5, LandIs, Zenon
  <2>2. out \in [Peers -> [Peers -> OutType]]
    BY DEF QueueTypes
  <2>. HIDE DEF x
  <2>. QED
    BY <2>1, <2>2, EntryChanged, Zenon
<1>7. [count |-> here.count + 1, called |-> here.called \/ m = IsCallback,
         data |-> IF m = IsCallback THEN here.data ELSE Append(here.data, m)] \in LandedType
  BY <1>3 DEF LandedType
<1>8. landed' \in [Peers -> [Peers -> LandedType]]
  <2>. DEFINE x == [count |-> here.count + 1, called |-> here.called \/ m = IsCallback,
                data |-> IF m = IsCallback THEN here.data ELSE Append(here.data, m)]
  <2>1. x \in LandedType /\ landed' = [landed EXCEPT ![s][d] = x]
    BY <1>7, LandIs, Zenon
  <2>2. landed \in [Peers -> [Peers -> LandedType]]
    BY DEF QueueTypes
  <2>. HIDE DEF x
  <2>. QED
    BY <2>1, <2>2, EntryChanged, Zenon
<1>9. Peers' = Peers
  BY <1>1 DEF Peers
<1>. QED
  BY <1>1, <1>4, <1>6, <1>8, <1>9 DEF QueueTypes

SocketTypesOK ==
    /\ main \in [Peers -> Places] /\ listen \in [Peers -> Places]
    /\ backlog \in [Peers -> Seq(Peers)]
    /\ qpReady \in [Peers -> SUBSET Peers] /\ vcs \in [Peers -> SUBSET Peers]
CallTypesOK ==
    mesh \in Programs /\ todo \in [Peers -> Seq(CallType(Peers))] /\ connected \in [Peers -> SUBSET Peers]

LEMMA TypesAre == LinkTypeOK <=> CallTypesOK /\ SocketTypesOK /\ QueueTypes
BY DEF LinkTypeOK, CallTypesOK, SocketTypesOK, QueueTypes, Places

\* A call of the main thread connects, makes its request, marks peers or waits.
LEMMA CallIs ==
    ASSUME LinkTypeOK, NEW r \in Peers, Call(r)
    PROVE  /\ mesh' = mesh /\ main[r].at = "idle"
           /\ todo[r] # << >> /\ todo[r] \in Seq(CallType(Peers))
           /\ \/ \E p \in Peers :
                    /\ StartConnect(r, p) /\ NeedsConnect(r, p)
                    /\ UNCHANGED <<todo, connected, listen, qpReady, vcs, pendingOps, control, asked>>
              \/ /\ todo' = [todo EXCEPT ![r] = Tail(todo[r])]
                 /\ UNCHANGED sockets
                 /\ \/ \E p \in Peers, n \in Nat :
                        /\ AskMessage(r, p, n) \/ AskReceive(r, p, n)
                        /\ ~NeedsConnect(r, p) /\ Head(todo[r]).op \in {"send", "notice", "recv"}
                        /\ Head(todo[r]).peer = p /\ UNCHANGED connected
                    \/ /\ Head(todo[r]).op = "preConnect"
                       /\ Head(todo[r]).peers \subseteq vcs[r]
                       /\ connected' = [connected EXCEPT ![r] = connected[r] \cup Head(todo[r]).peers]
                       /\ UNCHANGED <<pendingOps, control, asked>>
                    \/ /\ Head(todo[r]).op = "wait" /\ \A p \in Peers : Quiet(r, p)
                       /\ UNCHANGED <<connected, pendingOps, control, asked>>
<1>1. mesh' = mesh /\ main[r].at = "idle" /\ todo[r] # << >>
  BY DEF Call
<1>2. todo[r] \in Seq(CallType(Peers))
  BY DEF LinkTypeOK
<1>3. CASE SendOrRecv(r)
  <2>. DEFINE p == Head(todo[r]).peer
  <2>1. Head(todo[r]).op \in {"send", "notice", "recv"} /\ connected' = connected
    BY <1>3 DEF SendOrRecv
  <2>2. p \in Peers
    BY <1>1, <1>2, <2>1, CallsAre
  <2>3. CASE NeedsConnect(r, p)
    <3>1. /\ StartConnect(r, p)
          /\ UNCHANGED <<todo, listen, qpReady, vcs, pendingOps, control, asked>>
      BY <1>3, <2>3, Zenon DEF SendOrRecv
    <3>. QED
      BY <1>1, <1>2, <2>1, <2>2, <2>3, <3>1, Zenon
  <2>4. CASE ~NeedsConnect(r, p)
    <3>1. /\ Ask(r, p, Head(todo[r]).op) /\ todo' = [todo EXCEPT ![r] = Tail(todo[r])]
          /\ UNCHANGED sockets
      BY <1>3, <2>4, Zenon DEF SendOrRecv
    <3>2. PICK n \in Nat : AskMessage(r, p, n) \/ AskReceive(r, p, n)
      BY <2>1, <2>2, <3>1, AskIs, Zenon
    <3>. QED
      BY <1>1, <1>2, <2>1, <2>2, <2>4, <3>1, <3>2, Zenon
  <2>. QED
    BY <2>3, <2>4
<1>4. CASE PreConnect(r)
  <2>1. Head(todo[r]).op = "preConnect" /\ UNCHANGED <<listen, qpReady, vcs, pendingOps, control, asked>>
    BY <1>4, Zenon DEF PreConnect
  <2>2. Head(todo[r]).peers \subseteq Peers
    BY <1>1, <1>2, <2>1, CallsAre
  <2>3. \/ \E p \in Head(todo[r]).peers :
              NeedsConnect(r, p) /\ StartConnect(r, p) /\ UNCHANGED <<todo, connected>>
        \/ /\ Head(todo[r]).peers \subseteq vcs[r]
           /\ connected' = [connected EXCEPT ![r] = connected[r] \cup Head(todo[r]).peers]
           /\ todo' = [todo EXCEPT ![r] = Tail(todo[r])]
           /\ UNCHANGED <<main, backlog>>
    BY <1>4 DEF PreConnect
  <2>4. ASSUME NEW p \in Head(todo[r]).peers, NeedsConnect(r, p), StartConnect(r, p),
               UNCHANGED <<todo, connected>>
        PROVE  p \in Peers
    BY <2>2
  <2>. QED
    BY <1>1, <1>2, <2>1, <2>2, <2>3, Zenon DEF sockets
<1>5. CASE Wait(r)
  BY <1>1, <1>2, <1>5, Zenon DEF Wait
<1>. QED
  BY <1>3, <1>4, <1>5 DEF Call

LEMMA TypeStep ==
    ASSUME ProgramsSound, LinkTypeOK, Roles, QueuedForPackets, [LinkNext]_linkVars
    PROVE  LinkTypeOK' /\ mesh' = mesh
<1>1. CallTypesOK /\ SocketTypesOK /\ QueueTypes
  BY TypesAre
<1>. SUFFICES (CallTypesOK /\ SocketTypesOK /\ QueueTypes)' /\ mesh' = mesh
  BY TypesAre, PTL
<1>2. ASSUME UNCHANGED linkVars PROVE (CallTypesOK /\ SocketTypesOK /\ QueueTypes)' /\ mesh' = mesh
  BY <1>1, <1>2 DEF linkVars, sockets, control, CallTypesOK, SocketTypesOK, QueueTypes, Places, Peers
<1>3. ASSUME NEW r \in Peers,
             Accept(r) \/ ServerSetup(r) \/ ServerPublish(r) \/ ServerReturn(r)
               \/ ClientSetup(r) \/ ClientReturn(r)
      PROVE  (CallTypesOK /\ SocketTypesOK /\ QueueTypes)' /\ mesh' = mesh
  <2>1. mesh' = mesh
    BY <1>3 DEF Accept, ServerSetup, ServerPublish, ServerReturn, ClientSetup, ClientReturn
  <2>2. Peers' = Peers /\ Places' = Places
    BY <2>1 DEF Peers, Places
  <2>3. /\ SocketTypesOK' /\ UNCHANGED <<todo, connected, pendingOps, control, asked>>
    BY <1>3, <2>1, <2>2, SocketTypes DEF SocketTypesOK
  <2>. QED
    BY <1>1, <2>1, <2>2, <2>3 DEF CallTypesOK, QueueTypes, control
<1>4. ASSUME NEW r \in Peers, Call(r)
      PROVE  (CallTypesOK /\ SocketTypesOK /\ QueueTypes)' /\ mesh' = mesh
  <2>1. mesh' = mesh /\ todo[r] # << >> /\ todo[r] \in Seq(CallType(Peers))
    BY <1>4, CallIs, Zenon
  <2>2. Peers' = Peers /\ Places' = Places
    BY <2>1 DEF Peers, Places
  <2>3. ASSUME NEW p \in Peers, StartConnect(r, p),
               UNCHANGED <<todo, connected, listen, qpReady, vcs, pendingOps, control, asked>>
        PROVE  (CallTypesOK /\ SocketTypesOK /\ QueueTypes)'
    <3>1. [at |-> "sentCard", peer |-> p] \in Places
      BY DEF Places, Busy
    <3>2. Append(backlog[p], r) \in Seq(Peers)
      BY <1>1 DEF SocketTypesOK
    <3>3. main' \in [Peers -> Places] /\ backlog' \in [Peers -> Seq(Peers)]
      BY <1>1, <2>3, <3>1, <3>2 DEF SocketTypesOK, StartConnect
    <3>4. CallTypesOK' /\ QueueTypes'
      BY <1>1, <2>1, <2>2, <2>3 DEF CallTypesOK, QueueTypes, control
    <3>. QED
      BY <1>1, <2>2, <2>3, <3>3, <3>4 DEF SocketTypesOK
  <2>4. ASSUME todo' = [todo EXCEPT ![r] = Tail(todo[r])], UNCHANGED sockets
        PROVE  SocketTypesOK' /\ todo' \in [Peers' -> Seq(CallType(Peers'))] /\ (mesh \in Programs)'
    <3>1. Tail(todo[r]) \in Seq(CallType(Peers))
      BY <2>1, CallsAre
    <3>2. todo' \in [Peers -> Seq(CallType(Peers))]
      BY <1>1, <2>4, <3>1 DEF CallTypesOK
    <3>3. SocketTypesOK'
      BY <1>1, <2>2, <2>4 DEF SocketTypesOK, sockets
    <3>. QED
      BY <1>1, <2>1, <2>2, <3>2, <3>3 DEF CallTypesOK
  <2>5. ASSUME NEW p \in Peers, NEW n \in Nat, AskMessage(r, p, n) \/ AskReceive(r, p, n)
        PROVE  QueueTypes'
    BY <1>1, <2>1, <2>5, AskTypes, Zenon
  <2>6. ASSUME UNCHANGED <<pendingOps, control, asked>> PROVE QueueTypes'
    BY <1>1, <2>2, <2>6 DEF QueueTypes, control
  <2>7. ASSUME UNCHANGED connected PROVE connected' \in [Peers' -> SUBSET Peers']
    BY <1>1, <2>2, <2>7 DEF CallTypesOK
  <2>8. ASSUME Head(todo[r]).op = "preConnect",
               connected' = [connected EXCEPT ![r] = connected[r] \cup Head(todo[r]).peers]
        PROVE  connected' \in [Peers' -> SUBSET Peers']
    <3>1. Head(todo[r]).peers \subseteq Peers
      BY <2>1, <2>8, CallsAre
    <3>. QED
      BY <1>1, <2>2, <2>8, <3>1 DEF CallTypesOK
  <2>. QED
    BY <1>4, <2>1, <2>3, <2>4, <2>5, <2>6, <2>7, <2>8, CallIs, Zenon DEF CallTypesOK
<1>5. ASSUME NEW r \in Peers, Progress(r)
      PROVE  (CallTypesOK /\ SocketTypesOK /\ QueueTypes)' /\ mesh' = mesh
  <2>1. UNCHANGED <<mesh, todo, sockets, connected, asked>>
    BY <1>5, Zenon DEF Progress
  <2>2. QueueTypes'
    BY <1>1, <1>5, <2>1, ProgressTypes, Zenon
  <2>. QED
    BY <1>1, <2>1, <2>2 DEF CallTypesOK, SocketTypesOK, sockets, Places, Peers
<1>6. ASSUME NEW r \in Peers, NEW d \in Peers, Land(r, d)
      PROVE  (CallTypesOK /\ SocketTypesOK /\ QueueTypes)' /\ mesh' = mesh
  <2>1. UNCHANGED <<mesh, todo, sockets, connected>>
    BY <1>6, Zenon DEF Land
  <2>2. QueueTypes'
    BY <1>1, <1>6, LandTypes, Zenon
  <2>. QED
    BY <1>1, <2>1, <2>2 DEF CallTypesOK, SocketTypesOK, sockets, Places, Peers
<1>. QED
  BY <1>2, <1>3, <1>4, <1>5, <1>6 DEF LinkNext

-------------------------------------------------------------------------------
(* The handshake keeps its order.                                                *)

LEMMA RolesStep ==
    ASSUME ProgramsSound, LinkTypeOK, Roles, mesh' = mesh, [LinkNext]_linkVars
    PROVE  Roles'
<1>1. Peers' = Peers /\ Peers \subseteq Nat
  BY ProgramsAre DEF Peers, LinkTypeOK
<1>2. SocketTypesOK
  BY TypesAre
<1>3. ASSUME UNCHANGED <<main, listen, backlog>> PROVE Roles'
  BY <1>1, <1>3 DEF Roles
<1>4. ASSUME NEW r \in Peers, Accept(r) PROVE Roles'
  <2>1. /\ backlog[r] \in Seq(Peers) /\ backlog[r] # << >>
        /\ listen' = [listen EXCEPT ![r] = [at |-> "sentCard", peer |-> Head(backlog[r])]]
        /\ backlog' = [backlog EXCEPT ![r] = Tail(backlog[r])] /\ main' = main
    BY <1>2, <1>4 DEF Accept, SocketTypesOK
  <2>2. Head(backlog[r]) = backlog[r][1] /\ Len(backlog[r]) \in Nat \ {0} /\ Head(backlog[r]) \in Peers
        /\ Len(Tail(backlog[r])) = Len(backlog[r]) - 1
        /\ \A k \in 1 .. Len(Tail(backlog[r])) :
             Tail(backlog[r])[k] = backlog[r][k + 1] /\ k + 1 \in 1 .. Len(backlog[r])
    BY <2>1, HeadTailProperties, EmptySeq
  <2>3. Head(backlog[r]) < r /\ \A k \in 1 .. Len(Tail(backlog[r])) : Tail(backlog[r])[k] < r
    BY <2>2 DEF Roles
  <2>4. \A x \in Peers : listen'[x].at # "idle" => listen'[x].peer \in Peers /\ listen'[x].peer < x
    BY <1>2, <2>1, <2>2, <2>3 DEF Roles, SocketTypesOK
  <2>5. \A x \in Peers : \A k \in 1 .. Len(backlog'[x]) : backlog'[x][k] < x
    <3>1. \A x \in Peers : backlog'[x] = IF x = r THEN Tail(backlog[r]) ELSE backlog[x]
      BY <1>2, <2>1 DEF SocketTypesOK
    <3>. QED
      BY <2>3, <3>1 DEF Roles
  <2>. QED
    BY <1>1, <2>1, <2>4, <2>5 DEF Roles
<1>5. ASSUME NEW r \in Peers, ServerSetup(r) \/ ServerPublish(r) PROVE Roles'
  <2>1. PICK v \in Busy : listen' = [listen EXCEPT ![r] = [at |-> v, peer |-> listen[r].peer]]
    BY <1>5, HandshakeIs DEF Busy
  <2>2. listen[r].at # "idle" /\ UNCHANGED <<main, backlog>>
    BY <1>5 DEF ServerSetup, ServerPublish
  <2>. QED
    BY <1>1, <1>2, <2>1, <2>2 DEF Roles, SocketTypesOK
<1>6. ASSUME NEW r \in Peers, ServerReturn(r) PROVE Roles'
  <2>1. listen' = [listen EXCEPT ![r] = Idle] /\ UNCHANGED <<main, backlog>>
    BY <1>6 DEF ServerReturn
  <2>. QED
    BY <1>1, <1>2, <2>1 DEF Roles, SocketTypesOK, Idle
<1>7. ASSUME NEW r \in Peers, ClientSetup(r) PROVE Roles'
  <2>1. main' = [main EXCEPT ![r] = [at |-> "setUp", peer |-> main[r].peer]]
    BY <1>7, HandshakeIs
  <2>2. main[r].at # "idle" /\ UNCHANGED <<listen, backlog>>
    BY <1>7 DEF ClientSetup
  <2>. QED
    BY <1>1, <1>2, <2>1, <2>2 DEF Roles, SocketTypesOK
<1>8. ASSUME NEW r \in Peers, ClientReturn(r) PROVE Roles'
  <2>. DEFINE s == main[r].peer
  <2>1. s \in Peers /\ listen' = [listen EXCEPT ![s] = [at |-> "acked", peer |-> listen[s].peer]]
    BY <1>8, HandshakeIs, Zenon
  <2>2. /\ listen[s].at = "sentAck" /\ main' = [main EXCEPT ![r] = Idle] /\ backlog' = backlog
    BY <1>8 DEF ClientReturn
  <2>. HIDE DEF s
  <2>. QED
    BY <1>1, <1>2, <2>1, <2>2 DEF Roles, SocketTypesOK, Idle
<1>9. ASSUME NEW r \in Peers, NEW p \in Peers, StartConnect(r, p), NeedsConnect(r, p), listen' = listen
      PROVE  Roles'
  <2>1. r < p /\ main' = [main EXCEPT ![r] = [at |-> "sentCard", peer |-> p]]
        /\ backlog' = [backlog EXCEPT ![p] = Append(backlog[p], r)]
    BY <1>9 DEF StartConnect, NeedsConnect
  <2>2. \A k \in 1 .. Len(Append(backlog[p], r)) : Append(backlog[p], r)[k] < p
    <3>1. backlog[p] \in Seq(Peers)
      BY <1>2 DEF SocketTypesOK
    <3>2. /\ Len(Append(backlog[p], r)) = Len(backlog[p]) + 1 /\ Len(backlog[p]) \in Nat
          /\ \A k \in 1 .. Len(backlog[p]) : Append(backlog[p], r)[k] = backlog[p][k]
          /\ Append(backlog[p], r)[Len(backlog[p]) + 1] = r
      BY <3>1, AppendProperties
    <3>3. \A k \in 1 .. Len(backlog[p]) + 1 : k \in 1 .. Len(backlog[p]) \/ k = Len(backlog[p]) + 1
      BY <3>2
    <3>. QED
      BY <2>1, <3>2, <3>3 DEF Roles
  <2>3. \A x \in Peers : backlog'[x] = IF x = p THEN Append(backlog[p], r) ELSE backlog[x]
    BY <1>2, <2>1 DEF SocketTypesOK
  <2>4. \A x \in Peers : \A k \in 1 .. Len(backlog'[x]) : backlog'[x][k] < x
    BY <2>2, <2>3 DEF Roles
  <2>5. \A x \in Peers : main'[x].at # "idle" => main'[x].peer \in Peers /\ x < main'[x].peer
    BY <1>2, <2>1 DEF Roles, SocketTypesOK
  <2>. QED
    BY <1>1, <1>9, <2>4, <2>5 DEF Roles
<1>10. ASSUME NEW r \in Peers, Call(r) PROVE Roles'
  BY <1>3, <1>9, <1>10, CallIs, Zenon DEF sockets
<1>11. ASSUME NEW r \in Peers, Progress(r) \/ \E d \in Peers : Land(r, d) PROVE Roles'
  <2>1. UNCHANGED <<main, listen, backlog>>
    BY <1>11, Zenon DEF Progress, Land, sockets
  <2>. QED
    BY <1>3, <2>1
<1>12. ASSUME UNCHANGED linkVars PROVE Roles'
  BY <1>3, <1>12 DEF linkVars, sockets
<1>. QED
  BY <1>4, <1>5, <1>6, <1>7, <1>8, <1>10, <1>11, <1>12 DEF LinkNext

\* Neither a connection nor the end of connectVc is known to one side alone.
LEMMA PublishedStep ==
    ASSUME ProgramsSound, LinkTypeOK, Roles, Published, ClientKnows, mesh' = mesh, [LinkNext]_linkVars
    PROVE  Published' /\ ClientKnows'
<1>1. Peers' = Peers /\ Peers \subseteq Nat
  BY ProgramsAre DEF Peers, LinkTypeOK
<1>2. SocketTypesOK
  BY TypesAre
<1>3. ASSUME UNCHANGED <<main, listen, vcs, qpReady>> PROVE Published' /\ ClientKnows'
  BY <1>1, <1>3 DEF Published, ClientKnows
<1>4. ASSUME NEW r \in Peers, Accept(r) PROVE Published' /\ ClientKnows'
  <2>1. /\ listen' = [listen EXCEPT ![r] = [at |-> "sentCard", peer |-> Head(backlog[r])]]
        /\ UNCHANGED <<main, vcs, qpReady>>
    BY <1>4 DEF Accept
  <2>2. \A x \in Peers : listen'[x].at \in {"sentAck", "acked"} => listen'[x] = listen[x]
    BY <1>2, <2>1 DEF SocketTypesOK
  <2>. QED
    BY <1>1, <2>1, <2>2 DEF Published, ClientKnows
<1>5. ASSUME NEW r \in Peers, ServerSetup(r) PROVE Published' /\ ClientKnows'
  <2>1. listen[r].peer \in Peers
        /\ listen' = [listen EXCEPT ![r] = [at |-> "setUp", peer |-> listen[r].peer]]
    BY <1>5, HandshakeIs
  <2>2. /\ listen[r].at = "sentCard" /\ qpReady' = [qpReady EXCEPT ![r] = qpReady[r] \cup {listen[r].peer}]
        /\ UNCHANGED <<main, vcs>>
    BY <1>5 DEF ServerSetup
  <2>3. \A x \in Peers : listen'[x].at \in {"sentAck", "acked"} => listen'[x] = listen[x]
    BY <1>2, <2>1 DEF SocketTypesOK
  <2>4. listen[r].peer < r
    BY <2>2 DEF Roles
  <2>5. \A s, d \in Peers : s \in qpReady'[d] => s \in qpReady[d] \/ s < d
    <3>. DEFINE c == listen[r].peer
    <3>1. c < r /\ qpReady' = [qpReady EXCEPT ![r] = qpReady[r] \cup {c}]
      BY <2>2, <2>4
    <3>. HIDE DEF c
    <3>2. \A x \in Peers : \A y \in qpReady'[x] : y \in qpReady[x] \/ (x = r /\ y = c)
      BY <1>2, <3>1 DEF SocketTypesOK
    <3>. SUFFICES ASSUME NEW s \in Peers, NEW d \in Peers, s \in qpReady'[d], s \notin qpReady[d]
                  PROVE  s < d
      BY Zenon
    <3>3. d = r /\ s = c
      BY <3>2
    <3>. QED
      BY <3>1, <3>3, Zenon
  <2>6. ClientKnows'
    <3>1. ASSUME NEW s \in Peers, NEW d \in Peers, s >= d, s \in qpReady'[d]
          PROVE  d # s /\ s \in vcs'[d]
      <4>1. ~(s < d)
        BY <1>1, <3>1
      <4>2. s \in qpReady[d]
        BY <2>5, <3>1, <4>1
      <4>3. vcs' = vcs
        BY <2>2
      <4>. QED
        BY <3>1, <4>2, <4>3 DEF ClientKnows
    <3>. QED
      BY <1>1, <3>1 DEF ClientKnows
  <2>. QED
    BY <1>1, <2>2, <2>3, <2>6 DEF Published
<1>6. ASSUME NEW r \in Peers, ServerPublish(r) PROVE Published' /\ ClientKnows'
  <2>. DEFINE c == listen[r].peer
  <2>1. c \in Peers /\ listen' = [listen EXCEPT ![r] = [at |-> "sentAck", peer |-> c]]
    BY <1>6, HandshakeIs
  <2>2. /\ listen[r].at = "setUp" /\ vcs' = [vcs EXCEPT ![r] = vcs[r] \cup {c}]
        /\ UNCHANGED <<main, qpReady>>
    BY <1>6 DEF ServerPublish
  <2>3. c < r
    BY <2>2 DEF Roles
  <2>. HIDE DEF c
  <2>4. \A x \in Peers : vcs[x] \subseteq vcs'[x] /\ \A y \in vcs'[x] : y \in vcs[x] \/ (x = r /\ y = c)
    BY <1>2, <2>2 DEF SocketTypesOK
  <2>5. c \in vcs'[r]
    BY <1>2, <2>2 DEF SocketTypesOK
  <2>6. \A x \in Peers : x # r => listen'[x] = listen[x]
    BY <1>2, <2>1 DEF SocketTypesOK
  <2>7. listen'[r].peer = c
    BY <1>2, <2>1 DEF SocketTypesOK
  <2>8. \A x \in Peers : listen'[x].at \in {"sentAck", "acked"} => listen'[x].peer \in vcs'[x]
    BY <2>4, <2>5, <2>6, <2>7 DEF Published
  <2>9. \A s, d \in Peers : s < d /\ d \in vcs'[s] => d \in vcs[s]
    BY <1>1, <2>1, <2>3, <2>4
  <2>10. Published'
    BY <1>1, <2>2, <2>4, <2>8, <2>9 DEF Published
  <2>. QED
    BY <1>1, <2>2, <2>4, <2>10 DEF ClientKnows
<1>7. ASSUME NEW r \in Peers, ServerReturn(r) PROVE Published' /\ ClientKnows'
  <2>1. listen' = [listen EXCEPT ![r] = Idle] /\ UNCHANGED <<main, vcs, qpReady>>
    BY <1>7 DEF ServerReturn
  <2>2. \A x \in Peers : listen'[x].at \in {"sentAck", "acked"} => listen'[x] = listen[x]
    BY <1>2, <2>1 DEF SocketTypesOK, Idle
  <2>. QED
    BY <1>1, <2>1, <2>2 DEF Published, ClientKnows
<1>8. ASSUME NEW r \in Peers, ClientSetup(r) PROVE Published' /\ ClientKnows'
  <2>. DEFINE p == main[r].peer
  <2>1. p \in Peers /\ main' = [main EXCEPT ![r] = [at |-> "setUp", peer |-> p]]
    BY <1>8, HandshakeIs
  <2>2. /\ main[r].at = "sentCard"
        /\ vcs' = [vcs EXCEPT ![r] = vcs[r] \cup {p}]
        /\ qpReady' = [qpReady EXCEPT ![r] = qpReady[r] \cup {p}] /\ listen' = listen
    BY <1>8 DEF ClientSetup
  <2>3. r < p
    BY <2>2 DEF Roles
  <2>. HIDE DEF p
  <2>4. \A x \in Peers : vcs[x] \subseteq vcs'[x] /\ \A y \in vcs'[x] : y \in vcs[x] \/ (x = r /\ y = p)
    BY <1>2, <2>2 DEF SocketTypesOK
  <2>5. p \in vcs'[r] /\ main'[r].at = "setUp" /\ main'[r].peer = p
    BY <1>2, <2>1, <2>2 DEF SocketTypesOK
  <2>6. \A x \in Peers : \A y \in qpReady'[x] : y \in qpReady[x] \/ (x = r /\ y = p)
    BY <1>2, <2>2 DEF SocketTypesOK
  <2>7. \A x \in Peers : main[x].at = "setUp" => main'[x] = main[x]
    BY <1>2, <2>1, <2>2 DEF SocketTypesOK
  <2>8. ClientKnows'
    BY <1>1, <2>1, <2>3, <2>4, <2>5, <2>6 DEF ClientKnows
  <2>9. \A s, d \in Peers : s < d /\ d \in vcs'[s] =>
            s \in vcs'[d] \/ (main'[s].at = "setUp" /\ main'[s].peer = d)
    BY <2>4, <2>5, <2>7 DEF Published
  <2>10. \A x \in Peers : listen'[x].at \in {"sentAck", "acked"} => listen'[x].peer \in vcs'[x]
    BY <2>2, <2>4 DEF Published
  <2>. QED
    BY <1>1, <2>8, <2>9, <2>10 DEF Published
<1>9. ASSUME NEW r \in Peers, ClientReturn(r) PROVE Published' /\ ClientKnows'
  <2>. DEFINE p == main[r].peer
  <2>1. p \in Peers /\ listen' = [listen EXCEPT ![p] = [at |-> "acked", peer |-> listen[p].peer]]
    BY <1>9, HandshakeIs, Zenon
  <2>2. /\ main[r].at = "setUp" /\ listen[p] = [at |-> "sentAck", peer |-> r]
        /\ main' = [main EXCEPT ![r] = Idle] /\ UNCHANGED <<vcs, qpReady>>
    BY <1>9 DEF ClientReturn
  <2>3. r \in vcs[p]
    BY <2>1, <2>2 DEF Published
  <2>. HIDE DEF p
  <2>4. main[r].peer = p
    BY DEF p
  <2>5. \A x \in Peers : x # r => main'[x] = main[x]
    BY <1>2, <2>2 DEF SocketTypesOK
  <2>6. \A x \in Peers : x # p => listen'[x] = listen[x]
    BY <1>2, <2>1 DEF SocketTypesOK
  <2>7. listen'[p].peer = r
    BY <1>2, <2>1, <2>2 DEF SocketTypesOK
  <2>8. \A x \in Peers : listen'[x].at \in {"sentAck", "acked"} => listen'[x].peer \in vcs'[x]
    BY <2>2, <2>3, <2>6, <2>7 DEF Published
  <2>9. \A s, d \in Peers : s < d /\ d \in vcs'[s] =>
            s \in vcs'[d] \/ (main'[s].at = "setUp" /\ main'[s].peer = d)
    BY <2>2, <2>3, <2>4, <2>5 DEF Published
  <2>. QED
    BY <1>1, <2>2, <2>8, <2>9 DEF Published, ClientKnows
<1>10. ASSUME NEW r \in Peers, NEW p \in Peers, main[r].at = "idle", StartConnect(r, p),
              UNCHANGED <<listen, vcs, qpReady>>
       PROVE  Published' /\ ClientKnows'
  <2>1. main' = [main EXCEPT ![r] = [at |-> "sentCard", peer |-> p]]
    BY <1>10 DEF StartConnect
  <2>2. \A x \in Peers : main[x].at = "setUp" => main'[x] = main[x]
    BY <1>2, <1>10, <2>1 DEF SocketTypesOK
  <2>. QED
    BY <1>1, <1>10, <2>2 DEF Published, ClientKnows
<1>11. ASSUME NEW r \in Peers, Call(r) PROVE Published' /\ ClientKnows'
  BY <1>3, <1>10, <1>11, CallIs, Zenon DEF sockets
<1>12. ASSUME NEW r \in Peers, Progress(r) \/ \E d \in Peers : Land(r, d)
       PROVE  Published' /\ ClientKnows'
  <2>1. UNCHANGED <<main, listen, vcs, qpReady>>
    BY <1>12, Zenon DEF Progress, Land, sockets
  <2>. QED
    BY <1>3, <2>1
<1>13. ASSUME UNCHANGED linkVars PROVE Published' /\ ClientKnows'
  BY <1>3, <1>13 DEF linkVars, sockets
<1>. QED
  BY <1>4, <1>5, <1>6, <1>7, <1>8, <1>9, <1>11, <1>12, <1>13 DEF LinkNext

-------------------------------------------------------------------------------
(* Requests held for a peer.                                                     *)

LEMMA RestOfCalls ==
    ASSUME NEW calls \in Seq(CallType(Peers)), calls # << >>
    PROVE  /\ WaitsFirst(calls) => WaitsFirst(Tail(calls))
           /\ \A p : WaitsFor(calls, p) /\ Head(calls).op # "wait" => WaitsFor(Tail(calls), p)
           /\ WaitsFirst(calls) /\ Head(calls).op \in {"send", "notice", "recv"}
                => WaitsFor(Tail(calls), Head(calls).peer)
           /\ Head(calls).op = "preConnect" => \A p \in Head(calls).peers : ~WaitsFor(calls, p)
<1>. DEFINE t == Tail(calls)
<1>1. /\ Head(calls) = calls[1] /\ Len(calls) \in Nat \ {0} /\ Len(t) = Len(calls) - 1
      /\ DOMAIN calls = 1 .. Len(calls) /\ DOMAIN t = 1 .. Len(t)
      /\ \A k \in 1 .. Len(t) : t[k] = calls[k + 1]
  BY HeadTailProperties, EmptySeq, LenProperties
<1>2. /\ \A k \in DOMAIN t : k \in Nat /\ k + 1 \in DOMAIN calls /\ 1 < k + 1 /\ t[k] = calls[k + 1]
      /\ 1 \in DOMAIN calls
  BY <1>1
<1>. HIDE DEF t
<1>3. \A k \in DOMAIN t : \A w \in 2 .. k : w - 1 \in 1 .. k - 1 /\ t[w - 1] = calls[w]
  <2>. TAKE k \in DOMAIN t
  <2>. TAKE w \in 2 .. k
  <2>1. w - 1 \in 1 .. Len(t) /\ (w - 1) + 1 = w /\ w - 1 \in 1 .. k - 1
    BY <1>1
  <2>. QED
    BY <1>1, <2>1
<1>4. WaitsFirst(calls) => WaitsFirst(t)
  <2>. SUFFICES ASSUME WaitsFirst(calls), NEW j \in DOMAIN t, NEW k \in DOMAIN t,
                       j < k, t[k].op = "preConnect",
                       t[j].op \in {"send", "notice", "recv"}, t[j].peer \in t[k].peers
                PROVE  \E w \in j + 1 .. k - 1 : t[w].op = "wait"
    BY DEF WaitsFirst
  <2>1. j + 1 < k + 1 /\ j \in Nat /\ k \in Nat
    BY <1>2
  <2>2. PICK w \in (j + 1) + 1 .. (k + 1) - 1 : calls[w].op = "wait"
    BY <1>2, <2>1 DEF WaitsFirst
  <2>3. w \in 2 .. k /\ w - 1 \in j + 1 .. k - 1
    BY <2>1
  <2>4. t[w - 1].op = "wait"
    BY <1>3, <2>2, <2>3
  <2>. QED
    BY <2>3, <2>4
<1>5. ASSUME NEW p, WaitsFor(calls, p), Head(calls).op # "wait" PROVE WaitsFor(t, p)
  <2>. SUFFICES ASSUME NEW k \in DOMAIN t, t[k].op = "preConnect", p \in t[k].peers
                PROVE  \E w \in 1 .. k - 1 : t[w].op = "wait"
    BY DEF WaitsFor
  <2>1. PICK w \in 1 .. (k + 1) - 1 : calls[w].op = "wait"
    BY <1>2, <1>5 DEF WaitsFor
  <2>2. w # 1
    BY <1>1, <1>5, <2>1
  <2>3. w \in 2 .. k
    BY <1>2, <2>2
  <2>. QED
    BY <1>3, <2>1, <2>3
<1>6. ASSUME WaitsFirst(calls), Head(calls).op \in {"send", "notice", "recv"}
      PROVE  WaitsFor(t, Head(calls).peer)
  <2>. SUFFICES ASSUME NEW k \in DOMAIN t, t[k].op = "preConnect", Head(calls).peer \in t[k].peers
                PROVE  \E w \in 1 .. k - 1 : t[w].op = "wait"
    BY DEF WaitsFor
  <2>1. PICK w \in 1 + 1 .. (k + 1) - 1 : calls[w].op = "wait"
    BY <1>1, <1>2, <1>6 DEF WaitsFirst
  <2>2. w \in 2 .. k
    BY <1>2
  <2>. QED
    BY <1>3, <2>1, <2>2
<1>7. ASSUME Head(calls).op = "preConnect", NEW p \in Head(calls).peers, WaitsFor(calls, p)
      PROVE  FALSE
  <2>1. \E w \in 1 .. 1 - 1 : calls[w].op = "wait"
    BY <1>1, <1>2, <1>7 DEF WaitsFor
  <2>. QED
    BY <2>1
<1>. QED
  BY <1>4, <1>5, <1>6, <1>7 DEF t

\* What a request leaves held.
LEMMA AskHolds ==
    ASSUME LinkTypeOK, NEW r \in Peers, NEW p \in Peers, NEW n \in Nat,
           AskMessage(r, p, n) \/ AskReceive(r, p, n)
    PROVE  \A x, y \in Peers : pendingOps'[x][y] # pendingOps[x][y] =>
                x = r /\ y = p /\ IsPending(r, p)
<1>1. pendingOps \in [Peers -> [Peers -> PendingType]]
  BY DEF LinkTypeOK
<1>2. ASSUME NEW z, pendingOps' = [pendingOps EXCEPT ![r][p] = z], IsPending(r, p)
      PROVE  \A x, y \in Peers : pendingOps'[x][y] # pendingOps[x][y] =>
                x = r /\ y = p /\ IsPending(r, p)
  BY <1>1, <1>2
<1>3. UNCHANGED pendingOps \/ (IsPending(r, p) /\ \E z : pendingOps' = [pendingOps EXCEPT ![r][p] = z])
  BY Zenon DEF AskMessage, AskReceive
<1>. QED
  BY <1>2, <1>3

LEMMA HeldStep ==
    ASSUME ProgramsSound, LinkTypeOK, Roles, HeldAreWaitedFor, mesh' = mesh, [LinkNext]_linkVars
    PROVE  HeldAreWaitedFor'
<1>1. Peers' = Peers
  BY DEF Peers
<1>2. /\ todo \in [Peers -> Seq(CallType(Peers))] /\ vcs \in [Peers -> SUBSET Peers]
      /\ connected \in [Peers -> SUBSET Peers] /\ pendingOps \in [Peers -> [Peers -> PendingType]]
  BY DEF LinkTypeOK
<1>3. ASSUME UNCHANGED <<todo, connected>>, \A x \in Peers : vcs[x] \subseteq vcs'[x],
             \A x, y \in Peers : pendingOps'[x][y] \in {pendingOps[x][y], NonePending}
      PROVE  HeldAreWaitedFor'
  <2>. SUFFICES ASSUME NEW r \in Peers
                PROVE  /\ WaitsFirst(todo'[r])
                       /\ \A p \in connected'[r] : p \in vcs'[r] /\ pendingOps'[r][p] = NonePending
                       /\ \A p \in Peers : pendingOps'[r][p] # NonePending => WaitsFor(todo'[r], p)
    BY <1>1 DEF HeldAreWaitedFor
  <2>. QED
    BY <1>2, <1>3 DEF HeldAreWaitedFor
<1>4. ASSUME NEW r \in Peers,
             Accept(r) \/ ServerSetup(r) \/ ServerPublish(r) \/ ServerReturn(r)
               \/ ClientSetup(r) \/ ClientReturn(r)
      PROVE  HeldAreWaitedFor'
  <2>1. UNCHANGED <<todo, connected, pendingOps>>
    BY <1>4 DEF Accept, ServerSetup, ServerPublish, ServerReturn, ClientSetup, ClientReturn
  <2>2. UNCHANGED vcs \/ \E x : vcs' = [vcs EXCEPT ![r] = vcs[r] \cup x]
    BY <1>4, Zenon DEF Accept, ServerSetup, ServerPublish, ServerReturn, ClientSetup, ClientReturn
  <2>3. \A x \in Peers : vcs[x] \subseteq vcs'[x]
    BY <1>2, <2>2
  <2>. QED
    BY <1>3, <2>1, <2>3
<1>5. ASSUME NEW r \in Peers, Progress(r) PROVE HeldAreWaitedFor'
  <2>1. /\ UNCHANGED <<todo, vcs, connected>>
        /\ pendingOps' = [pendingOps EXCEPT ![r] =
                [p \in Peers |-> IF p \in vcs[r] THEN NonePending ELSE pendingOps[r][p]]]
    BY <1>5 DEF Progress, sockets
  <2>2. \A x, y \in Peers : pendingOps'[x][y] \in {pendingOps[x][y], NonePending}
    BY <1>2, <2>1
  <2>. QED
    BY <1>3, <2>1, <2>2
<1>6. ASSUME NEW r \in Peers, NEW d \in Peers, Land(r, d) PROVE HeldAreWaitedFor'
  <2>1. UNCHANGED <<todo, vcs, connected, pendingOps>>
    BY <1>6 DEF Land, sockets
  <2>. QED
    BY <1>3, <2>1
<1>7. ASSUME NEW r \in Peers, NEW p \in Peers, StartConnect(r, p),
             UNCHANGED <<todo, connected, vcs, pendingOps>>
      PROVE  HeldAreWaitedFor'
  BY <1>3, <1>7
<1>8. ASSUME NEW r \in Peers, todo' = [todo EXCEPT ![r] = Tail(todo[r])], todo[r] # << >>,
             todo[r] \in Seq(CallType(Peers)), vcs' = vcs,
             NEW p \in Peers, NEW n \in Nat, AskMessage(r, p, n) \/ AskReceive(r, p, n),
             Head(todo[r]).op \in {"send", "notice", "recv"}, Head(todo[r]).peer = p,
             connected' = connected
      PROVE  HeldAreWaitedFor'
  <2>1. \A x \in Peers : todo'[x] = IF x = r THEN Tail(todo[r]) ELSE todo[x]
    BY <1>2, <1>8
  <2>2. /\ WaitsFirst(Tail(todo[r])) /\ WaitsFor(Tail(todo[r]), p)
        /\ \A y : WaitsFor(todo[r], y) => WaitsFor(Tail(todo[r]), y)
    BY <1>8, RestOfCalls DEF HeldAreWaitedFor
  <2>3. \A x, y \in Peers : pendingOps'[x][y] # pendingOps[x][y] =>
            x = r /\ y = p /\ p \notin connected[r]
    BY <1>8, AskHolds DEF IsPending
  <2>4. \A x \in Peers : WaitsFirst(todo'[x])
    BY <2>1, <2>2 DEF HeldAreWaitedFor
  <2>5. \A x \in Peers : \A y \in connected'[x] : y \in vcs'[x] /\ pendingOps'[x][y] = NonePending
    <3>1. UNCHANGED <<vcs, connected>>
      BY <1>8
    <3>2. \A x \in Peers : \A y \in connected[x] :
            y \in Peers /\ y \in vcs[x] /\ pendingOps[x][y] = NonePending
      BY <1>2 DEF HeldAreWaitedFor
    <3>. QED
      BY <2>3, <3>1, <3>2, Zenon
  <2>6. \A x, y \in Peers : pendingOps'[x][y] # NonePending => WaitsFor(todo'[x], y)
    BY <2>1, <2>2, <2>3 DEF HeldAreWaitedFor
  <2>. QED
    BY <1>1, <2>4, <2>5, <2>6 DEF HeldAreWaitedFor
<1>9. ASSUME NEW r \in Peers, todo' = [todo EXCEPT ![r] = Tail(todo[r])], todo[r] # << >>,
             todo[r] \in Seq(CallType(Peers)), vcs' = vcs, pendingOps' = pendingOps,
             Head(todo[r]).op = "preConnect", Head(todo[r]).peers \subseteq vcs[r],
             connected' = [connected EXCEPT ![r] = connected[r] \cup Head(todo[r]).peers]
      PROVE  HeldAreWaitedFor'
  <2>1. \A x \in Peers : todo'[x] = IF x = r THEN Tail(todo[r]) ELSE todo[x]
    BY <1>2, <1>9
  <2>2. /\ WaitsFirst(Tail(todo[r]))
        /\ \A y : WaitsFor(todo[r], y) => WaitsFor(Tail(todo[r]), y)
        /\ \A y \in Head(todo[r]).peers : ~WaitsFor(todo[r], y)
    BY <1>9, RestOfCalls DEF HeldAreWaitedFor
  <2>3. \A y \in Head(todo[r]).peers : y \in Peers /\ pendingOps[r][y] = NonePending
    BY <1>2, <1>9, <2>2 DEF HeldAreWaitedFor
  <2>4. \A x \in Peers : WaitsFirst(todo'[x])
    BY <2>1, <2>2 DEF HeldAreWaitedFor
  <2>5. \A x \in Peers : \A y \in connected'[x] :
            y \in connected[x] \/ (x = r /\ y \in Head(todo[r]).peers)
    BY <1>2, <1>9
  <2>6. \A x \in Peers : \A y \in connected'[x] : y \in vcs'[x] /\ pendingOps'[x][y] = NonePending
    BY <1>2, <1>9, <2>3, <2>5 DEF HeldAreWaitedFor
  <2>7. \A x, y \in Peers : pendingOps'[x][y] # NonePending => WaitsFor(todo'[x], y)
    BY <1>9, <2>1, <2>2 DEF HeldAreWaitedFor
  <2>. QED
    BY <1>1, <2>4, <2>6, <2>7 DEF HeldAreWaitedFor
<1>10. ASSUME NEW r \in Peers, todo' = [todo EXCEPT ![r] = Tail(todo[r])], todo[r] # << >>,
              todo[r] \in Seq(CallType(Peers)), vcs' = vcs, pendingOps' = pendingOps,
              \A p \in Peers : Quiet(r, p), connected' = connected
       PROVE  HeldAreWaitedFor'
  <2>1. \A x \in Peers : todo'[x] = IF x = r THEN Tail(todo[r]) ELSE todo[x]
    BY <1>2, <1>10
  <2>2. WaitsFirst(Tail(todo[r]))
    BY <1>10, RestOfCalls DEF HeldAreWaitedFor
  <2>3. \A y \in Peers : pendingOps[r][y] = NonePending
    BY <1>10 DEF Quiet
  <2>4. \A x \in Peers : WaitsFirst(todo'[x])
    BY <2>1, <2>2 DEF HeldAreWaitedFor
  <2>5. \A x, y \in Peers : pendingOps'[x][y] # NonePending => WaitsFor(todo'[x], y)
    BY <1>10, <2>1, <2>3 DEF HeldAreWaitedFor
  <2>. QED
    BY <1>1, <1>2, <1>10, <2>4, <2>5 DEF HeldAreWaitedFor
<1>11. ASSUME NEW r \in Peers, Call(r) PROVE HeldAreWaitedFor'
  BY <1>7, <1>8, <1>9, <1>10, <1>11, CallIs, Zenon DEF sockets
<1>12. ASSUME UNCHANGED linkVars PROVE HeldAreWaitedFor'
  BY <1>3, <1>12 DEF linkVars, sockets
<1>. QED
  BY <1>4, <1>5, <1>6, <1>11, <1>12 DEF LinkNext

-------------------------------------------------------------------------------
(* Sending.                                                                      *)

LEMMA CatEmpty ==
    ASSUME NEW a \in Seq(Nat), NEW b \in Seq(Nat), a \o b = << >>
    PROVE  a = << >> /\ b = << >>
<1>1. Len(a) + Len(b) = 0 /\ Len(a) \in Nat /\ Len(b) \in Nat
  <2>1. Len(a \o b) = Len(a) + Len(b)
    BY CatFacts, Zenon
  <2>. QED
    BY <2>1, EmptySeq
<1>2. Len(a) = 0 /\ Len(b) = 0
  BY <1>1
<1>. QED
  BY <1>2, EmptySeq

\* What is on the wire and what is queued, one after the other.
LEMMA SentChannel ==
    ASSUME NEW w \in Seq(Nat), NEW o \in OutType, NEW msgs \in Seq(Nat),
           o.enqueued # << >> => o.freePkts = 0
    PROVE  (w \o Sent(o, msgs).posted) \o Sent(o, msgs).out.enqueued = (w \o o.enqueued) \o msgs
<1>. DEFINE a == Sent(o, msgs).posted
            e == Sent(o, msgs).out.enqueued
            q == o.enqueued
<1>1. a \in Seq(Nat) /\ e \in Seq(Nat) /\ a \o e = q \o msgs /\ q \in Seq(Nat)
  BY SentFacts DEF OutType
<1>. HIDE DEF a, e, q
<1>2. (w \o a) \o e = w \o (a \o e) /\ (w \o q) \o msgs = w \o (q \o msgs)
  BY <1>1, CatAssociates, Zenon
<1>3. (w \o a) \o e = (w \o q) \o msgs
  BY <1>1, <1>2, Zenon
<1>. QED
  BY <1>3 DEF a, e, q

LEMMA AckedChannel ==
    ASSUME NEW w \in Seq(Nat), NEW o \in OutType, o.enqueued # << >> => o.freePkts = 0
    PROVE  (w \o Acked(o).posted) \o Acked(o).out.enqueued = w \o o.enqueued
<1>. DEFINE a == Acked(o).posted
            e == Acked(o).out.enqueued
            q == o.enqueued
<1>1. a \in Seq(Nat) /\ e \in Seq(Nat) /\ a \o e = q
  BY AckedFacts DEF OutType
<1>. HIDE DEF a, e, q
<1>2. (w \o a) \o e = w \o (a \o e)
  BY <1>1, CatAssociates, Zenon
<1>3. (w \o a) \o e = w \o q
  BY <1>1, <1>2, Zenon
<1>. QED
  BY <1>3 DEF a, e, q

\* What a rank has sent to p when it made progress, and what it holds for p.
LEMMA ProgressSends ==
    ASSUME LinkTypeOK, QueuedForPackets, NEW r \in Peers, Progress(r), NEW p \in Peers
    PROVE  /\ wire'[r][p] \in Seq(Nat) /\ out'[r][p].enqueued \in Seq(Nat)
           /\ wire'[r][p] \o out'[r][p].enqueued =
                (wire[r][p] \o out[r][p].enqueued) \o Ready(r, p).send
           /\ out'[r][p].enqueued # << >> => out'[r][p].freePkts = 0
           /\ pendingOps'[r][p] = IF p \in vcs[r] THEN NonePending ELSE pendingOps[r][p]
           /\ Ready(r, p).send \in Seq(Nat) /\ pendingOps[r][p].send \in Seq(Nat)
           /\ \A s \in Peers : s # r => UNCHANGED <<wire[s], out[s], pendingOps[s]>>
<1>. DEFINE ack == Acked(out[r][p])
            sent == Sent(ack.out, Ready(r, p).send)
            w == wire[r][p]
<1>1. /\ out \in [Peers -> [Peers -> OutType]] /\ wire \in [Peers -> [Peers -> Seq(Nat)]]
      /\ pendingOps \in [Peers -> [Peers -> PendingType]]
  BY DEF LinkTypeOK
<1>2. out' = [out EXCEPT ![r] = [x \in Peers |->
                Sent(Acked(out[r][x]).out, Ready(r, x).send).out]]
  BY DEF Progress
<1>3. wire' = [wire EXCEPT ![r] = [x \in Peers |-> (wire[r][x] \o Acked(out[r][x]).posted)
                    \o Sent(Acked(out[r][x]).out, Ready(r, x).send).posted]]
  BY DEF Progress
<1>4. pendingOps' = [pendingOps EXCEPT ![r] =
                [x \in Peers |-> IF x \in vcs[r] THEN NonePending ELSE pendingOps[r][x]]]
  BY DEF Progress
<1>5. out'[r][p] = sent.out /\ wire'[r][p] = (w \o ack.posted) \o sent.posted
  BY <1>1, <1>2, <1>3, Zenon
<1>6. pendingOps'[r][p] = IF p \in vcs[r] THEN NonePending ELSE pendingOps[r][p]
  BY <1>1, <1>4
<1>7. \A s \in Peers : s # r => UNCHANGED <<wire[s], out[s], pendingOps[s]>>
  BY <1>1, <1>2, <1>3, <1>4, Zenon
<1>8. /\ out[r][p] \in OutType /\ w \in Seq(Nat) /\ pendingOps[r][p] \in PendingType
      /\ out[r][p].enqueued # << >> => out[r][p].freePkts = 0
  BY <1>1 DEF QueuedForPackets
<1>9. Ready(r, p).send \in Seq(Nat) /\ pendingOps[r][p].send \in Seq(Nat)
  BY <1>8 DEF Ready, PendingType, NonePending
<1>10. /\ ack.out \in OutType /\ ack.posted \in Seq(Nat)
       /\ ack.out.enqueued # << >> => ack.out.freePkts = 0
  BY <1>8, AckedFacts
<1>11. (w \o ack.posted) \o ack.out.enqueued = w \o out[r][p].enqueued
  BY <1>8, AckedChannel, Zenon
<1>. HIDE DEF ack, w
<1>12. /\ sent.out \in OutType /\ sent.posted \in Seq(Nat)
       /\ sent.out.enqueued # << >> => sent.out.freePkts = 0
  BY <1>9, <1>10, SentFacts
<1>13. w \o ack.posted \in Seq(Nat)
  BY <1>8, <1>10, CatFacts, Zenon DEF w
<1>14. ((w \o ack.posted) \o sent.posted) \o sent.out.enqueued =
            ((w \o ack.posted) \o ack.out.enqueued) \o Ready(r, p).send
  BY <1>9, <1>10, <1>13, SentChannel, Zenon
<1>. HIDE DEF sent
<1>15. (w \o ack.posted) \o sent.posted \in Seq(Nat) /\ sent.out.enqueued \in Seq(Nat)
  BY <1>12, <1>13, CatFacts DEF OutType
<1>16. wire'[r][p] \o out'[r][p].enqueued = (w \o out[r][p].enqueued) \o Ready(r, p).send
  BY <1>5, <1>11, <1>14, Zenon
<1>17. wire[r][p] = w
  BY DEF w
<1>. QED
  BY <1>5, <1>6, <1>7, <1>9, <1>12, <1>15, <1>16, <1>17, Zenon

LEMMA SentIsKnownStep ==
    ASSUME ProgramsSound, LinkTypeOK, Roles, Published, SentIsKnown, HeldAreWaitedFor,
           QueuedForPackets, mesh' = mesh, [LinkNext]_linkVars
    PROVE  SentIsKnown'
<1>1. Peers' = Peers /\ Peers \subseteq Nat
  BY ProgramsAre DEF Peers, LinkTypeOK
<1>2. SocketTypesOK /\ QueueTypes
  BY TypesAre
<1>. DEFINE Sending(s, d) == landed[s][d].count > 0 \/ wire[s][d] # << >> \/ out[s][d].enqueued # << >>
<1>3. ASSUME \A x \in Peers : qpReady[x] \subseteq qpReady'[x] /\ vcs[x] \subseteq vcs'[x],
             \A s, d \in Peers : landed'[s][d].count > 0 => landed[s][d].count > 0 \/ s \in qpReady[d],
             \A s, d \in Peers : s < d /\ Sending(s, d)' => Sending(s, d) \/ s \in vcs[d]
      PROVE  SentIsKnown'
  <2>1. \A s, d \in Peers : landed'[s][d].count > 0 => s \in qpReady'[d]
    BY <1>3 DEF SentIsKnown
  <2>2. \A s, d \in Peers : s < d /\ Sending(s, d)' => s \in vcs'[d]
    BY <1>3 DEF SentIsKnown
  <2>. QED
    BY <1>1, <2>1, <2>2 DEF SentIsKnown
<1>. HIDE DEF Sending
<1>4. \A r \in Peers, p \in Peers : main[r].at = "idle" /\ p \in vcs[r] /\ r < p => r \in vcs[p]
  BY DEF Published
<1>5. ASSUME UNCHANGED <<landed, wire, out>>,
             \A x \in Peers : qpReady[x] \subseteq qpReady'[x] /\ vcs[x] \subseteq vcs'[x]
      PROVE  SentIsKnown'
  <2>1. \A s, d \in Peers : landed'[s][d].count > 0 => landed[s][d].count > 0
    BY <1>5
  <2>2. \A s, d \in Peers : Sending(s, d)' => Sending(s, d)
    BY <1>5 DEF Sending
  <2>. QED
    BY <1>3, <1>5, <2>1, <2>2
<1>6. ASSUME NEW r \in Peers,
             Accept(r) \/ ServerSetup(r) \/ ServerPublish(r) \/ ServerReturn(r)
               \/ ClientSetup(r) \/ ClientReturn(r)
      PROVE  SentIsKnown'
  <2>1. UNCHANGED <<landed, wire, out>>
    BY <1>6 DEF Accept, ServerSetup, ServerPublish, ServerReturn, ClientSetup, ClientReturn, control
  <2>2. /\ UNCHANGED vcs \/ \E x : vcs' = [vcs EXCEPT ![r] = vcs[r] \cup x]
        /\ UNCHANGED qpReady \/ \E x : qpReady' = [qpReady EXCEPT ![r] = qpReady[r] \cup x]
    BY <1>6, Zenon DEF Accept, ServerSetup, ServerPublish, ServerReturn, ClientSetup, ClientReturn
  <2>3. \A x \in Peers : qpReady[x] \subseteq qpReady'[x] /\ vcs[x] \subseteq vcs'[x]
    BY <1>2, <2>2 DEF SocketTypesOK
  <2>. QED
    BY <1>5, <2>1, <2>3
<1>7. ASSUME NEW r \in Peers, NEW p \in Peers, NEW n \in Nat, AskMessage(r, p, n), ~IsPending(r, p),
             main[r].at = "idle", UNCHANGED sockets
      PROVE  SentIsKnown'
  <2>. DEFINE x == Sent(out[r][p], <<n>>).out
              y == wire[r][p] \o Sent(out[r][p], <<n>>).posted
  <2>1. /\ out' = [out EXCEPT ![r][p] = x] /\ wire' = [wire EXCEPT ![r][p] = y] /\ landed' = landed
    BY <1>7, Zenon DEF AskMessage
  <2>. HIDE DEF x, y
  <2>2. \A s, d \in Peers : UNCHANGED <<wire[s][d], out[s][d]>> \/ (s = r /\ d = p)
    <3>1. out \in [Peers -> [Peers -> OutType]] /\ wire \in [Peers -> [Peers -> Seq(Nat)]]
      BY <1>2 DEF QueueTypes
    <3>. QED
      BY <2>1, <3>1
  <2>3. p \in vcs[r]
    BY <1>7 DEF IsPending, HeldAreWaitedFor
  <2>4. r < p => r \in vcs[p]
    BY <1>4, <1>7, <2>3
  <2>5. \A s, d \in Peers : s < d /\ Sending(s, d)' => Sending(s, d) \/ s \in vcs[d]
    BY <2>1, <2>2, <2>4, Zenon DEF Sending
  <2>6. UNCHANGED <<vcs, qpReady>>
    BY <1>7 DEF sockets
  <2>. QED
    BY <1>3, <2>1, <2>5, <2>6
<1>8. ASSUME NEW r \in Peers, Call(r) PROVE SentIsKnown'
  <2>1. ASSUME UNCHANGED <<vcs, qpReady, control>> PROVE SentIsKnown'
    BY <1>5, <2>1 DEF control
  <2>2. ASSUME NEW p \in Peers, NEW n \in Nat, AskMessage(r, p, n) \/ AskReceive(r, p, n),
               main[r].at = "idle", UNCHANGED sockets
        PROVE  SentIsKnown'
    <3>1. CASE AskMessage(r, p, n) /\ ~IsPending(r, p)
      BY <1>7, <2>2, <3>1
    <3>2. CASE UNCHANGED <<landed, wire, out>>
      BY <1>5, <2>2, <3>2 DEF sockets
    <3>. QED
      BY <2>2, <3>1, <3>2 DEF AskMessage, AskReceive, control
  <2>. QED
    BY <1>8, <2>1, <2>2, CallIs, Zenon DEF sockets
<1>9. ASSUME NEW r \in Peers, Progress(r) PROVE SentIsKnown'
  <2>1. landed' = [s \in Peers |-> [landed[s] EXCEPT ![r] = NothingLanded]]
        /\ main[r].at = "idle" /\ UNCHANGED <<vcs, qpReady>>
    BY <1>9 DEF Progress, sockets
  <2>2. \A s, d \in Peers : landed'[s][d] = IF d = r THEN NothingLanded ELSE landed[s][d]
    BY <1>2, <2>1 DEF QueueTypes
  <2>3. \A s, d \in Peers : landed'[s][d].count > 0 => landed[s][d].count > 0
    BY <2>2 DEF NothingLanded
  <2>4. ASSUME NEW s \in Peers, NEW d \in Peers, s < d, Sending(s, d)'
        PROVE  Sending(s, d) \/ s \in vcs[d]
    <3>1. CASE s # r
      <4>1. UNCHANGED <<wire[s], out[s]>>
        BY <1>9, <3>1, ProgressSends
      <4>. QED
        BY <2>3, <2>4, <4>1 DEF Sending
    <3>2. CASE s = r /\ d \in vcs[r]
      BY <1>4, <2>1, <2>4, <3>2
    <3>3. CASE s = r /\ d \notin vcs[r]
      <4>1. /\ wire'[r][d] \in Seq(Nat) /\ out'[r][d].enqueued \in Seq(Nat)
            /\ wire'[r][d] \o out'[r][d].enqueued =
                 (wire[r][d] \o out[r][d].enqueued) \o Ready(r, d).send
        BY <1>9, ProgressSends
      <4>2. Ready(r, d).send = << >>
        BY <3>3 DEF Ready, NonePending
      <4>3. wire[r][d] = << >> /\ out[r][d].enqueued = << >> =>
                wire'[r][d] = << >> /\ out'[r][d].enqueued = << >>
        <5>. SUFFICES ASSUME wire[r][d] = << >>, out[r][d].enqueued = << >>
                      PROVE  wire'[r][d] = << >> /\ out'[r][d].enqueued = << >>
          OBVIOUS
        <5>1. (<< >> \o << >>) \o << >> = << >>
          OBVIOUS
        <5>2. wire'[r][d] \o out'[r][d].enqueued = << >>
          BY <4>1, <4>2, <5>1, Zenon
        <5>. QED
          BY <4>1, <5>2, CatEmpty, Zenon
      <4>. QED
        BY <2>3, <2>4, <3>3, <4>3 DEF Sending
    <3>. QED
      BY <3>1, <3>2, <3>3
  <2>. QED
    BY <1>3, <2>1, <2>3, <2>4
<1>10. ASSUME NEW s \in Peers, NEW d \in Peers, Land(s, d) PROVE SentIsKnown'
  <2>. DEFINE x == Tail(wire[s][d])
              y == [freePkts |-> out[s][d].freePkts, enqueued |-> out[s][d].enqueued,
                    acked |-> out[s][d].acked + 1]
              z == [count |-> landed[s][d].count + 1,
                    called |-> landed[s][d].called \/ Head(wire[s][d]) = IsCallback,
                    data |-> IF Head(wire[s][d]) = IsCallback THEN landed[s][d].data
                             ELSE Append(landed[s][d].data, Head(wire[s][d]))]
  <2>1. /\ wire[s][d] # << >> /\ s \in qpReady[d] /\ UNCHANGED <<vcs, qpReady>>
        /\ wire' = [wire EXCEPT ![s][d] = x] /\ out' = [out EXCEPT ![s][d] = y]
        /\ landed' = [landed EXCEPT ![s][d] = z]
    BY <1>2, <1>10, LandIs, Zenon DEF sockets
  <2>. HIDE DEF x, y, z
  <2>2. \A a, b \in Peers : UNCHANGED <<wire[a][b], out[a][b], landed[a][b]>> \/ (a = s /\ b = d)
    <3>1. out \in [Peers -> [Peers -> OutType]] /\ wire \in [Peers -> [Peers -> Seq(Nat)]]
          /\ landed \in [Peers -> [Peers -> LandedType]]
      BY <1>2 DEF QueueTypes
    <3>. QED
      BY <2>1, <3>1
  <2>3. \A a, b \in Peers : Sending(a, b)' => Sending(a, b)
    BY <2>1, <2>2, Zenon DEF Sending
  <2>4. \A a, b \in Peers : landed'[a][b].count > 0 => landed[a][b].count > 0 \/ a \in qpReady[b]
    BY <2>1, <2>2, Zenon
  <2>. QED
    BY <1>3, <2>1, <2>3, <2>4
<1>11. ASSUME UNCHANGED linkVars PROVE SentIsKnown'
  BY <1>5, <1>11 DEF linkVars, sockets, control
<1>. QED
  BY <1>6, <1>8, <1>9, <1>10, <1>11 DEF LinkNext

-------------------------------------------------------------------------------
(* Numbers of messages and of receives.                                          *)

LEMMA InNumberGives == ASSUME InNumber PROVE QueuedForPackets
BY DEF InNumber, SendSide, QueuedForPackets

\* What the numbers are of stays as it is.
LEMMA NumbersKept ==
    ASSUME InNumber, mesh' = mesh,
           \A s, d \in Peers : \A l \in Nat :
                /\ SendSide(s, d, l) => SendSide(s, d, l)'
                /\ ReceiveSide(s, d, l) => ReceiveSide(s, d, l)'
    PROVE  InNumber'
<1>1. Peers' = Peers
  BY DEF Peers
<1>2. ASSUME NEW s \in Peers, NEW d \in Peers
      PROVE  \E l \in Nat : SendSide(s, d, l)' /\ ReceiveSide(s, d, l)'
  <2>1. PICK l \in Nat : SendSide(s, d, l) /\ ReceiveSide(s, d, l)
    BY DEF InNumber
  <2>. QED
    BY <2>1
<1>. QED
  BY <1>1, <1>2 DEF InNumber

LEMMA ChannelIs ==
    ASSUME QueueTypes, NEW s \in Peers, NEW d \in Peers
    PROVE  /\ wire[s][d] \in Seq(Nat) /\ out[s][d] \in OutType /\ out[s][d].enqueued \in Seq(Nat)
           /\ pendingOps[s][d] \in PendingType /\ pendingOps[s][d].send \in Seq(Nat)
           /\ wire[s][d] \o out[s][d].enqueued \in Seq(Nat)
           /\ Channel(s, d) \in Seq(Nat) /\ asked[s][d].send \in Nat
<1>1. /\ wire[s][d] \in Seq(Nat) /\ out[s][d] \in OutType /\ pendingOps[s][d] \in PendingType
      /\ asked[s][d] \in [send : Nat, recv : Nat]
  BY DEF QueueTypes
<1>2. out[s][d].enqueued \in Seq(Nat) /\ pendingOps[s][d].send \in Seq(Nat) /\ asked[s][d].send \in Nat
  BY <1>1 DEF OutType, PendingType
<1>3. wire[s][d] \o out[s][d].enqueued \in Seq(Nat)
  BY <1>1, <1>2, CatFacts, Zenon
<1>4. Channel(s, d) \in Seq(Nat)
  BY <1>2, <1>3, CatFacts, Zenon DEF Channel
<1>. QED
  BY <1>1, <1>2, <1>3, <1>4

LEMMA CatAppend ==
    ASSUME NEW w \in Seq(Nat), NEW h \in Seq(Nat), NEW n \in Nat
    PROVE  w \o Append(h, n) = Append(w \o h, n)
<1>1. <<n>> \in Seq(Nat) /\ w \o h \in Seq(Nat)
  <2>1. <<n>> \in Seq(Nat)
    OBVIOUS
  <2>. QED
    BY <2>1, CatFacts, Zenon
<1>2. Append(h, n) = h \o <<n>> /\ Append(w \o h, n) = (w \o h) \o <<n>>
  BY <1>1, AppendIsConcat, Zenon
<1>3. (w \o h) \o <<n>> = w \o (h \o <<n>>)
  BY <1>1, CatAssociates, Zenon
<1>. QED
  BY <1>2, <1>3, Zenon

LEMMA AppendLast ==
    ASSUME NEW w \in Seq(Nat), NEW n \in Nat
    PROVE  (w \o <<n>>) \o << >> = Append(w, n) /\ w \o << >> = w
<1>1. <<n>> \in Seq(Nat) /\ w \o <<n>> \in Seq(Nat)
  <2>1. <<n>> \in Seq(Nat)
    OBVIOUS
  <2>. QED
    BY <2>1, CatFacts, Zenon
<1>2. Append(w, n) = w \o <<n>>
  BY AppendIsConcat, Zenon
<1>. QED
  BY <1>1, <1>2, ConcatEmptySeq, Zenon

\* A message that is asked for is the last of its channel.
LEMMA AskMessageSends ==
    ASSUME QueueTypes, QueuedForPackets, NEW r \in Peers, NEW p \in Peers, NEW n \in Nat,
           AskMessage(r, p, n), ~IsPending(r, p) => pendingOps[r][p] = NonePending
    PROVE  /\ Channel(r, p)' = Append(Channel(r, p), n)
           /\ out'[r][p].enqueued # << >> => out'[r][p].freePkts = 0
           /\ asked'[r][p].send = IF n = IsCallback THEN asked[r][p].send ELSE n
           /\ n # IsCallback => n = asked[r][p].send + 1
           /\ \A s, d \in Peers :
                /\ UNCHANGED <<in[s][d], landed[s][d], pendingOps[s][d].recv, asked[s][d].recv>>
                /\ <<s, d>> # <<r, p>> =>
                    UNCHANGED <<out[s][d], wire[s][d], pendingOps[s][d].send, asked[s][d].send>>
           /\ UNCHANGED got
<1>1. /\ wire[r][p] \in Seq(Nat) /\ out[r][p] \in OutType /\ out[r][p].enqueued \in Seq(Nat)
      /\ pendingOps[r][p] \in PendingType /\ pendingOps[r][p].send \in Seq(Nat)
      /\ wire[r][p] \o out[r][p].enqueued \in Seq(Nat) /\ asked[r][p].send \in Nat
  BY ChannelIs
<1>2. /\ out \in [Peers -> [Peers -> OutType]] /\ wire \in [Peers -> [Peers -> Seq(Nat)]]
      /\ pendingOps \in [Peers -> [Peers -> PendingType]]
      /\ asked \in [Peers -> [Peers -> [send : Nat, recv : Nat]]]
  BY DEF QueueTypes
<1>3. /\ n # IsCallback => n = asked[r][p].send + 1
      /\ asked'[r][p].send = IF n = IsCallback THEN asked[r][p].send ELSE n
      /\ \A s, d \in Peers : asked'[s][d].recv = asked[s][d].recv
      /\ \A s, d \in Peers : <<s, d>> # <<r, p>> => asked'[s][d].send = asked[s][d].send
  <2>1. CASE n = IsCallback /\ asked' = asked
    BY <2>1
  <2>2. CASE /\ n = asked[r][p].send + 1
             /\ asked' = [asked EXCEPT ![r][p] = [send |-> n, recv |-> asked[r][p].recv]]
    <3>1. n # IsCallback
      BY <1>1, <2>2 DEF IsCallback
    <3>. QED
      BY <1>2, <2>2, <3>1
  <2>. QED
    BY <2>1, <2>2 DEF AskMessage
<1>4. UNCHANGED <<in, landed, got>>
  BY DEF AskMessage, control
<1>5. CASE IsPending(r, p)
  <2>. DEFINE x == Append(pendingOps[r][p].send, n)
              y == [send |-> x, recv |-> pendingOps[r][p].recv]
  <2>1. pendingOps' = [pendingOps EXCEPT ![r][p] = y] /\ UNCHANGED <<out, wire>>
    BY <1>5, Zenon DEF AskMessage, control
  <2>2. y.send = x /\ y.recv = pendingOps[r][p].recv
    BY Zenon
  <2>. HIDE DEF y, x
  <2>3. \A s, d \in Peers : pendingOps'[s][d] = IF s = r /\ d = p THEN y ELSE pendingOps[s][d]
    BY <1>2, <2>1
  <2>4. \A s, d \in Peers : /\ pendingOps'[s][d].recv = pendingOps[s][d].recv
                            /\ <<s, d>> # <<r, p>> => pendingOps'[s][d].send = pendingOps[s][d].send
    BY <2>2, <2>3
  <2>5. pendingOps'[r][p].send = x
    BY <2>2, <2>3
  <2>6. Channel(r, p)' = (wire[r][p] \o out[r][p].enqueued) \o x
    BY <2>1, <2>5, Zenon DEF Channel
  <2>7. Channel(r, p)' = Append(Channel(r, p), n)
    BY <1>1, <2>6, CatAppend, Zenon DEF Channel, x
  <2>8. out'[r][p].enqueued # << >> => out'[r][p].freePkts = 0
    BY <2>1 DEF QueuedForPackets
  <2>. QED
    BY <1>3, <1>4, <2>1, <2>4, <2>7, <2>8, Zenon
<1>6. CASE ~IsPending(r, p)
  <2>. DEFINE x == Sent(out[r][p], <<n>>).out
              y == Sent(out[r][p], <<n>>).posted
  <2>1. /\ out' = [out EXCEPT ![r][p] = x] /\ wire' = [wire EXCEPT ![r][p] = wire[r][p] \o y]
        /\ pendingOps' = pendingOps
    BY <1>6, Zenon DEF AskMessage
  <2>2. <<n>> \in Seq(Nat) /\ (out[r][p].enqueued # << >> => out[r][p].freePkts = 0)
    BY DEF QueuedForPackets
  <2>3. (wire[r][p] \o y) \o x.enqueued = (wire[r][p] \o out[r][p].enqueued) \o <<n>>
    BY <1>1, <2>2, SentChannel, Zenon
  <2>4. x.enqueued # << >> => x.freePkts = 0
    BY <1>1, <2>2, SentFacts, Zenon
  <2>. HIDE DEF x, y
  <2>5. out'[r][p] = x /\ wire'[r][p] = wire[r][p] \o y
    BY <1>2, <2>1
  <2>6. \A s, d \in Peers : <<s, d>> # <<r, p>> => UNCHANGED <<out[s][d], wire[s][d]>>
    BY <1>2, <2>1
  <2>7. pendingOps[r][p].send = << >>
    BY <1>6 DEF NonePending
  <2>8. /\ Channel(r, p)' = ((wire[r][p] \o out[r][p].enqueued) \o <<n>>) \o << >>
        /\ Channel(r, p) = wire[r][p] \o out[r][p].enqueued
    <3>1. Channel(r, p)' = ((wire[r][p] \o y) \o x.enqueued) \o << >>
      BY <2>1, <2>5, <2>7, Zenon DEF Channel
    <3>2. Channel(r, p) = (wire[r][p] \o out[r][p].enqueued) \o << >>
      BY <2>7, Zenon DEF Channel
    <3>. QED
      BY <1>1, <2>3, <3>1, <3>2, ConcatEmptySeq, Zenon
  <2>9. Channel(r, p)' = Append(Channel(r, p), n)
    BY <1>1, <2>8, AppendLast, Zenon
  <2>. QED
    BY <1>3, <1>4, <2>1, <2>4, <2>5, <2>6, <2>9, Zenon
<1>. QED
  BY <1>5, <1>6

LEMMA AskMessageNumbers ==
    ASSUME QueueTypes, InNumber, CtrlMatches, mesh' = mesh, NEW r \in Peers, NEW p \in Peers,
           NEW n \in Nat, AskMessage(r, p, n), ~IsPending(r, p) => pendingOps[r][p] = NonePending
    PROVE  InNumber' /\ CtrlMatches'
<1>1. QueuedForPackets /\ Peers' = Peers
  BY InNumberGives DEF Peers
<1>2. /\ Channel(r, p)' = Append(Channel(r, p), n)
      /\ out'[r][p].enqueued # << >> => out'[r][p].freePkts = 0
      /\ asked'[r][p].send = IF n = IsCallback THEN asked[r][p].send ELSE n
      /\ n # IsCallback => n = asked[r][p].send + 1
  BY <1>1, AskMessageSends
<1>3. \A s, d \in Peers :
        /\ UNCHANGED <<in[s][d], landed[s][d], pendingOps[s][d].recv, asked[s][d].recv>>
        /\ <<s, d>> # <<r, p>> =>
            UNCHANGED <<out[s][d], wire[s][d], pendingOps[s][d].send, asked[s][d].send>>
  BY <1>1, AskMessageSends, Zenon
<1>4. \A s, d \in Peers : \A l \in Nat : ReceiveSide(s, d, l) => ReceiveSide(s, d, l)'
  BY <1>3 DEF ReceiveSide
<1>5. ASSUME NEW s \in Peers, NEW d \in Peers, NEW l \in Nat, SendSide(s, d, l) PROVE SendSide(s, d, l)'
  <2>1. CASE <<s, d>> # <<r, p>>
    BY <1>3, <1>5, <2>1 DEF SendSide, Channel
  <2>2. CASE s = r /\ d = p
    <3>1. Channel(r, p) \in Seq(Nat) /\ asked[r][p].send \in Nat
      BY ChannelIs
    <3>2. Ascending(Channel(r, p), l, asked[r][p].send)
      BY <1>5, <2>2 DEF SendSide
    <3>3. /\ Ascending(Append(Channel(r, p), asked[r][p].send + 1), l, asked[r][p].send + 1)
          /\ Ascending(Append(Channel(r, p), IsCallback), l, asked[r][p].send)
      BY <3>1, <3>2, AscendingAppend, Zenon
    <3>4. Ascending(Append(Channel(r, p), n), l, asked'[r][p].send)
      BY <1>2, <3>3, Zenon
    <3>5. Ascending(Channel(r, p)', l, asked'[r][p].send)
      BY <1>2, <3>4, Zenon
    <3>. QED
      BY <1>2, <2>2, <3>5, Zenon DEF SendSide
  <2>. QED
    BY <2>1, <2>2
<1>6. InNumber'
  BY <1>4, <1>5, NumbersKept
<1>7. CtrlMatches'
  BY <1>1, AskMessageSends DEF CtrlMatches
<1>. QED
  BY <1>6, <1>7

LEMMA ReceivesAre ==
    ASSUME QueueTypes, NEW s \in Peers, NEW d \in Peers
    PROVE  /\ in[d][s] \in InType /\ in[d][s].enqueued \in Seq(Nat) /\ in[d][s].unexp \in Seq(Nat)
           /\ pendingOps[d][s] \in PendingType /\ pendingOps[d][s].recv \in Seq(Nat)
           /\ landed[s][d] \in LandedType /\ landed[s][d].data \in Seq(Nat)
           /\ asked[d][s] \in [send : Nat, recv : Nat] /\ asked[d][s].recv \in Nat
<1>1. /\ in[d][s] \in InType /\ pendingOps[d][s] \in PendingType /\ landed[s][d] \in LandedType
      /\ asked[d][s] \in [send : Nat, recv : Nat]
  BY DEF QueueTypes
<1>. QED
  BY <1>1 DEF InType, PendingType, LandedType

\* A receive that is asked for is the last of its rank.
LEMMA AskReceiveNumbers ==
    ASSUME QueueTypes, InNumber, CtrlMatches, mesh' = mesh, NEW r \in Peers, NEW p \in Peers,
           NEW n \in Nat, AskReceive(r, p, n), ~IsPending(r, p) => pendingOps[r][p] = NonePending
    PROVE  InNumber' /\ CtrlMatches'
<1>. DEFINE A == asked[r][p].recv
            i == Matched(in[r][p], <<n>>, << >>).in
            pairs == Matched(in[r][p], <<n>>, << >>).pairs
            x == Append(pendingOps[r][p].recv, n)
<1>1. Peers' = Peers
  BY DEF Peers
<1>2. /\ in \in [Peers -> [Peers -> InType]] /\ pendingOps \in [Peers -> [Peers -> PendingType]]
      /\ asked \in [Peers -> [Peers -> [send : Nat, recv : Nat]]]
      /\ got \in [Peers -> [Peers -> SUBSET (Nat \X Nat)]]
  BY DEF QueueTypes
<1>3. /\ n = A + 1 /\ UNCHANGED <<out, wire, landed>>
      /\ asked' = [asked EXCEPT ![r][p] = [send |-> asked[r][p].send, recv |-> n]]
  BY DEF AskReceive, control
<1>4. /\ asked'[r][p].recv = n /\ \A s, d \in Peers : asked'[s][d].send = asked[s][d].send
      /\ \A s, d \in Peers : <<s, d>> # <<r, p>> => asked'[s][d].recv = asked[s][d].recv
  BY <1>2, <1>3
<1>5. \/ /\ IsPending(r, p) /\ UNCHANGED <<in, got>>
         /\ pendingOps' = [pendingOps EXCEPT ![r][p] = [send |-> pendingOps[r][p].send, recv |-> x]]
      \/ /\ ~IsPending(r, p) /\ UNCHANGED pendingOps
         /\ in' = [in EXCEPT ![r][p] = i] /\ got' = [got EXCEPT ![r][p] = got[r][p] \cup pairs]
  BY Zenon DEF AskReceive, control
<1>. HIDE DEF A, i, pairs, x
<1>6. /\ in[r][p] \in InType /\ in[r][p].enqueued \in Seq(Nat) /\ in[r][p].unexp \in Seq(Nat)
      /\ pendingOps[r][p].recv \in Seq(Nat) /\ A \in Nat /\ << >> \in Seq(Nat) /\ <<n>> \in Seq(Nat)
  BY ReceivesAre DEF A
<1>7. \A s, d \in Peers :
        /\ UNCHANGED <<out[s][d], wire[s][d], landed[s][d], pendingOps[s][d].send, asked[s][d].send>>
        /\ <<s, d>> # <<r, p>> =>
            UNCHANGED <<in[s][d], got[s][d], pendingOps[s][d].recv, asked[s][d].recv>>
  BY <1>2, <1>3, <1>4, <1>5
<1>8. \A s, d \in Peers : \A l \in Nat : SendSide(s, d, l) => SendSide(s, d, l)'
  BY <1>7 DEF SendSide, Channel
<1>9. ASSUME NEW l \in Nat, ReceiveSide(p, r, l)
      PROVE  /\ ReceiveSide(p, r, l)'
             /\ \A pair \in got'[r][p] : pair[1] = pair[2]
  <2>1. PICK m \in Nat, e \in Nat, u \in Nat :
            /\ Numbered(in[r][p].enqueued, m, e) /\ Numbered(pendingOps[r][p].recv, e, A)
            /\ Numbered(in[r][p].unexp, m, u) /\ Numbered(landed[p][r].data, u, l)
    BY <1>9 DEF ReceiveSide, A
  <2>2. Numbered(landed[p][r].data, u, l)'
    BY <1>7, <2>1
  <2>3. CASE IsPending(r, p)
    <3>1. Numbered(x, e, A + 1)
      BY <1>3, <1>6, <2>1, NumberedAppend DEF x
    <3>2. pendingOps'[r][p].recv = x /\ UNCHANGED <<in, got>>
      BY <1>2, <1>5, <2>3
    <3>3. \A pair \in got'[r][p] : pair[1] = pair[2]
      BY <3>2 DEF CtrlMatches
    <3>4. Numbered(pendingOps'[r][p].recv, e, asked'[r][p].recv)
      BY <1>3, <1>4, <3>1, <3>2
    <3>. QED
      BY <2>1, <2>2, <3>2, <3>3, <3>4 DEF ReceiveSide
  <2>4. CASE ~IsPending(r, p)
    <3>1. pendingOps[r][p].recv = << >> /\ UNCHANGED pendingOps
      BY <1>5, <2>4 DEF NonePending
    <3>2. e = A
      <4>1. Numbered(<< >>, e, A)
        BY <2>1, <3>1, Zenon
      <4>. QED
        BY <1>6, <4>1, NumberedEnds
    <3>3. Numbered(in[r][p].enqueued \o <<n>>, m, A + 1)
      <4>1. Numbered(<<n>>, A, A + 1)
        BY <1>3, <1>6, NumberedEnds
      <4>2. Numbered(in[r][p].enqueued, m, A)
        BY <2>1, <3>2
      <4>3. A + 1 \in Nat
        BY <1>6
      <4>. QED
        BY <1>6, <4>1, <4>2, <4>3, NumberedCat, Zenon
    <3>4. Numbered(in[r][p].unexp \o << >>, m, u)
      <4>1. in[r][p].unexp \o << >> = in[r][p].unexp
        BY <1>6, ConcatEmptySeq, Zenon
      <4>. QED
        BY <2>1, <4>1, Zenon
    <3>5. A + 1 \in Nat
      BY <1>6
    <3>6. /\ \A pair \in pairs : pair[1] = pair[2]
          /\ \E c \in Nat : Numbered(i.enqueued, c, A + 1) /\ Numbered(i.unexp, c, u)
      BY <1>6, <3>3, <3>4, <3>5, MatchedFacts, Zenon DEF pairs, i
    <3>7. PICK c \in Nat : Numbered(i.enqueued, c, A + 1) /\ Numbered(i.unexp, c, u)
      BY <3>6
    <3>8. in'[r][p] = i /\ got'[r][p] = got[r][p] \cup pairs
      BY <1>2, <1>5, <2>4
    <3>9. Numbered(pendingOps'[r][p].recv, A + 1, A + 1)
      BY <3>1, <3>5, NumberedEnds
    <3>10. Numbered(pendingOps'[r][p].recv, A + 1, asked'[r][p].recv)
      BY <1>3, <1>4, <3>9
    <3>11. \A pair \in got'[r][p] : pair[1] = pair[2]
      BY <3>6, <3>8 DEF CtrlMatches
    <3>12. Numbered(in'[r][p].enqueued, c, A + 1) /\ Numbered(in'[r][p].unexp, c, u)
      BY <3>7, <3>8
    <3>. QED
      BY <2>2, <3>5, <3>10, <3>11, <3>12 DEF ReceiveSide
  <2>. QED
    BY <2>3, <2>4
<1>10. \A s, d \in Peers : \A l \in Nat : ReceiveSide(s, d, l) => ReceiveSide(s, d, l)'
  <2>. SUFFICES ASSUME NEW s \in Peers, NEW d \in Peers, NEW l \in Nat, ReceiveSide(s, d, l)
                PROVE  ReceiveSide(s, d, l)'
    OBVIOUS
  <2>1. CASE d = r /\ s = p
    BY <1>9, <2>1
  <2>2. CASE ~(d = r /\ s = p)
    <3>1. /\ UNCHANGED <<in[d][s], pendingOps[d][s].recv, asked[d][s].recv>>
          /\ UNCHANGED landed[s][d]
      BY <1>7, <2>2
    <3>. QED
      BY <3>1 DEF ReceiveSide
  <2>. QED
    BY <2>1, <2>2
<1>11. InNumber'
  BY <1>8, <1>10, NumbersKept
<1>12. PICK l \in Nat : ReceiveSide(p, r, l)
  BY DEF InNumber
<1>13. \A s, d \in Peers : \A pair \in got'[s][d] : pair[1] = pair[2]
  <2>. SUFFICES ASSUME NEW s \in Peers, NEW d \in Peers
                PROVE  \A pair \in got'[s][d] : pair[1] = pair[2]
    OBVIOUS
  <2>1. CASE s = r /\ d = p
    BY <1>9, <1>12, <2>1
  <2>2. CASE ~(s = r /\ d = p)
    BY <1>7, <2>2 DEF CtrlMatches
  <2>. QED
    BY <2>1, <2>2
<1>. QED
  BY <1>1, <1>11, <1>13 DEF CtrlMatches

\* Progress moves messages along their channel and matches what has landed.
LEMMA ProgressNumbers ==
    ASSUME LinkTypeOK, InNumber, CtrlMatches, mesh' = mesh, NEW r \in Peers, Progress(r)
    PROVE  InNumber' /\ CtrlMatches'
<1>1. QueueTypes /\ QueuedForPackets /\ Peers' = Peers
  BY TypesAre, InNumberGives DEF Peers
<1>2. /\ in \in [Peers -> [Peers -> InType]] /\ pendingOps \in [Peers -> [Peers -> PendingType]]
      /\ landed \in [Peers -> [Peers -> LandedType]]
      /\ got \in [Peers -> [Peers -> SUBSET (Nat \X Nat)]]
  BY <1>1 DEF QueueTypes
<1>3. asked' = asked
  BY DEF Progress
<1>4. ASSUME NEW s \in Peers, NEW d \in Peers, NEW l \in Nat, SendSide(s, d, l) PROVE SendSide(s, d, l)'
  <2>1. CASE s # r
    <3>1. UNCHANGED <<wire[s], out[s], pendingOps[s]>>
      BY <1>1, <2>1, ProgressSends
    <3>. QED
      BY <1>3, <1>4, <3>1 DEF SendSide, Channel
  <2>2. CASE s = r
    <3>. DEFINE w == wire[r][d] \o out[r][d].enqueued
                q == pendingOps[r][d].send
    <3>1. /\ wire'[r][d] \o out'[r][d].enqueued = w \o Ready(r, d).send
          /\ out'[r][d].enqueued # << >> => out'[r][d].freePkts = 0
          /\ pendingOps'[r][d] = IF d \in vcs[r] THEN NonePending ELSE pendingOps[r][d]
      BY <1>1, ProgressSends
    <3>2. w \in Seq(Nat) /\ q \in Seq(Nat) /\ w \o q \in Seq(Nat)
      BY <1>1, ChannelIs, CatFacts
    <3>. HIDE DEF w
    <3>3. (w \o Ready(r, d).send) \o pendingOps'[r][d].send = w \o q
      <4>1. CASE d \in vcs[r]
        <5>1. Ready(r, d).send = q /\ pendingOps'[r][d].send = << >>
          BY <3>1, <4>1 DEF Ready, NonePending
        <5>. QED
          BY <3>2, <5>1, ConcatEmptySeq, Zenon
      <4>2. CASE d \notin vcs[r]
        <5>1. Ready(r, d).send = << >> /\ pendingOps'[r][d].send = q
          BY <3>1, <4>2 DEF Ready, NonePending
        <5>. QED
          BY <3>2, <5>1, ConcatEmptySeq, Zenon
      <4>. QED
        BY <4>1, <4>2
    <3>4. Channel(r, d)' = Channel(r, d)
      BY <3>1, <3>3, Zenon DEF Channel, w
    <3>. QED
      BY <1>3, <1>4, <2>2, <3>1, <3>4, Zenon DEF SendSide
  <2>. QED
    BY <2>1, <2>2
<1>5. /\ landed' = [s \in Peers |-> [landed[s] EXCEPT ![r] = NothingLanded]]
      /\ pendingOps' = [pendingOps EXCEPT ![r] =
                [x \in Peers |-> IF x \in vcs[r] THEN NonePending ELSE pendingOps[r][x]]]
  BY DEF Progress
<1>6. in' = [in EXCEPT ![r] = [x \in Peers |->
                Matched(Matched(in[r][x], << >>, landed[x][r].data).in, Ready(r, x).recv, << >>).in]]
  BY DEF Progress
<1>7. got' = [got EXCEPT ![r] = [x \in Peers |->
                got[r][x] \cup Matched(in[r][x], << >>, landed[x][r].data).pairs
                  \cup Matched(Matched(in[r][x], << >>, landed[x][r].data).in,
                               Ready(r, x).recv, << >>).pairs
                  \cup (IF landed[x][r].called THEN {<<0, IsCallback>>} ELSE {})]]
  BY DEF Progress
<1>8. \A s, d \in Peers : d # r => UNCHANGED <<in[d][s], got[d][s], pendingOps[d][s], landed[s][d]>>
  <2>1. \A d \in Peers : d # r => UNCHANGED <<in[d], got[d], pendingOps[d]>>
    BY <1>2, <1>5, <1>6, <1>7, Zenon
  <2>2. \A s, d \in Peers : d # r => UNCHANGED landed[s][d]
    BY <1>2, <1>5
  <2>. QED
    BY <2>1, <2>2
<1>9. ASSUME NEW s \in Peers, NEW l \in Nat, ReceiveSide(s, r, l)
      PROVE  /\ ReceiveSide(s, r, l)'
             /\ \A pair \in got'[r][s] : pair[1] = pair[2]
  <2>. DEFINE A == asked[r][s].recv
              data == landed[s][r].data
              ready == Ready(r, s).recv
              one == Matched(in[r][s], << >>, data)
              two == Matched(one.in, ready, << >>)
              called == IF landed[s][r].called THEN {<<0, IsCallback>>} ELSE {}
  <2>1. /\ in[r][s] \in InType /\ in[r][s].enqueued \in Seq(Nat) /\ in[r][s].unexp \in Seq(Nat)
        /\ pendingOps[r][s] \in PendingType /\ pendingOps[r][s].recv \in Seq(Nat)
        /\ data \in Seq(Nat) /\ A \in Nat /\ << >> \in Seq(Nat)
    BY <1>1, ReceivesAre
  <2>2. ready \in Seq(Nat)
    BY <2>1 DEF Ready, NonePending
  <2>3. /\ in'[r][s] = two.in /\ got'[r][s] = got[r][s] \cup one.pairs \cup two.pairs \cup called
    BY <1>2, <1>6, <1>7, Zenon
  <2>4. /\ landed'[s][r] = NothingLanded
        /\ pendingOps'[r][s] = IF s \in vcs[r] THEN NonePending ELSE pendingOps[r][s]
    BY <1>2, <1>5
  <2>5. PICK m \in Nat, e \in Nat, u \in Nat :
            /\ Numbered(in[r][s].enqueued, m, e) /\ Numbered(pendingOps[r][s].recv, e, A)
            /\ Numbered(in[r][s].unexp, m, u) /\ Numbered(data, u, l)
    BY <1>9 DEF ReceiveSide
  <2>6. \A pair \in called : pair[1] = pair[2]
    BY DEF IsCallback
  <2>. HIDE DEF called
  <2>7. Numbered(in[r][s].enqueued \o << >>, m, e) /\ Numbered(in[r][s].unexp \o data, m, l)
    <3>1. in[r][s].enqueued \o << >> = in[r][s].enqueued
      BY <2>1, ConcatEmptySeq, Zenon
    <3>2. Numbered(in[r][s].unexp \o data, m, l)
      BY <2>1, <2>5, NumberedCat, Zenon
    <3>. QED
      BY <2>5, <3>1, <3>2, Zenon
  <2>8. /\ \A pair \in one.pairs : pair[1] = pair[2]
        /\ \E c \in Nat : Numbered(one.in.enqueued, c, e) /\ Numbered(one.in.unexp, c, l)
    BY <2>1, <2>7, MatchedFacts, Zenon
  <2>9. one.in \in InType
    BY <2>1, MatchedType
  <2>. HIDE DEF one, data
  <2>10. PICK c \in Nat : Numbered(one.in.enqueued, c, e) /\ Numbered(one.in.unexp, c, l)
    BY <2>8
  <2>11. one.in.enqueued \in Seq(Nat) /\ one.in.unexp \in Seq(Nat)
    BY <2>9 DEF InType
  <2>12. Numbered(one.in.unexp \o << >>, c, l)
    <3>1. one.in.unexp \o << >> = one.in.unexp
      BY <2>11, ConcatEmptySeq, Zenon
    <3>. QED
      BY <2>10, <3>1, Zenon
  <2>13. \E f \in Nat : /\ Numbered(one.in.enqueued \o ready, c, f)
                        /\ Numbered(pendingOps'[r][s].recv, f, A)
    <3>1. CASE s \in vcs[r]
      <4>1. ready = pendingOps[r][s].recv /\ pendingOps'[r][s].recv = << >>
        BY <2>4, <3>1 DEF Ready, NonePending
      <4>2. Numbered(one.in.enqueued \o ready, c, A)
        BY <2>1, <2>2, <2>5, <2>10, <2>11, <4>1, NumberedCat, Zenon
      <4>3. Numbered(<< >>, A, A)
        BY <2>1, NumberedEnds
      <4>. QED
        BY <2>1, <4>1, <4>2, <4>3
    <3>2. CASE s \notin vcs[r]
      <4>1. ready = << >> /\ pendingOps'[r][s].recv = pendingOps[r][s].recv
        BY <2>4, <3>2 DEF Ready, NonePending
      <4>2. one.in.enqueued \o ready = one.in.enqueued
        BY <2>11, <4>1, ConcatEmptySeq, Zenon
      <4>. QED
        BY <2>5, <2>10, <4>1, <4>2, Zenon
    <3>. QED
      BY <3>1, <3>2
  <2>14. PICK f \in Nat : /\ Numbered(one.in.enqueued \o ready, c, f)
                          /\ Numbered(pendingOps'[r][s].recv, f, A)
    BY <2>13
  <2>15. /\ \A pair \in two.pairs : pair[1] = pair[2]
         /\ \E g \in Nat : Numbered(two.in.enqueued, g, f) /\ Numbered(two.in.unexp, g, l)
    BY <2>1, <2>2, <2>9, <2>12, <2>14, MatchedFacts, Zenon
  <2>. HIDE DEF two
  <2>16. PICK g \in Nat : Numbered(two.in.enqueued, g, f) /\ Numbered(two.in.unexp, g, l)
    BY <2>15
  <2>17. Numbered(landed'[s][r].data, l, l)
    <3>1. landed'[s][r].data = << >>
      BY <2>4 DEF NothingLanded
    <3>2. Numbered(<< >>, l, l)
      BY NumberedEnds
    <3>. QED
      BY <3>1, <3>2, Zenon
  <2>18. \A pair \in got'[r][s] : pair[1] = pair[2]
    <3>1. \A pair \in got[r][s] : pair[1] = pair[2]
      BY DEF CtrlMatches
    <3>. QED
      BY <2>3, <2>6, <2>8, <2>15, <3>1
  <2>19. asked'[r][s].recv = A
    BY <1>3
  <2>20. Numbered(in'[r][s].enqueued, g, f) /\ Numbered(in'[r][s].unexp, g, l)
    BY <2>3, <2>16, Zenon
  <2>. HIDE DEF A
  <2>21. ReceiveSide(s, r, l)'
    BY <2>14, <2>17, <2>19, <2>20, Zenon DEF ReceiveSide
  <2>. QED
    BY <2>18, <2>21
<1>10. ASSUME NEW s \in Peers, NEW d \in Peers, NEW l \in Nat, ReceiveSide(s, d, l)
       PROVE  ReceiveSide(s, d, l)'
  <2>1. CASE d = r
    BY <1>9, <1>10, <2>1
  <2>2. CASE d # r
    <3>1. UNCHANGED <<in[d][s], pendingOps[d][s], landed[s][d]>>
      BY <1>8, <2>2
    <3>. QED
      BY <1>3, <1>10, <3>1 DEF ReceiveSide
  <2>. QED
    BY <2>1, <2>2
<1>11. InNumber'
  BY <1>4, <1>10, NumbersKept
<1>12. ASSUME NEW d \in Peers, NEW s \in Peers PROVE \A pair \in got'[d][s] : pair[1] = pair[2]
  <2>1. CASE d = r
    <3>1. PICK l \in Nat : ReceiveSide(s, r, l)
      BY DEF InNumber
    <3>. QED
      BY <1>9, <2>1, <3>1
  <2>2. CASE d # r
    BY <1>8, <2>2 DEF CtrlMatches
  <2>. QED
    BY <2>1, <2>2
<1>. QED
  BY <1>1, <1>11, <1>12 DEF CtrlMatches

\* A message that lands is the first of its channel.
LEMMA LandNumbers ==
    ASSUME QueueTypes, InNumber, CtrlMatches, mesh' = mesh,
           NEW a \in Peers, NEW b \in Peers, Land(a, b)
    PROVE  InNumber' /\ CtrlMatches'
<1>. DEFINE m == Head(wire[a][b])
            w == Tail(wire[a][b])
            o == [freePkts |-> out[a][b].freePkts, enqueued |-> out[a][b].enqueued,
                  acked |-> out[a][b].acked + 1]
            h == [count |-> landed[a][b].count + 1, called |-> landed[a][b].called \/ m = IsCallback,
                  data |-> IF m = IsCallback THEN landed[a][b].data
                           ELSE Append(landed[a][b].data, m)]
<1>1. /\ wire[a][b] \in Seq(Nat) /\ wire[a][b] # << >> /\ m \in Nat
      /\ UNCHANGED <<mesh, pendingOps, in, got, asked>>
      /\ wire' = [wire EXCEPT ![a][b] = w] /\ out' = [out EXCEPT ![a][b] = o]
      /\ landed' = [landed EXCEPT ![a][b] = h]
  BY LandIs, Zenon
<1>2. /\ out \in [Peers -> [Peers -> OutType]] /\ wire \in [Peers -> [Peers -> Seq(Nat)]]
      /\ landed \in [Peers -> [Peers -> LandedType]]
  BY DEF QueueTypes
<1>3. /\ o.enqueued = out[a][b].enqueued /\ o.freePkts = out[a][b].freePkts
      /\ h.data = IF m = IsCallback THEN landed[a][b].data ELSE Append(landed[a][b].data, m)
  BY Zenon
<1>. HIDE DEF w, o, h
<1>4. /\ wire'[a][b] = w /\ out'[a][b] = o /\ landed'[a][b] = h
      /\ \A s, d \in Peers : ~(s = a /\ d = b) => UNCHANGED <<wire[s][d], out[s][d], landed[s][d]>>
  BY <1>1, <1>2
<1>5. /\ out[a][b].enqueued \in Seq(Nat) /\ pendingOps[a][b].send \in Seq(Nat)
      /\ Channel(a, b) \in Seq(Nat) /\ asked[a][b].send \in Nat
  BY ChannelIs
<1>6. w \in Seq(Nat) /\ Channel(a, b) # << >> /\ Head(Channel(a, b)) = m /\ Tail(Channel(a, b)) = Channel(a, b)'
  <2>. DEFINE e == out[a][b].enqueued
              q == pendingOps[a][b].send
              t == e \o q
  <2>1. w \in Seq(Nat) /\ <<m>> \in Seq(Nat) /\ wire[a][b] = <<m>> \o w
    <3>1. w \in Seq(Nat) /\ <<m>> \in Seq(Nat)
      BY <1>1, HeadTailProperties DEF w
    <3>2. /\ Len(wire[a][b]) \in Nat \ {0} /\ Len(w) = Len(wire[a][b]) - 1
          /\ \A i \in 1 .. Len(w) : w[i] = wire[a][b][i + 1]
          /\ m = wire[a][b][1]
      BY <1>1, HeadTailProperties, EmptySeq DEF w
    <3>. HIDE DEF m
    <3>3. /\ <<m>> \o w \in Seq(Nat) /\ Len(<<m>> \o w) = Len(<<m>>) + Len(w)
          /\ \A i \in 1 .. Len(<<m>>) : (<<m>> \o w)[i] = <<m>>[i]
          /\ \A i \in 1 .. Len(w) : (<<m>> \o w)[Len(<<m>>) + i] = w[i]
      BY <3>1, CatFacts, Zenon
    <3>4. Len(<<m>>) = 1 /\ <<m>>[1] = m
      OBVIOUS
    <3>5. Len(<<m>> \o w) = Len(wire[a][b])
      BY <3>2, <3>3, <3>4
    <3>6. (<<m>> \o w)[1] = wire[a][b][1]
      BY <3>2, <3>3, <3>4
    <3>7. ASSUME NEW i \in 1 .. Len(wire[a][b]) PROVE (<<m>> \o w)[i] = wire[a][b][i]
      <4>1. CASE i = 1
        BY <3>6, <4>1
      <4>2. CASE i # 1
        <5>1. i - 1 \in 1 .. Len(w) /\ 1 + (i - 1) = i /\ (i - 1) + 1 = i
          BY <3>2, <4>2
        <5>2. (<<m>> \o w)[1 + (i - 1)] = w[i - 1] /\ w[i - 1] = wire[a][b][(i - 1) + 1]
          BY <3>2, <3>3, <3>4, <5>1
        <5>. QED
          BY <5>1, <5>2
      <4>. QED
        BY <4>1, <4>2
    <3>. QED
      BY <1>1, <3>1, <3>3, <3>5, <3>7, SeqEqual, Zenon
  <2>. HIDE DEF m, e, q
  <2>2. e \in Seq(Nat) /\ q \in Seq(Nat) /\ t \in Seq(Nat) /\ w \o t \in Seq(Nat) /\ w \o e \in Seq(Nat)
        /\ <<m>> \o w \in Seq(Nat)
    BY <1>5, <2>1, CatFacts DEF e, q
  <2>3. Channel(a, b) = <<m>> \o (w \o t) /\ Channel(a, b)' = w \o t
    <3>1. Channel(a, b) = ((<<m>> \o w) \o e) \o q /\ Channel(a, b)' = (w \o e) \o q
      BY <1>1, <1>3, <1>4, <2>1, Zenon DEF Channel, e, q
    <3>2. ((<<m>> \o w) \o e) \o q = (<<m>> \o w) \o t
      BY <2>2, CatAssociates, Zenon DEF t
    <3>3. (<<m>> \o w) \o t = <<m>> \o (w \o t) /\ (w \o e) \o q = w \o t
      BY <2>1, <2>2, CatAssociates, Zenon DEF t
    <3>. QED
      BY <3>1, <3>2, <3>3, Zenon
  <2>. DEFINE c == w \o t
  <2>4. c \in Seq(Nat) /\ m \in Nat
    BY <1>1, <2>2 DEF m
  <2>. HIDE DEF c
  <2>5. <<m>> \o c # << >> /\ Head(<<m>> \o c) = m /\ Tail(<<m>> \o c) = c
    <3>1. <<m>> = Append(<< >>, m) /\ <<m>> \in Seq(Nat)
      BY <2>4
    <3>2. /\ <<m>> \o c \in Seq(Nat) /\ Len(<<m>> \o c) = Len(<<m>>) + Len(c)
          /\ \A i \in 1 .. Len(<<m>>) : (<<m>> \o c)[i] = <<m>>[i]
          /\ \A i \in 1 .. Len(c) : (<<m>> \o c)[Len(<<m>>) + i] = c[i]
      BY <2>4, <3>1, CatFacts, Zenon
    <3>3. Len(<<m>>) = 1 /\ <<m>>[1] = m /\ Len(c) \in Nat
      BY <2>4
    <3>4. <<m>> \o c # << >> /\ Head(<<m>> \o c) = m
      BY <3>2, <3>3
    <3>5. /\ Tail(<<m>> \o c) \in Seq(Nat) /\ Len(Tail(<<m>> \o c)) = Len(c)
          /\ \A i \in 1 .. Len(c) : Tail(<<m>> \o c)[i] = (<<m>> \o c)[i + 1]
      <4>. DEFINE f == <<m>> \o c
      <4>1. f \in Seq(Nat) /\ f # << >> /\ Len(f) = 1 + Len(c)
        BY <3>2, <3>3, <3>4
      <4>. HIDE DEF f
      <4>2. Tail(f) \in Seq(Nat) /\ Len(Tail(f)) = Len(f) - 1
            /\ \A i \in 1 .. Len(Tail(f)) : Tail(f)[i] = f[i + 1]
        BY <4>1, HeadTailProperties
      <4>3. Len(Tail(f)) = Len(c)
        BY <3>3, <4>1, <4>2
      <4>. QED
        BY <4>2, <4>3 DEF f
    <3>6. \A i \in 1 .. Len(c) : Tail(<<m>> \o c)[i] = c[i]
      BY <3>2, <3>3, <3>5
    <3>. QED
      BY <2>4, <3>4, <3>5, <3>6, SeqEqual
  <2>. QED
    BY <2>1, <2>3, <2>5, Zenon DEF c
<1>. HIDE DEF m
<1>7. ASSUME NEW s \in Peers, NEW d \in Peers
      PROVE  \E l \in Nat : SendSide(s, d, l)' /\ ReceiveSide(s, d, l)'
  <2>1. PICK l \in Nat : SendSide(s, d, l) /\ ReceiveSide(s, d, l)
    BY DEF InNumber
  <2>2. CASE ~(s = a /\ d = b)
    <3>1. UNCHANGED <<wire[s][d], out[s][d], landed[s][d]>>
      BY <1>4, <2>2
    <3>2. SendSide(s, d, l)'
      BY <1>1, <2>1, <3>1 DEF SendSide, Channel
    <3>3. ReceiveSide(s, d, l)'
      BY <1>1, <2>1, <3>1 DEF ReceiveSide
    <3>. QED
      BY <3>2, <3>3
  <2>3. CASE s = a /\ d = b
    <3>1. Ascending(Channel(a, b), l, asked[a][b].send)
      BY <2>1, <2>3 DEF SendSide
    <3>2. IF m = IsCallback THEN Ascending(Channel(a, b)', l, asked[a][b].send)
          ELSE m = l + 1 /\ Ascending(Channel(a, b)', l + 1, asked[a][b].send)
      <4>. DEFINE c == Channel(a, b)
      <4>1. c \in Seq(Nat) /\ c # << >> /\ Ascending(c, l, asked[a][b].send)
        BY <1>5, <1>6, <3>1
      <4>. HIDE DEF c
      <4>2. IF Head(c) = IsCallback THEN Ascending(Tail(c), l, asked[a][b].send)
            ELSE Head(c) = l + 1 /\ Ascending(Tail(c), l + 1, asked[a][b].send)
        BY <1>5, <4>1, AscendingTail
      <4>3. Head(c) = m /\ Tail(c) = Channel(a, b)'
        BY <1>6 DEF c
      <4>. QED
        BY <4>2, <4>3, Zenon
    <3>3. out'[a][b].enqueued # << >> => out'[a][b].freePkts = 0
      BY <1>3, <1>4, <2>1, <2>3 DEF SendSide
    <3>4. PICK mm \in Nat, e \in Nat, u \in Nat :
            /\ Numbered(in[b][a].enqueued, mm, e) /\ Numbered(pendingOps[b][a].recv, e, asked[b][a].recv)
            /\ Numbered(in[b][a].unexp, mm, u) /\ Numbered(landed[a][b].data, u, l)
      BY <2>1, <2>3 DEF ReceiveSide
    <3>5. landed[a][b].data \in Seq(Nat) /\ UNCHANGED <<in, pendingOps, asked>>
      BY <1>1, ReceivesAre
    <3>6. CASE m = IsCallback
      <4>1. SendSide(a, b, l)'
        BY <3>2, <3>3, <3>5, <3>6 DEF SendSide
      <4>2. landed'[a][b].data = landed[a][b].data
        BY <1>3, <1>4, <3>6
      <4>3. ReceiveSide(a, b, l)'
        BY <3>4, <3>5, <4>2 DEF ReceiveSide
      <4>. QED
        BY <2>3, <4>1, <4>3
    <3>7. CASE m # IsCallback
      <4>1. SendSide(a, b, l + 1)' /\ l + 1 \in Nat
        BY <3>2, <3>3, <3>5, <3>7 DEF SendSide
      <4>2. landed'[a][b].data = Append(landed[a][b].data, l + 1)
        BY <1>3, <1>4, <3>2, <3>7
      <4>3. Numbered(landed'[a][b].data, u, l + 1)
        <5>1. Numbered(Append(landed[a][b].data, l + 1), u, l + 1)
          BY <3>4, <3>5, NumberedAppend
        <5>. QED
          BY <4>2, <5>1, Zenon
      <4>4. ReceiveSide(a, b, l + 1)'
        BY <3>4, <3>5, <4>3 DEF ReceiveSide
      <4>. QED
        BY <2>3, <4>1, <4>4
    <3>. QED
      BY <3>6, <3>7
  <2>. QED
    BY <2>2, <2>3
<1>8. Peers' = Peers
  BY <1>1 DEF Peers
<1>9. CtrlMatches'
  BY <1>1, <1>8 DEF CtrlMatches
<1>. QED
  BY <1>7, <1>8, <1>9 DEF InNumber

-------------------------------------------------------------------------------
(* The theorems.                                                                 *)

LEMMA InNumberStep ==
    ASSUME LinkTypeOK, HeldAreWaitedFor, InNumber, CtrlMatches, mesh' = mesh, [LinkNext]_linkVars
    PROVE  InNumber' /\ CtrlMatches'
<1>1. QueueTypes /\ Peers' = Peers
  BY TypesAre DEF Peers
<1>2. ASSUME UNCHANGED <<pendingOps, control, asked>> PROVE InNumber' /\ CtrlMatches'
  <2>1. \A s, d \in Peers : \A l \in Nat :
            /\ SendSide(s, d, l) => SendSide(s, d, l)'
            /\ ReceiveSide(s, d, l) => ReceiveSide(s, d, l)'
    BY <1>2 DEF SendSide, ReceiveSide, Channel, control
  <2>2. InNumber'
    BY <2>1, NumbersKept
  <2>. QED
    BY <1>1, <1>2, <2>2 DEF CtrlMatches, control
<1>3. ASSUME NEW r \in Peers,
             Accept(r) \/ ServerSetup(r) \/ ServerPublish(r) \/ ServerReturn(r)
               \/ ClientSetup(r) \/ ClientReturn(r)
      PROVE  InNumber' /\ CtrlMatches'
  <2>1. UNCHANGED <<pendingOps, control, asked>>
    BY <1>3, Zenon DEF Accept, ServerSetup, ServerPublish, ServerReturn, ClientSetup, ClientReturn
  <2>. QED
    BY <1>2, <2>1
<1>4. ASSUME NEW r \in Peers, NEW p \in Peers, NEW n \in Nat, AskMessage(r, p, n) \/ AskReceive(r, p, n)
      PROVE  InNumber' /\ CtrlMatches'
  <2>1. ~IsPending(r, p) => pendingOps[r][p] = NonePending
    BY DEF IsPending, HeldAreWaitedFor
  <2>. QED
    BY <1>1, <1>4, <2>1, AskMessageNumbers, AskReceiveNumbers, Zenon
<1>5. ASSUME NEW r \in Peers, Call(r) PROVE InNumber' /\ CtrlMatches'
  BY <1>2, <1>4, <1>5, CallIs, Zenon
<1>6. ASSUME NEW r \in Peers, Progress(r) PROVE InNumber' /\ CtrlMatches'
  BY <1>6, ProgressNumbers
<1>7. ASSUME NEW r \in Peers, NEW d \in Peers, Land(r, d) PROVE InNumber' /\ CtrlMatches'
  BY <1>1, <1>7, LandNumbers
<1>8. ASSUME UNCHANGED linkVars PROVE InNumber' /\ CtrlMatches'
  BY <1>2, <1>8 DEF linkVars
<1>. QED
  BY <1>3, <1>5, <1>6, <1>7, <1>8 DEF LinkNext

LEMMA InitialLinks ==
    ASSUME ProgramsSound, LinkInit
    PROVE  LinkInv
<1>1. /\ mesh \in Programs /\ Peers \subseteq Nat /\ mesh.maxMsgs \in Nat
      /\ mesh.programs \in [Peers -> Seq(CallType(Peers))]
      /\ \A r \in Peers : WaitsFirst(mesh.programs[r])
  BY ProgramsAre DEF LinkInit
<1>2. /\ main = [r \in Peers |-> Idle] /\ listen = [r \in Peers |-> Idle]
      /\ backlog = [r \in Peers |-> << >>]
      /\ qpReady = [r \in Peers |-> {}] /\ vcs = [r \in Peers |-> {}]
      /\ connected = [r \in Peers |-> {}]
  BY DEF LinkInit
<1>3. ASSUME NEW s \in Peers, NEW d \in Peers
      PROVE  /\ pendingOps[s][d] = NonePending /\ wire[s][d] = << >> /\ landed[s][d] = NothingLanded
             /\ out[s][d] = [freePkts |-> mesh.maxMsgs, enqueued |-> << >>, acked |-> 0]
             /\ in[s][d] = [enqueued |-> << >>, unexp |-> << >>]
             /\ asked[s][d] = [send |-> 0, recv |-> 0] /\ got[s][d] = {}
  BY DEF LinkInit, AllPairs
<1>4. todo \in [Peers -> Seq(CallType(Peers))]
  BY <1>1 DEF LinkInit
<1>5. SocketTypesOK
  BY <1>2 DEF SocketTypesOK, Places, Idle
<1>6. QueueTypes
  BY <1>1 DEF QueueTypes, LinkInit, AllPairs, NonePending, NothingLanded, PendingType, OutType, InType, LandedType
<1>7. LinkTypeOK
  BY <1>1, <1>2, <1>4, <1>5, <1>6, TypesAre DEF CallTypesOK
<1>8. Roles /\ Published /\ ClientKnows
  BY <1>2 DEF Roles, Published, ClientKnows, Idle
<1>9. SentIsKnown
  BY <1>3 DEF SentIsKnown, NothingLanded
<1>10. HeldAreWaitedFor
  <2>1. todo = mesh.programs
    BY DEF LinkInit
  <2>. QED
    BY <1>1, <1>2, <1>3, <2>1 DEF HeldAreWaitedFor
<1>11. CtrlMatches
  BY <1>3 DEF CtrlMatches
<1>12. InNumber
  <2>. SUFFICES ASSUME NEW s \in Peers, NEW d \in Peers
                PROVE  SendSide(s, d, 0) /\ ReceiveSide(s, d, 0)
    BY DEF InNumber
  <2>1. SendSide(s, d, 0)
    <3>1. Channel(s, d) = << >>
      <4>1. (<< >> \o << >>) \o << >> = << >>
        OBVIOUS
      <4>2. wire[s][d] = << >> /\ out[s][d].enqueued = << >> /\ pendingOps[s][d].send = << >>
        BY <1>3 DEF NonePending
      <4>. QED
        BY <4>1, <4>2, Zenon DEF Channel
    <3>2. Ascending(<< >>, 0, 0)
      BY DEF Ascending
    <3>3. out[s][d].enqueued = << >> /\ asked[s][d].send = 0
      BY <1>3
    <3>. QED
      BY <3>1, <3>2, <3>3, Zenon DEF SendSide
  <2>2. ReceiveSide(s, d, 0)
    <3>1. /\ in[d][s].enqueued = << >> /\ in[d][s].unexp = << >> /\ pendingOps[d][s].recv = << >>
          /\ landed[s][d].data = << >> /\ asked[d][s].recv = 0
      BY <1>3 DEF NonePending, NothingLanded
    <3>2. Numbered(<< >>, 0, 0)
      BY DEF Numbered
    <3>. QED
      BY <3>1, <3>2 DEF ReceiveSide
  <2>. QED
    BY <2>1, <2>2
<1>. QED
  BY <1>7, <1>8, <1>9, <1>10, <1>11, <1>12 DEF LinkInv, Handshake

LEMMA LinkStep ==
    ASSUME ProgramsSound, LinkInv, [LinkNext]_linkVars
    PROVE  LinkInv'
<1>1. /\ LinkTypeOK /\ Roles /\ Published /\ ClientKnows /\ SentIsKnown /\ HeldAreWaitedFor
      /\ InNumber /\ CtrlMatches
  BY DEF LinkInv, Handshake
<1>2. QueuedForPackets
  BY <1>1, InNumberGives
<1>3. LinkTypeOK' /\ mesh' = mesh
  BY <1>1, <1>2, TypeStep
<1>4. Roles' /\ Published' /\ ClientKnows'
  BY <1>1, <1>3, RolesStep, PublishedStep
<1>5. SentIsKnown'
  BY <1>1, <1>2, <1>3, SentIsKnownStep
<1>6. HeldAreWaitedFor'
  BY <1>1, <1>3, HeldStep
<1>7. InNumber' /\ CtrlMatches'
  BY <1>1, <1>3, InNumberStep
<1>. QED
  BY <1>3, <1>4, <1>5, <1>6, <1>7 DEF LinkInv, Handshake

\* Everything above holds in every behaviour of programs that wait before they connect.
THEOREM LinksHold ==
    ASSUME ProgramsSound
    PROVE  LinkSpec => []LinkInv
<1>1. LinkInit => LinkInv
  BY InitialLinks
<1>2. LinkInv /\ [LinkNext]_linkVars => LinkInv'
  BY LinkStep
<1>. QED
  BY <1>1, <1>2, PTL DEF LinkSpec

\* However requests, the connection, scarce packets and progress interleave, a receive gets
\* the control message it was posted for (progressPendingOps, IBV_WC_SEND, matchRecvWr).
THEOREM ControlMessagesMatch ==
    ASSUME ProgramsSound
    PROVE  LinkSpec => []CtrlMatches
<1>1. LinkInv => CtrlMatches
  BY DEF LinkInv
<1>. QED
  BY <1>1, LinksHold, PTL

\* The main thread never polls a completion of a connection it does not know: the listen
\* thread publishes before it acknowledges, and nobody sends before (connectVcDirect).
THEOREM PolledConnectionsAreKnown ==
    ASSUME ProgramsSound
    PROVE  LinkSpec => []PolledIsKnown
<1>1. ASSUME LinkInv PROVE PolledIsKnown
  <2>1. LinkTypeOK /\ ClientKnows /\ SentIsKnown
    BY <1>1 DEF LinkInv, Handshake
  <2>2. Peers \subseteq Nat
    BY <2>1, ProgramsAre DEF LinkTypeOK
  <2>. SUFFICES ASSUME NEW r \in Peers, NEW p \in Peers, landed[p][r].count > 0
                PROVE  p \in vcs[r]
    BY DEF PolledIsKnown
  <2>3. CASE p < r
    BY <2>1, <2>3 DEF SentIsKnown
  <2>4. CASE p >= r
    BY <2>1, <2>4 DEF SentIsKnown, ClientKnows
  <2>. QED
    BY <2>2, <2>3, <2>4
<1>. QED
  BY <1>1, LinksHold, PTL
===============================================================================
