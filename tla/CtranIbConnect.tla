---------------------------- MODULE CtranIbConnect ----------------------------
(* Connections and control messages of CTRAN's InfiniBand backend (CtranIb.h,    *)
(* CtranIb.cc, CtranIbVc.h).  The lower of two ranks connects, in the call that  *)
(* first needs the connection; the higher one's listen thread answers, one peer  *)
(* at a time, and publishes the connection to its main thread.  Messages asked   *)
(* for before that wait in rankToPendingOpsMap; later ones go to the control QP, *)
(* which carries MAX_CONTROL_MSGS packets at a time, in order.  The k-th receive *)
(* from a peer is meant for its k-th message, except for messages of a type with *)
(* a callback, which no receive is posted for.                                   *)
(*                                                                              *)
(* A rank's main thread is whoever holds the backend's epoch lock.  A message is *)
(* its number among those the peer must receive, or IsCallback.  Sockets lose    *)
(* nothing; a failing peer, sizes and payloads are left out.                     *)
EXTENDS Integers, Sequences, FiniteSets

\* What a behaviour does: [maxMsgs, programs], where programs[r] is the sequence of calls
\* of rank r: [op, peer] with op "send", "notice" (a message with a callback) or "recv",
\* [op |-> "wait"] for all requests made so far, and [op |-> "preConnect", peers].
CONSTANT Programs

CallType(ranks) ==
    [op : {"send", "notice", "recv"}, peer : ranks] \cup [op : {"wait"}]
        \cup [op : {"preConnect"}, peers : SUBSET ranks]

\* preConnect does not look for requests still held for a peer: its callers wait for
\* theirs before.
WaitsFirst(calls) ==
    \A j, k \in DOMAIN calls :
        /\ j < k /\ calls[k].op = "preConnect"
        /\ calls[j].op \in {"send", "notice", "recv"} /\ calls[j].peer \in calls[k].peers
        => \E w \in j + 1 .. k - 1 : calls[w].op = "wait"

\* The programs considered.
ProgramsSound ==
    \A m \in Programs :
        /\ m.maxMsgs \in Nat \ {0} /\ DOMAIN m.programs \subseteq Nat
        /\ m.programs \in [DOMAIN m.programs -> Seq(CallType(DOMAIN m.programs))]
        /\ \A r \in DOMAIN m.programs : WaitsFirst(m.programs[r])

VARIABLES
    mesh,       \* the element of Programs that the ranks perform
    todo,       \* per rank, the calls still to make
    main,       \* per rank, [at, peer]: where the main thread is in connectVc
    listen,     \* per rank, [at, peer]: the same of the listen thread
    backlog,    \* per rank, peers that wait to be accepted
    qpReady,    \* per rank, peers whose connection setupVc made
    vcs,        \* per rank, peers in vcStateMaps.rankToVcMap
    connected,  \* per rank, peers in connectedPeerMap
    pendingOps, \* per rank and peer, [send, recv]: the messages and the receives in
                \*   rankToPendingOpsMap, which are issued independently of each other
    out,        \* per rank and peer, [freePkts, enqueued, acked] of sendCtrl_
    wire,       \* per rank and peer, packets posted and not yet landed
    landed,     \* per sender and receiver, the packets landed and not yet polled:
                \*   [count, data, called], data being those without a callback
    in,         \* per rank and peer, [enqueued, unexp] of recvCtrl_
    asked,      \* per rank and peer, [send, recv]: requests made
    got         \* per rank and peer, pairs <<receive, message>>, or <<0, IsCallback>>

sockets == <<main, listen, backlog, qpReady, vcs>>
control == <<out, wire, landed, in, got>>
linkVars == <<mesh, todo, sockets, connected, pendingOps, control, asked>>

IsCallback == 0
NonePending == [send |-> << >>, recv |-> << >>]
NothingLanded == [count |-> 0, data |-> << >>, called |-> FALSE]
Nobody == -1
Idle == [at |-> "idle", peer |-> Nobody]

\* The ranks.
Peers == DOMAIN mesh.programs
AllPairs(value) == [r \in Peers |-> [p \in Peers |-> value]]
Least(a, b) == IF a <= b THEN a ELSE b
Rest(s, n) == SubSeq(s, n + 1, Len(s))
First(s, n) == SubSeq(s, 1, n)

LinkInit ==
    /\ mesh \in Programs
    /\ todo = mesh.programs
    /\ main = [r \in Peers |-> Idle] /\ listen = [r \in Peers |-> Idle]
    /\ backlog = [r \in Peers |-> << >>]
    /\ qpReady = [r \in Peers |-> {}] /\ vcs = qpReady /\ connected = qpReady
    /\ pendingOps = AllPairs(NonePending)
    /\ out = AllPairs([freePkts |-> mesh.maxMsgs, enqueued |-> << >>, acked |-> 0])
    /\ wire = AllPairs(<< >>) /\ landed = AllPairs(NothingLanded)
    /\ in = AllPairs([enqueued |-> << >>, unexp |-> << >>])
    /\ asked = AllPairs([send |-> 0, recv |-> 0])
    /\ got = AllPairs({})

-------------------------------------------------------------------------------
(* Control messages on a connection.                                             *)

\* isendCtrlMsgImpl for the messages msgs in turn: what is posted, and what is left of the
\* free packets and queued.
Sent(o, msgs) ==
    LET n == Least(o.freePkts, Len(msgs))
    IN  [posted |-> First(msgs, n),
         out |-> [o EXCEPT !.freePkts = @ - n, !.enqueued = @ \o Rest(msgs, n)]]

\* irecvCtrlMsgImpl for the receives recvs in turn, or matchRecvWr and enqueueUnexpWr for
\* the packets msgs in turn: one of the two waits for the other.
Matched(i, recvs, msgs) ==
    LET waiting == i.enqueued \o recvs
        there == i.unexp \o msgs
        n == Least(Len(waiting), Len(there))
    IN  [pairs |-> {<<waiting[k], there[k]>> : k \in 1 .. n},
         in |-> [enqueued |-> Rest(waiting, n), unexp |-> Rest(there, n)]]

\* IBV_WC_SEND, once for every packet acknowledged: each frees its packet, which a queued
\* message takes.
Acked(o) ==
    LET n == Least(o.acked, Len(o.enqueued))
    IN  [posted |-> First(o.enqueued, n),
         out |-> [freePkts |-> o.freePkts + o.acked - n, enqueued |-> Rest(o.enqueued, n),
                  acked |-> 0]]

-------------------------------------------------------------------------------
(* Connecting.                                                                  *)

\* bootstrapConnect of rank r up to the card it sends in connectVc.
StartConnect(r, p) ==
    /\ main' = [main EXCEPT ![r] = [at |-> "sentCard", peer |-> p]]
    /\ backlog' = [backlog EXCEPT ![p] = Append(@, r)]

\* bootstrapAccept, and connectVc as server up to the card it sends.
Accept(r) ==
    /\ listen[r].at = "idle" /\ backlog[r] # << >>
    /\ listen' = [listen EXCEPT ![r] = [at |-> "sentCard", peer |-> Head(backlog[r])]]
    /\ backlog' = [backlog EXCEPT ![r] = Tail(@)]
    /\ UNCHANGED <<mesh, todo, main, qpReady, vcs, connected, pendingOps, control, asked>>

\* p's listen thread serves r.
ServerOf(r, p) == listen[p].peer = r /\ listen[p].at # "idle"

\* connectVcDirect of client r: setupVc, and updateVcState.
ClientSetup(r) ==
    /\ main[r].at = "sentCard" /\ ServerOf(r, main[r].peer)
    /\ main' = [main EXCEPT ![r].at = "setUp"]
    /\ qpReady' = [qpReady EXCEPT ![r] = @ \cup {main[r].peer}]
    /\ vcs' = [vcs EXCEPT ![r] = @ \cup {main[r].peer}]
    /\ UNCHANGED <<mesh, todo, listen, backlog, connected, pendingOps, control, asked>>

\* connectVcDirect of the server's listen thread: setupVc.
ServerSetup(r) ==
    /\ listen[r].at = "sentCard"
    /\ listen' = [listen EXCEPT ![r].at = "setUp"]
    /\ qpReady' = [qpReady EXCEPT ![r] = @ \cup {listen[r].peer}]
    /\ UNCHANGED <<mesh, todo, main, backlog, vcs, connected, pendingOps, control, asked>>

\* Fault: the acknowledgement is sent and the connection is not published.
ServerPublish_AckOnly(r) ==
    /\ listen[r].at = "setUp"
    /\ listen' = [listen EXCEPT ![r].at = "sentAck"]
    /\ UNCHANGED <<mesh, todo, main, backlog, qpReady, vcs, connected, pendingOps, control, asked>>

\* updateVcState, and the acknowledgement: the client may now use the connection.
ServerPublish(r) ==
    /\ listen[r].at = "setUp"
    /\ listen' = [listen EXCEPT ![r].at = "sentAck"]
    /\ vcs' = [vcs EXCEPT ![r] = @ \cup {listen[r].peer}]
    /\ UNCHANGED <<mesh, todo, main, backlog, qpReady, connected, pendingOps, control, asked>>

\* The client has the server's acknowledgement, sends its own and returns from connectVc.
ClientReturn(r) ==
    /\ main[r].at = "setUp" /\ listen[main[r].peer] = [at |-> "sentAck", peer |-> r]
    /\ main' = [main EXCEPT ![r] = Idle]
    /\ listen' = [listen EXCEPT ![main[r].peer].at = "acked"]
    /\ UNCHANGED <<mesh, todo, backlog, qpReady, vcs, connected, pendingOps, control, asked>>

ServerReturn(r) ==
    /\ listen[r].at = "acked"
    /\ listen' = [listen EXCEPT ![r] = Idle]
    /\ UNCHANGED <<mesh, todo, main, backlog, qpReady, vcs, connected, pendingOps, control,
                   asked>>

-------------------------------------------------------------------------------
(* Calls of the main thread.                                                     *)

NeedsConnect(r, p) == r < p /\ p \notin vcs[r]

\* Fault: requests that are pending already are not looked at.
IsPending_NoVc(r, p) == p \notin vcs[r]

\* addToPendingOpsIfRequired, which is not asked for peers of connectedPeerMap.
IsPending(r, p) ==
    /\ p \notin connected[r]
    /\ p \notin vcs[r] \/ pendingOps[r][p] # NonePending

\* isendCtrlMsgImpl and irecvCtrlMsgImpl of the backend, once the peer is connected or is
\* one that connects to us.
Ask(r, p, call) ==
    LET kind == IF call = "recv" THEN "recv" ELSE "send"
        n == IF call = "notice" THEN IsCallback ELSE asked[r][p][kind] + 1
        sent == Sent(out[r][p], <<n>>)
        matched == Matched(in[r][p], <<n>>, << >>)
    IN  /\ asked' = IF call = "notice" THEN asked ELSE [asked EXCEPT ![r][p][kind] = @ + 1]
        /\ \/ /\ IsPending(r, p)
              /\ pendingOps' = [pendingOps EXCEPT ![r][p][kind] = Append(@, n)]
              /\ UNCHANGED control
           \/ /\ ~IsPending(r, p) /\ kind = "send"
              /\ out' = [out EXCEPT ![r][p] = sent.out]
              /\ wire' = [wire EXCEPT ![r][p] = @ \o sent.posted]
              /\ UNCHANGED <<pendingOps, landed, in, got>>
           \/ /\ ~IsPending(r, p) /\ kind = "recv"
              /\ in' = [in EXCEPT ![r][p] = matched.in]
              /\ got' = [got EXCEPT ![r][p] = @ \cup matched.pairs]
              /\ UNCHANGED <<pendingOps, out, wire, landed>>

\* A send or receive either has to connect first or is made.
SendOrRecv(r) ==
    LET call == Head(todo[r])
        p == call.peer
    IN  /\ call.op \in {"send", "notice", "recv"}
        /\ IF NeedsConnect(r, p)
           THEN /\ StartConnect(r, p)
                /\ UNCHANGED <<todo, listen, qpReady, vcs, pendingOps, control, asked>>
           ELSE /\ Ask(r, p, call.op)
                /\ todo' = [todo EXCEPT ![r] = Tail(@)]
                /\ UNCHANGED sockets
        /\ UNCHANGED connected

\* preConnect connects to the higher peers, then waits until the lower ones have.
PreConnect(r) ==
    LET call == Head(todo[r])
        higher == {p \in call.peers : NeedsConnect(r, p)}
    IN  /\ call.op = "preConnect"
        /\ \/ /\ \E p \in higher : StartConnect(r, p)
              /\ UNCHANGED <<todo, connected>>
           \/ /\ call.peers \subseteq vcs[r]
              /\ connected' = [connected EXCEPT ![r] = @ \cup call.peers]
              /\ todo' = [todo EXCEPT ![r] = Tail(@)]
              /\ UNCHANGED <<main, backlog>>
        /\ UNCHANGED <<listen, qpReady, vcs, pendingOps, control, asked>>

\* No request of r to p is outstanding and no packet is on its way.
Quiet(r, p) ==
    /\ pendingOps[r][p] = NonePending /\ in[r][p].enqueued = << >>
    /\ out[r][p] = [freePkts |-> mesh.maxMsgs, enqueued |-> << >>, acked |-> 0]

Wait(r) ==
    /\ Head(todo[r]).op = "wait" /\ \A p \in Peers : Quiet(r, p)
    /\ todo' = [todo EXCEPT ![r] = Tail(@)]
    /\ UNCHANGED <<sockets, connected, pendingOps, control, asked>>

Call(r) ==
    /\ main[r].at = "idle" /\ todo[r] # << >>
    /\ SendOrRecv(r) \/ PreConnect(r) \/ Wait(r)
    /\ UNCHANGED mesh

\* What progressPendingOps of rank r finds to issue to p.
Ready(r, p) == IF p \in vcs[r] THEN pendingOps[r][p] ELSE NonePending

\* progressInternal: every completion there is (processCqeImpl), then progressPendingOps
\* for the peers that are connected by now.
Progress(r) ==
    LET acked(p) == Acked(out[r][p])
        sent(p) == Sent(acked(p).out, Ready(r, p).send)
        matched(p) == Matched(in[r][p], << >>, landed[p][r].data)
        pending(p) == Matched(matched(p).in, Ready(r, p).recv, << >>)
        called(p) == IF landed[p][r].called THEN {<<0, IsCallback>>} ELSE {}
    IN  /\ main[r].at = "idle"
        /\ \E p \in Peers :
            out[r][p].acked > 0 \/ landed[p][r].count > 0 \/ Ready(r, p) # NonePending
        /\ out' = [out EXCEPT ![r] = [p \in Peers |-> sent(p).out]]
        /\ wire' = [wire EXCEPT ![r] =
                        [p \in Peers |-> @[p] \o acked(p).posted \o sent(p).posted]]
        /\ landed' = [s \in Peers |-> [landed[s] EXCEPT ![r] = NothingLanded]]
        /\ in' = [in EXCEPT ![r] = [p \in Peers |-> pending(p).in]]
        /\ got' = [got EXCEPT ![r] = [p \in Peers |->
                        @[p] \cup matched(p).pairs \cup pending(p).pairs \cup called(p)]]
        /\ pendingOps' = [pendingOps EXCEPT ![r] =
                              [p \in Peers |-> IF p \in vcs[r] THEN NonePending ELSE @[p]]]
    /\ UNCHANGED <<mesh, todo, sockets, connected, asked>>

\* The control QP of s delivers in order, once the receiver's is ready and has a receive
\* posted, and acknowledges.
Land(s, d) ==
    LET m == Head(wire[s][d])
        here == landed[s][d]
    IN  /\ wire[s][d] # << >> /\ s \in qpReady[d] /\ here.count < mesh.maxMsgs
        /\ wire' = [wire EXCEPT ![s][d] = Tail(@)]
        /\ landed' = [landed EXCEPT ![s][d] =
                [count |-> here.count + 1, called |-> here.called \/ m = IsCallback,
                 data |-> IF m = IsCallback THEN here.data ELSE Append(here.data, m)]]
        /\ out' = [out EXCEPT ![s][d].acked = @ + 1]
        /\ UNCHANGED <<mesh, todo, sockets, connected, pendingOps, in, got, asked>>

LinkNext ==
    \E r \in Peers :
        \/ Accept(r) \/ ServerSetup(r) \/ ServerPublish(r) \/ ServerReturn(r)
        \/ ClientSetup(r) \/ ClientReturn(r)
        \/ Call(r) \/ Progress(r)
        \/ \E d \in Peers : Land(r, d)

\* Programs end and every step uses something up, so that it is enough that somebody goes
\* on: callers poll until their requests are complete.
LinkSpec == LinkInit /\ [][LinkNext]_linkVars /\ WF_linkVars(LinkNext)

-------------------------------------------------------------------------------
\* A receive gets the message it was posted for, whether they were asked for before the
\* connection, while packets were short or after (addToPendingOpsIfRequired,
\* progressPendingOps, isendCtrlMsgImpl, IBV_WC_SEND, matchRecvWr).
CtrlMatches == \A r, p \in Peers : \A pair \in got[r][p] : pair[1] = pair[2]

\* Whatever main can poll is of a connection it knows; otherwise progressInternal fails
\* with an internal error (getVcByQp, and the acknowledgements at the end of connectVc).
PolledIsKnown ==
    \A r, p \in Peers : main[r].at = "idle" /\ landed[p][r].count > 0 => p \in vcs[r]

\* Every program ends and has what it asked for (bootstrapAccept, progressInternal).
CtrlOver ==
    \A r \in Peers :
        /\ todo[r] = << >>
        /\ \A p \in Peers :
            /\ Quiet(r, p)
            /\ Cardinality({pair \in got[r][p] : pair[1] > 0}) = asked[r][p].recv

CtrlEnds == <>[]CtrlOver
=============================================================================
