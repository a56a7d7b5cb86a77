---------------------------- MODULE WincSocketRx ----------------------------
(***************************************************************************)
(* The receive side of the WINC1500 sockets: libs/winc1500/src/            *)
(* winc1500_socket.c (polling, the callback, the queue of each socket)     *)
(* over libs/winc1500/src/socket/socket.c (sessions, recvfrom, m2m_ip_cb). *)
(*                                                                         *)
(* The driver asks the chip for data for one socket at a time, into a      *)
(* chain of mbufs it owns.  The Wi-Fi task handles replies with the mutex  *)
(* held, which makes each of them one step; it starts a poll without the   *)
(* mutex, and the application's calls come in between.                     *)
(***************************************************************************)
EXTENDS Integers, SequencesExt, FiniteSets, FiniteSetsExt

CONSTANTS
    MaxSocket,  \* MAX_SOCKET
    Chains,     \* the mbuf chains of the pool
    Pieces,     \* mbufs of a chain that the data of a reply may take, 1 or 2
    SessionMod, \* modulus of gu16SessionID (65536)
    Ops,        \* the calls the application makes
    HifFails,   \* whether hif_send and hif_receive may fail
    MaxOpen,    \* bound: sockets created in a behaviour
    MaxData     \* bound: replies with data

ASSUME RxAssumption ==
    /\ MaxSocket \in Nat \ {0} /\ Chains \subseteq Nat \ {0} /\ IsFiniteSet(Chains)
    /\ Pieces \in {1, 2} /\ SessionMod \in Nat /\ SessionMod >= 2
    /\ Ops \subseteq {"close", "recvfrom"} /\ HifFails \in BOOLEAN
    /\ MaxOpen \in Nat /\ MaxData \in Nat

Sock == 0 .. MaxSocket - 1
NoChain == 0

VARIABLES
    gastrSockets,   \* bIsUsed, u16SessionID, bIsRecvPending, pu8UserBuffer
    gu16SessionID,
    ws_poll,        \* the socket is polled
    ws_rx,          \* packets received: chain, length, and whose data it was
    polling, rx_buf, cur_buf,   \* winc1500_socket_state
    gu8FlowCtrl,    \* replies are not taken from the chip
    mem,            \* what each mbuf holds: the number of a reply
    picked,         \* the socket a poll is about to ask for, or -1
    \* the chip
    asked,          \* requests it has not answered
    replies,        \* answers not yet taken by the host
    \* history
    opened, data,   \* sockets created, replies with data sent
    owner,          \* the incarnation of each socket
    failed,         \* hif_send or hif_receive has failed
    orphaned,       \* a socket has been closed while it was asked for
    crossed         \* a poll asked for one socket while the request for another,
                    \* or its reply, was held up by flow control, or while one for
                    \* a closed socket was still out

driver == <<polling, rx_buf, cur_buf, gu8FlowCtrl>>
vars == <<gastrSockets, gu16SessionID, ws_poll, ws_rx, driver, mem, picked, asked,
          replies, opened, data, owner, failed, orphaned, crossed>>

Unused == [used |-> FALSE, session |-> 0, pending |-> FALSE, buf |-> <<NoChain, 0>>]

Init ==
    /\ gastrSockets = [s \in Sock |-> Unused]
    /\ gu16SessionID = 0
    /\ ws_poll = [s \in Sock |-> FALSE]
    /\ ws_rx = [s \in Sock |-> <<>>]
    /\ polling = FALSE /\ rx_buf = NoChain /\ cur_buf = <<NoChain, 0>>
    /\ gu8FlowCtrl = FALSE
    /\ mem = [c \in Chains \X {1, 2} |-> 0]
    /\ picked = -1
    /\ asked = {} /\ replies = <<>>
    /\ opened = 0 /\ data = 0 /\ owner = [s \in Sock |-> 0]
    /\ failed = FALSE /\ orphaned = FALSE /\ crossed = FALSE

-----------------------------------------------------------------------------
(* socket.c: recvfrom, on the part of the state it changes *)

\* The state the receive path works on, as one value: replies are handled by
\* a chain of calls within one step.
State == [socks |-> gastrSockets, polling |-> polling, rx_buf |-> rx_buf,
          cur_buf |-> cur_buf, flow |-> gu8FlowCtrl, asked |-> asked]

\* What the chip is asked; n tells a second request of the same session from
\* the first.
Request(st, s, n) ==
    [sock |-> s, session |-> st.socks[s].session, owner |-> owner[s], copy |-> n]
Copy(st, s) == Min({n \in 1 .. Cardinality(st.asked) + 1 : Request(st, s, n) \notin st.asked})

\* recvfrom(sock, buf, ...) with the outcome ok of hif_send: the buffer is
\* recorded in any case, a request is sent unless one is pending, and the
\* pending mark is set before the request is sent.
RecvRc(st, s, ok) ==
    IF st.socks[s].used /\ (st.socks[s].pending \/ ok) THEN 0 ELSE -1
Recvfrom(st, s, buf, ok) ==
    IF ~st.socks[s].used THEN st
    ELSE [st EXCEPT !.socks[s].buf = buf,
                    !.socks[s].pending = TRUE,
                    !.asked = IF st.socks[s].pending \/ ~ok THEN @
                              ELSE @ \cup {Request(st, s, Copy(st, s))}]

-----------------------------------------------------------------------------
(* winc1500_sock_start_rx *)

\* polling is over and there is a chain to receive into, or flow control.
\* chain is what os_msys_get_pkthdr gave, NoChain for none.
WithBuffer(st, chain) ==
    LET s1 == [st EXCEPT !.polling = FALSE] IN
    IF s1.rx_buf # NoChain THEN [s1 EXCEPT !.flow = FALSE]
    ELSE IF chain = NoChain THEN [s1 EXCEPT !.flow = TRUE]
    ELSE [s1 EXCEPT !.rx_buf = chain, !.flow = FALSE]

\* The first socket from idx on that is polled.
Suitable(idx) == {s \in Sock : s >= idx /\ ws_poll[s]}

\* Mutation of NextSuitable: the same socket is asked for again.
NextSuitableSame(s) == Suitable(s)

\* The sockets left to poll after socket s had nothing.
NextSuitable(s) == Suitable(s + 1)

\* Mutation of AskFor: a continued reply goes to the first mbuf again.
AskForFirst(st, s, cont, ok) ==
    LET s1 == Recvfrom(st, s, <<st.rx_buf, 1>>, ok)
    IN IF RecvRc(st, s, ok) = 0 THEN [s1 EXCEPT !.cur_buf = <<st.rx_buf, 1>>, !.polling = TRUE]
       ELSE s1

\* Ask for data of socket s, into the first mbuf or the one after cur_buf.
AskFor(st, s, cont, ok) ==
    LET buf == IF cont THEN <<st.cur_buf[1], st.cur_buf[2] + 1>> ELSE <<st.rx_buf, 1>>
        s1 == Recvfrom(st, s, buf, ok)
    IN IF RecvRc(st, s, ok) = 0 THEN [s1 EXCEPT !.cur_buf = buf, !.polling = TRUE]
       ELSE s1

StartRx(st, polled, cont, chain, ok) ==
    LET s1 == WithBuffer(st, chain) IN
    IF s1.rx_buf = NoChain \/ polled = {} THEN s1 ELSE AskFor(s1, Min(polled), cont, ok)

\* The chains somebody holds, and what an allocation may return.
InUse == {rx_buf} \cup {p.chain : p \in UNION {{ws_rx[s][i] : i \in 1 .. Len(ws_rx[s])} :
                                               s \in Sock}}
Allocated(used) == IF Chains \subseteq used THEN {NoChain} ELSE {Min(Chains \ used)}

\* The outcomes of hif_send.
Outcomes == IF HifFails THEN {TRUE, FALSE} ELSE {TRUE}

Counts(ok) == failed' = (failed \/ ~ok)

Becomes(st) ==
    /\ gastrSockets' = st.socks
    /\ polling' = st.polling /\ rx_buf' = st.rx_buf /\ cur_buf' = st.cur_buf
    /\ gu8FlowCtrl' = st.flow
    /\ asked' = st.asked

-----------------------------------------------------------------------------
(* winc1500_socket_poll, after the replies and without the mutex *)

\* What is with the chip or on its way back, and whether it is for the socket
\* as it is now.
Out == asked \cup ToSet(replies)
Used(s) == gastrSockets[s].used
Live(q) == Used(q.sock) /\ q.owner = owner[q.sock]

\* The poll for socket s finds another's request held up by flow control, or
\* one that a closed socket has left behind.
Crosses(s) == \E q \in Out : q.owner # owner[s] /\ (gu8FlowCtrl \/ ~Live(q))

\* Mutation of Poll: a poll that is going on is not noticed.
PollAlways ==
    /\ picked = -1
    /\ \E chain \in Allocated(InUse) :
        LET s1 == WithBuffer(State, chain) IN
        /\ Becomes(s1)
        /\ picked' = IF s1.rx_buf = NoChain \/ Suitable(0) = {} THEN -1 ELSE Min(Suitable(0))
    /\ crossed' = (crossed \/ (picked' # -1 /\ Crosses(picked')))
    /\ UNCHANGED <<gu16SessionID, ws_poll, ws_rx, mem, replies, opened, data, owner, failed, orphaned>>

Poll ==
    /\ picked = -1 /\ ~polling
    /\ \E chain \in Allocated(InUse) :
        LET s1 == WithBuffer(State, chain) IN
        /\ Becomes(s1)
        /\ picked' = IF s1.rx_buf = NoChain \/ Suitable(0) = {} THEN -1 ELSE Min(Suitable(0))
    /\ crossed' = (crossed \/ (picked' # -1 /\ Crosses(picked')))
    /\ UNCHANGED <<gu16SessionID, ws_poll, ws_rx, mem, replies, opened, data, owner, failed, orphaned>>

\* recvfrom for the socket that was polled when the loop looked at it.
PollAsks ==
    /\ picked # -1
    /\ \E ok \in Outcomes : Becomes(AskFor(State, picked, FALSE, ok)) /\ Counts(ok)
    /\ crossed' = (crossed \/ Crosses(picked))
    /\ picked' = -1
    /\ UNCHANGED <<gu16SessionID, ws_poll, ws_rx, mem, replies, opened, data, owner, orphaned>>

-----------------------------------------------------------------------------
(* m2m_ip_cb and winc1500_sock_cb, from winc1500_events with the mutex *)

\* The replies are taken only without flow control and between polls.
Taking == picked = -1 /\ replies # <<>> /\ ~gu8FlowCtrl

\* The reply has been taken off the chip; its socket is not pending any more.
Taken(r) == [State EXCEPT !.socks[r.sock].pending = FALSE]

\* Mutation of Current: the session of a reply is not compared.
CurrentAny(r) == TRUE

Current(r) == r.session = gastrSockets[r.sock].session

\* The head of the reply cannot be read: it is lost, and nothing is reset.
ReplyUnread ==
    /\ Taking /\ HifFails
    /\ replies' = Tail(replies)
    /\ failed' = TRUE
    /\ UNCHANGED <<gastrSockets, gu16SessionID, ws_poll, ws_rx, driver, mem, picked, asked,
                   opened, data, owner, orphaned, crossed>>

\* A reply to an earlier session is dropped.
ReplyDiscarded ==
    /\ Taking
    /\ LET r == Head(replies) IN
       /\ ~Current(r)
       /\ Becomes(Taken(r))
       /\ replies' = Tail(replies)
    /\ UNCHANGED <<gu16SessionID, ws_poll, ws_rx, mem, picked, opened, data, owner, failed, orphaned, crossed>>

\* No data within the time: go on with the next socket.
ReplyTimeout ==
    /\ Taking
    /\ LET r == Head(replies) IN
       /\ Current(r) /\ r.status = "timeout"
       /\ \E chain \in Allocated(InUse), ok \in Outcomes :
            Becomes(StartRx(Taken(r), NextSuitable(r.sock), FALSE, chain, ok)) /\ Counts(ok)
       /\ replies' = Tail(replies)
    /\ UNCHANGED <<gu16SessionID, ws_poll, ws_rx, mem, picked, opened, data, owner, orphaned, crossed>>

\* The remote end has closed: the socket is not polled any more.
ReplyClosed ==
    /\ Taking
    /\ LET r == Head(replies) IN
       /\ Current(r) /\ r.status = "closed"
       /\ ws_poll' = [ws_poll EXCEPT ![r.sock] = FALSE]
       /\ \E chain \in Allocated(InUse), ok \in Outcomes :
            Becomes(StartRx(Taken(r), NextSuitable(r.sock), FALSE, chain, ok)) /\ Counts(ok)
       /\ replies' = Tail(replies)
    /\ UNCHANGED <<gu16SessionID, ws_rx, mem, picked, opened, data, owner, orphaned, crossed>>

\* The chain has been moved to the queue of a socket.
HandedOver(st) == [st EXCEPT !.rx_buf = NoChain]

\* There is a socket, and a buffer to read the data of the reply into.
Wanted(r) == Used(r.sock) /\ gastrSockets[r.sock].buf[1] # NoChain

\* The callback for a piece that is not the last asks for the next buffer.
Continued(r, ok) == StartRx(Taken(r), Suitable(r.sock), TRUE, NoChain, ok)

\* Socket_ReadSocketData with data for one mbuf, or for two: the first piece
\* goes to the buffer recorded for the socket, and the callback asks for the
\* next buffer; the last piece completes the packet.
ReplyData ==
    /\ Taking
    /\ LET r == Head(replies) IN
       /\ Current(r) /\ r.status = "data"
       /\ IF ~Wanted(r)
            THEN Becomes(Taken(r)) /\ UNCHANGED <<mem, ws_rx, failed>>    \* nobody reads it
            ELSE \E ok1, ok2 \in Outcomes :
                 LET s0 == Taken(r)
                     s1 == IF r.pieces = 1 THEN s0 ELSE Continued(r, ok1)
                     buf1 == s0.socks[r.sock].buf
                     buf2 == s1.socks[r.sock].buf
                 IN /\ mem' = [b \in DOMAIN mem |->
                                 IF b \in {buf1, buf2} THEN r.data ELSE mem[b]]
                    /\ ws_rx' = [ws_rx EXCEPT ![r.sock] = Append(@,
                            [chain |-> s1.rx_buf, len |-> s1.cur_buf[2],
                             pieces |-> r.pieces, data |-> r.data, owner |-> r.owner])]
                    /\ Counts(ok1 /\ ok2)
                    /\ \E chain \in Allocated(InUse) :
                        Becomes(StartRx(HandedOver(s1), Suitable(r.sock), FALSE, chain, ok2))
       /\ replies' = Tail(replies)
    /\ UNCHANGED <<gu16SessionID, ws_poll, picked, opened, data, owner, orphaned, crossed>>

\* A piece cannot be read: the rest is given up, and what the callback for the
\* first piece has done stays.  The buffer holds no whole piece then.
ReplyCut ==
    /\ Taking /\ HifFails
    /\ LET r == Head(replies) IN
       /\ Current(r) /\ r.status = "data" /\ Wanted(r)
       /\ \E n \in 1 .. r.pieces, ok \in Outcomes :
            LET s1 == IF n = 1 THEN Taken(r) ELSE Continued(r, ok) IN
            /\ mem' = [b \in DOMAIN mem |->
                    IF b = s1.socks[r.sock].buf THEN 0
                    ELSE IF b = gastrSockets[r.sock].buf THEN r.data ELSE mem[b]]
            /\ Becomes(s1)
       /\ replies' = Tail(replies)
    /\ failed' = TRUE
    /\ UNCHANGED <<gu16SessionID, ws_poll, ws_rx, picked, opened, data, owner, orphaned, crossed>>

-----------------------------------------------------------------------------
(* The application *)

\* gu16SessionID, which skips zero, the session of a closed socket.
NextSession == LET n == (gu16SessionID + 1) % SessionMod IN IF n = 0 THEN 1 ELSE n

\* winc1500_sock_create, then connect or bind: the socket will be polled.
Open ==
    /\ opened < MaxOpen
    /\ \E s \in Sock :
        /\ ~gastrSockets[s].used /\ \A t \in 0 .. s - 1 : gastrSockets[t].used
        /\ gastrSockets' = [gastrSockets EXCEPT ![s] =
                [Unused EXCEPT !.used = TRUE, !.session = NextSession]]
        /\ gu16SessionID' = NextSession
        /\ ws_poll' = [ws_poll EXCEPT ![s] = TRUE]
        /\ owner' = [owner EXCEPT ![s] = opened + 1]
    /\ opened' = opened + 1
    /\ UNCHANGED <<ws_rx, driver, mem, picked, asked, replies, data, failed, orphaned, crossed>>

\* close: the chip forgets what it was asked for the socket, if it hears of the
\* closing.
Forgotten(s, ok) == IF ok THEN {q \in asked : q.sock # s} ELSE asked

\* winc1500_sock_close.
Close(s) ==
    /\ "close" \in Ops /\ gastrSockets[s].used
    /\ gastrSockets' = [gastrSockets EXCEPT ![s] = Unused]
    /\ ws_poll' = [ws_poll EXCEPT ![s] = FALSE]
    /\ ws_rx' = [ws_rx EXCEPT ![s] = <<>>]
    /\ \E ok \in Outcomes : asked' = Forgotten(s, ok) /\ Counts(ok)
    /\ orphaned' = (orphaned \/ gastrSockets[s].pending \/ picked = s)
    /\ UNCHANGED <<gu16SessionID, driver, mem, picked, replies, opened, data, owner, crossed>>

\* winc1500_sock_recvfrom; the application frees the packet.
SockRecvfrom(s) ==
    /\ "recvfrom" \in Ops /\ gastrSockets[s].used /\ ws_rx[s] # <<>>
    /\ ws_rx' = [ws_rx EXCEPT ![s] = Tail(@)]
    /\ UNCHANGED <<gastrSockets, gu16SessionID, ws_poll, driver, mem, picked, asked,
                   replies, opened, data, owner, failed, orphaned, crossed>>

-----------------------------------------------------------------------------
(* The chip *)

Reply(q, status, n) ==
    /\ asked' = asked \ {q}
    /\ replies' = Append(replies, [sock |-> q.sock, session |-> q.session,
            owner |-> q.owner, status |-> status, pieces |-> n, data |-> data + 1])
    /\ UNCHANGED <<gastrSockets, gu16SessionID, ws_poll, ws_rx, driver, mem, picked,
                   opened, owner, failed, orphaned, crossed>>

Answers ==
    \E q \in asked :
        \/ Reply(q, "timeout", 1) /\ UNCHANGED data
        \/ Reply(q, "closed", 1) /\ UNCHANGED data
        \/ /\ data < MaxData
           /\ data' = data + 1
           /\ \E n \in 1 .. Pieces : Reply(q, "data", n)

-----------------------------------------------------------------------------

Events ==
    \/ ReplyUnread \/ ReplyDiscarded \/ ReplyTimeout \/ ReplyClosed
    \/ ReplyData \/ ReplyCut

Next ==
    \/ Poll \/ PollAsks \/ Events \/ Answers \/ Open
    \/ \E s \in Sock : Close(s) \/ SockRecvfrom(s)

Spec == Init /\ [][Next]_vars

\* The Wi-Fi task's timer fires again and again, the chip answers what it is
\* asked, and the application takes what it received.
FairSpec ==
    /\ Spec
    /\ WF_vars(Poll) /\ WF_vars(PollAsks) /\ WF_vars(Events) /\ WF_vars(Answers)
    /\ \A s \in Sock : WF_vars(SockRecvfrom(s))

-----------------------------------------------------------------------------
(* Properties *)

Packets(s) == {ws_rx[s][i] : i \in 1 .. Len(ws_rx[s])}

\* A packet in a socket's queue is for this incarnation of the socket: the
\* data of a reply that was on its way when the socket was closed and its
\* number given away again reaches nobody, until gu16SessionID comes round.
RightOwner ==
    opened < SessionMod => \A s \in Sock : \A p \in Packets(s) : p.owner = owner[s]

\* No mbuf chain is in two places.
NoSharing ==
    /\ \A s, t \in Sock : \A i \in 1 .. Len(ws_rx[s]), j \in 1 .. Len(ws_rx[t]) :
          ws_rx[s][i].chain = ws_rx[t][j].chain => s = t /\ i = j
    /\ \A s \in Sock : \A p \in Packets(s) : p.chain # rx_buf

\* A packet in a queue has its mbuf chain for itself, and holds the data of
\* the response it was queued for, all of it, for as long as it is queued: no
\* later reply is written over it.
\* Two things undo the latter.  A poll for another socket once flow control
\* ends: the request that was held up still points into the queued chain.  And a
\* failure of hif_send or hif_receive between two pieces: the next reply is
\* queued with what was read before.
DataIntact ==
    /\ NoSharing
    /\ ~crossed /\ ~failed => \A s \in Sock : \A p \in Packets(s) :
        /\ p.chain # NoChain /\ p.len = p.pieces
        /\ \A i \in 1 .. p.len : mem[<<p.chain, i>>] = p.data

\* At most one request is with the chip or its reply on the way, whatever
\* socket it is for, and while it is awaited the driver knows that it is
\* polling, or it stopped for want of a buffer.  A second one is made only by a
\* poll that crosses a request held up by flow control or left behind by a
\* closed socket.
OneRequest ==
    ~crossed => /\ Cardinality(asked) + Len(replies) <= 1
                /\ (\E q \in Out : Live(q)) /\ picked = -1 => polling \/ gu8FlowCtrl

\* Every socket that is to be polled is polled again and again, by a request
\* that is really with the chip: no poll is waited for that never ends, and no
\* socket keeps the others from their turn once its own data is read.  The
\* exceptions are the two that lose the request and leave polling set: a socket
\* closed while it is asked for, and a failure of hif_send or hif_receive.
EachPolled ==
    \A s \in Sock :
        []<>(failed \/ orphaned \/ (ws_poll[s] =>
                \E q \in asked : q.sock = s /\ q.session = gastrSockets[s].session))
=============================================================================
