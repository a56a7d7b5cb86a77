------------------------- MODULE WincSocketRxProofs -------------------------
(***************************************************************************)
(* Proofs about the receive side of the WINC1500 sockets, for any number   *)
(* of sockets, mbuf chains, incarnations and replies.                      *)
(*                                                                         *)
(* First what each call of the receive path does to the state it works on, *)
(* field by field; then the effect of each action in terms of the          *)
(* variables; then the invariant, one conjunct after the other.            *)
(***************************************************************************)
EXTENDS WincSocketRx, WellFoundedInduction, FiniteSetTheorems, SequenceTheorems, TLAPS

-----------------------------------------------------------------------------
(* Types *)

Chain == Chains \cup {NoChain}
Socket == [used : BOOLEAN, session : Nat, pending : BOOLEAN, buf : Chain \X Nat]
\* Whether a number is free for a request is a matter of counting, and of no
\* account here: the least of none is no matter what.
Copies == Nat \cup {Min({})}
Requests == [sock : Sock, session : Nat, owner : Nat, copy : Copies]
Answer == [sock : Sock, session : Nat, owner : Nat, status : {"timeout", "closed", "data"},
           pieces : {1, 2}, data : Nat]
Packet == [chain : Chain, len : Nat, pieces : {1, 2}, data : Nat, owner : Nat]
RxState == [socks : [Sock -> Socket], polling : BOOLEAN, rx_buf : Chain,
            cur_buf : Chain \X Nat, flow : BOOLEAN, asked : SUBSET Requests]

TypeOK ==
    /\ gastrSockets \in [Sock -> Socket] /\ gu16SessionID \in Nat
    /\ ws_poll \in [Sock -> BOOLEAN] /\ ws_rx \in [Sock -> Seq(Packet)]
    /\ polling \in BOOLEAN /\ rx_buf \in Chain /\ cur_buf \in Chain \X Nat
    /\ gu8FlowCtrl \in BOOLEAN
    /\ mem \in [Chains \X {1, 2} -> Nat]
    /\ picked \in Sock \cup {-1}
    /\ asked \subseteq Requests /\ replies \in Seq(Answer)
    /\ opened \in Nat /\ data \in Nat /\ owner \in [Sock -> Nat]

\* A nonempty set of naturals has a least element.
LEMMA LeastNat ==
    ASSUME NEW T, T \subseteq Nat, T # {}
    PROVE  \E x \in T : \A y \in T : x <= y
<1> DEFINE R == {ss \in Nat \X Nat : ss[1] < ss[2]}
<1>1. OpToRel(<, Nat) = R
  BY Zenon DEF OpToRel
<1>2. IsWellFoundedOn(R, Nat)
  BY <1>1, NatLessThanWellFounded, Zenon
<1>3. \A x, y \in Nat : <<y, x>> \in R <=> y < x
  OBVIOUS
<1> HIDE DEF R
<1>4. \E x \in T : \A y \in T : ~(<<y, x>> \in R)
  BY <1>2, WFMin
<1>5. PICK x \in T : \A y \in T : ~(<<y, x>> \in R)
  BY <1>4
<1>6. ASSUME NEW y \in T PROVE x <= y
  <2>1. x \in Nat /\ y \in Nat /\ ~(<<y, x>> \in R)
    BY <1>5
  <2>2. ~(y < x)
    BY <2>1, <1>3, Zenon
  <2>3. QED
    BY <2>1, <2>2
<1>7. QED
  BY <1>6

\* Min of FiniteSetsExt is that element.
LEMMA MinIs ==
    ASSUME NEW T, T \subseteq Nat, T # {}
    PROVE  Min(T) \in T /\ \A y \in T : Min(T) <= y
<1>1. \E x \in T : \A y \in T : x <= y
  BY LeastNat
<1>2. QED
  BY <1>1 DEF Min

\* os_msys_get_pkthdr returns nothing or a chain nobody holds.
LEMMA AllocatedIs ==
    ASSUME NEW used, NEW chain \in Allocated(used)
    PROVE  chain = NoChain \/ (chain \in Chains /\ chain \notin used)
<1>1. CASE Chains \subseteq used
  BY <1>1 DEF Allocated
<1>2. CASE ~(Chains \subseteq used)
  <2>1. Chains \ used # {} /\ Chains \ used \subseteq Nat
    BY <1>2, RxAssumption
  <2>2. Min(Chains \ used) \in Chains \ used
    BY <2>1, MinIs
  <2>3. QED
    BY <1>2, <2>2 DEF Allocated
<1>3. QED
  BY <1>1, <1>2

\* What there is to receive into when winc1500_sock_start_rx goes on.
LEMMA WithBufferIs ==
    ASSUME NEW st \in RxState, NEW chain \in Chain
    PROVE  LET u == WithBuffer(st, chain) IN
           /\ u \in RxState
           /\ u.socks = st.socks /\ u.cur_buf = st.cur_buf /\ u.asked = st.asked
           /\ ~u.polling
           /\ u.rx_buf = IF st.rx_buf # NoChain THEN st.rx_buf ELSE chain
           /\ u.flow <=> u.rx_buf = NoChain
<1>1. CASE st.rx_buf # NoChain
  BY <1>1 DEF WithBuffer, RxState
<1>2. CASE st.rx_buf = NoChain /\ chain = NoChain
  BY <1>2 DEF WithBuffer, RxState
<1>3. CASE st.rx_buf = NoChain /\ chain # NoChain
  BY <1>3 DEF WithBuffer, RxState
<1>4. QED
  BY <1>1, <1>2, <1>3

\* q is a request for socket s as it is in socks.
IsReq(q, socks, s) ==
    q.sock = s /\ q.session = socks[s].session /\ q.owner = owner[s]

\* The request recvfrom sends for socket s.
LEMMA RequestIs ==
    ASSUME NEW st \in RxState, NEW s \in Sock, owner \in [Sock -> Nat]
    PROVE  LET q == Request(st, s, Copy(st, s)) IN
           q \in Requests /\ IsReq(q, st.socks, s)
<1> DEFINE T == {n \in 1 .. Cardinality(st.asked) + 1 : Request(st, s, n) \notin st.asked}
<1>1. T \subseteq Nat
  OBVIOUS
<1>2. Copy(st, s) = Min(T)
  BY DEF Copy
<1> HIDE DEF T
<1>3. Copy(st, s) \in Copies
  <2>1. CASE T = {}
    BY <1>2, <2>1 DEF Copies
  <2>2. CASE T # {}
    BY <1>1, <1>2, <2>2, MinIs DEF Copies
  <2>3. QED
    BY <2>1, <2>2
<1>4. PICK n \in Copies : n = Copy(st, s)
  BY <1>3
<1>5. Request(st, s, n) \in Requests
  BY DEF Request, Requests, RxState, Socket
<1>6. IsReq(Request(st, s, n), st.socks, s)
  BY DEF Request, IsReq
<1>7. QED
  BY <1>4, <1>5, <1>6

\* What is asked for after socket s has been asked for.
Adds(st, u, s, ok) ==
    IF st.socks[s].pending \/ ~ok THEN u.asked = st.asked
    ELSE \E q : IsReq(q, st.socks, s) /\ u.asked = st.asked \cup {q}

\* What recvfrom changes for a socket in use, field by field.
LEMMA RecvfromIs ==
    ASSUME NEW st \in RxState, NEW s \in Sock, NEW buf \in Chain \X Nat, NEW ok,
           st.socks[s].used, owner \in [Sock -> Nat]
    PROVE  LET u == Recvfrom(st, s, buf, ok) IN
           /\ u \in RxState
           /\ \A t \in Sock : t # s => u.socks[t] = st.socks[t]
           /\ u.socks[s].used /\ u.socks[s].session = st.socks[s].session
           /\ u.socks[s].pending /\ u.socks[s].buf = buf
           /\ u.polling = st.polling
           /\ u.rx_buf = st.rx_buf /\ u.cur_buf = st.cur_buf /\ u.flow = st.flow
           /\ Adds(st, u, s, ok)
<1>1. CASE st.socks[s].pending \/ ~ok
  BY <1>1 DEF Recvfrom, RxState, Socket, Adds
<1>2. CASE ~(st.socks[s].pending \/ ~ok)
  <2>1. PICK q \in Requests : q = Request(st, s, Copy(st, s)) /\ IsReq(q, st.socks, s)
    BY RequestIs
  <2> DEFINE k == [st.socks[s] EXCEPT !.buf = buf, !.pending = TRUE]
             socks == [st.socks EXCEPT ![s] = k]
  <2>2. st.socks[s] \in Socket /\ st.socks \in [Sock -> Socket] /\ st.asked \subseteq Requests
    BY DEF RxState
  <2>3. /\ k \in Socket /\ k.used = st.socks[s].used /\ k.session = st.socks[s].session
        /\ k.pending /\ k.buf = buf
    BY <2>2 DEF Socket
  <2>4. Recvfrom(st, s, buf, ok) = [st EXCEPT !.socks = socks, !.asked = st.asked \cup {q}]
    BY <1>2, <2>1, <2>2 DEF Recvfrom, RxState, Socket
  <2> HIDE DEF k
  <2>5. /\ socks \in [Sock -> Socket] /\ socks[s] = k
        /\ \A t \in Sock : t # s => socks[t] = st.socks[t]
    BY <2>2, <2>3
  <2> HIDE DEF socks
  <2>6. PICK u : u = Recvfrom(st, s, buf, ok)
    OBVIOUS
  <2>7. PICK A : A = st.asked \cup {q}
    OBVIOUS
  <2>8. u = [st EXCEPT !.socks = socks, !.asked = A]
    BY <2>4, <2>6, <2>7
  <2>9. A \in SUBSET Requests
    BY <2>1, <2>2, <2>7
  <2>10. u \in RxState
    BY <2>8, <2>9, <2>5 DEF RxState
  <2>11. /\ u.socks = socks /\ u.polling = st.polling /\ u.asked = A
        /\ u.rx_buf = st.rx_buf /\ u.cur_buf = st.cur_buf /\ u.flow = st.flow
    BY <2>8 DEF RxState
  <2>12. Adds(st, u, s, ok)
    BY <1>2, <2>1, <2>7, <2>11 DEF Adds
  <2>13. QED
    BY <2>6, <2>10, <2>11, <2>12, <2>3, <2>5
<1>3. QED
  BY <1>1, <1>2

\* What asking for socket s changes.
Asks(st, u, s, buf, ok) ==
    /\ \A t \in Sock : t # s => u.socks[t] = st.socks[t]
    /\ u.socks[s].used /\ u.socks[s].session = st.socks[s].session
    /\ u.socks[s].pending /\ u.socks[s].buf = buf
    /\ Adds(st, u, s, ok)
    /\ st.socks[s].pending \/ ok => u.polling /\ u.cur_buf = buf

\* What asking for a socket changes, for a new packet or a next piece.
LEMMA AskForIs ==
    ASSUME NEW st \in RxState, NEW s \in Sock, NEW cont \in BOOLEAN, NEW ok,
           st.socks[s].used, owner \in [Sock -> Nat]
    PROVE  /\ AskFor(st, s, cont, ok) \in RxState
           /\ AskFor(st, s, cont, ok).rx_buf = st.rx_buf
           /\ AskFor(st, s, cont, ok).flow = st.flow
           /\ Asks(st, AskFor(st, s, cont, ok), s,
                   IF cont THEN <<st.cur_buf[1], st.cur_buf[2] + 1>> ELSE <<st.rx_buf, 1>>, ok)
<1> DEFINE buf == IF cont THEN <<st.cur_buf[1], st.cur_buf[2] + 1>> ELSE <<st.rx_buf, 1>>
           s1 == Recvfrom(st, s, buf, ok)
           u == AskFor(st, s, cont, ok)
<1>1. buf \in Chain \X Nat
  BY DEF RxState
<1>2. u = IF RecvRc(st, s, ok) = 0 THEN [s1 EXCEPT !.cur_buf = buf, !.polling = TRUE] ELSE s1
  BY DEF AskFor
<1> HIDE DEF buf, u
<1>3. /\ s1 \in RxState
      /\ \A t \in Sock : t # s => s1.socks[t] = st.socks[t]
      /\ s1.socks[s].used /\ s1.socks[s].session = st.socks[s].session
      /\ s1.socks[s].pending /\ s1.socks[s].buf = buf
      /\ s1.rx_buf = st.rx_buf /\ s1.cur_buf = st.cur_buf /\ s1.flow = st.flow
      /\ Adds(st, s1, s, ok)
  BY <1>1, RecvfromIs
<1> HIDE DEF s1
<1>4. CASE st.socks[s].pending \/ ok
  <2>1. u = [s1 EXCEPT !.cur_buf = buf, !.polling = TRUE]
    BY <1>2, <1>4 DEF RecvRc
  <2>2. /\ u \in RxState /\ u.socks = s1.socks /\ u.rx_buf = s1.rx_buf /\ u.flow = s1.flow
        /\ u.asked = s1.asked /\ u.polling /\ u.cur_buf = buf
    BY <2>1, <1>3, <1>1 DEF RxState
  <2>3. u \in RxState /\ u.rx_buf = st.rx_buf /\ u.flow = st.flow /\ Asks(st, u, s, buf, ok)
    BY <2>2, <1>3, <1>4 DEF Asks, Adds
  <2>4. QED
    BY <2>3 DEF u, buf
<1>5. CASE ~(st.socks[s].pending \/ ok)
  <2>1. u = s1
    BY <1>2, <1>5 DEF RecvRc
  <2>2. u \in RxState /\ u.rx_buf = st.rx_buf /\ u.flow = st.flow /\ Asks(st, u, s, buf, ok)
    BY <2>1, <1>3, <1>5 DEF Asks
  <2>3. QED
    BY <2>2 DEF u, buf
<1>6. QED
  BY <1>4, <1>5

\* The outcome of winc1500_sock_start_rx.
StartsRx(st, u, polled, cont, chain, ok) ==
    /\ u.rx_buf = IF st.rx_buf # NoChain THEN st.rx_buf ELSE chain
    /\ u.flow <=> u.rx_buf = NoChain
    /\ u.rx_buf = NoChain \/ polled = {} =>
         u.socks = st.socks /\ u.asked = st.asked /\ u.cur_buf = st.cur_buf /\ ~u.polling
    /\ u.rx_buf # NoChain /\ polled # {} =>
         /\ Min(polled) \in polled /\ \A t \in polled : Min(polled) <= t
         /\ Asks(st, u, Min(polled),
              IF cont THEN <<st.cur_buf[1], st.cur_buf[2] + 1>> ELSE <<u.rx_buf, 1>>, ok)

\* winc1500_sock_start_rx does what StartsRx says.
LEMMA StartRxIs ==
    ASSUME NEW st \in RxState, NEW polled \in SUBSET Sock, NEW cont \in BOOLEAN,
           NEW chain \in Chain, NEW ok,
           \A s \in polled : st.socks[s].used, owner \in [Sock -> Nat]
    PROVE  /\ StartRx(st, polled, cont, chain, ok) \in RxState
           /\ StartsRx(st, StartRx(st, polled, cont, chain, ok), polled, cont, chain, ok)
<1> DEFINE s1 == WithBuffer(st, chain)
           u == StartRx(st, polled, cont, chain, ok)
<1>1. /\ s1 \in RxState
      /\ s1.socks = st.socks /\ s1.cur_buf = st.cur_buf /\ s1.asked = st.asked
      /\ ~s1.polling
      /\ s1.rx_buf = IF st.rx_buf # NoChain THEN st.rx_buf ELSE chain
      /\ s1.flow <=> s1.rx_buf = NoChain
  BY WithBufferIs
<1>2. u = IF s1.rx_buf = NoChain \/ polled = {} THEN s1 ELSE AskFor(s1, Min(polled), cont, ok)
  BY DEF StartRx
<1> HIDE DEF s1, u
<1>3. CASE s1.rx_buf = NoChain \/ polled = {}
  <2>1. u \in RxState /\ StartsRx(st, u, polled, cont, chain, ok)
    BY <1>1, <1>2, <1>3 DEF StartsRx
  <2>2. QED
    BY <2>1 DEF u
<1>4. CASE s1.rx_buf # NoChain /\ polled # {}
  <2> DEFINE m == Min(polled)
             buf == IF cont THEN <<s1.cur_buf[1], s1.cur_buf[2] + 1>> ELSE <<s1.rx_buf, 1>>
  <2>1. polled \subseteq Nat
    BY RxAssumption DEF Sock
  <2>2. m \in polled /\ \A t \in polled : m <= t
    BY <2>1, <1>4, MinIs
  <2>3. m \in Sock /\ s1.socks[m].used
    BY <2>2, <1>1
  <2> HIDE DEF m
  <2>4. u = AskFor(s1, m, cont, ok)
    BY <1>2, <1>4 DEF m
  <2>5. /\ u \in RxState /\ u.rx_buf = s1.rx_buf /\ u.flow = s1.flow
        /\ Asks(s1, u, m, buf, ok)
    BY <2>4, <2>3, <1>1, AskForIs
  <2> HIDE DEF buf
  <2>6. Asks(st, u, m, buf, ok)
    BY <2>5, <1>1 DEF Asks, Adds, IsReq
  <2>7. buf = IF cont THEN <<st.cur_buf[1], st.cur_buf[2] + 1>> ELSE <<u.rx_buf, 1>>
    BY <2>5, <1>1 DEF buf
  <2>8. u \in RxState /\ StartsRx(st, u, polled, cont, chain, ok)
    BY <2>2, <2>5, <2>6, <2>7, <1>1, <1>4 DEF StartsRx, m
  <2>9. QED
    BY <2>8 DEF u
<1>5. QED
  BY <1>3, <1>4

-----------------------------------------------------------------------------
(* The invariant *)

\* No two sockets have the same incarnation, what is out belongs to one
\* socket, and a socket that is not in use is not polled and has no packets.
Owners ==
    /\ \A s \in Sock : owner[s] \in 0 .. opened /\ (Used(s) => owner[s] > 0)
    /\ \A s, t \in Sock : s # t /\ owner[s] = owner[t] => owner[s] = 0
    /\ \A q \in Out : /\ q.owner \in 1 .. opened
                      /\ \A t \in Sock : q.owner = owner[t] => t = q.sock
    /\ \A s \in Sock : ~Used(s) => ws_rx[s] = <<>> /\ ~ws_poll[s]
    /\ picked # -1 /\ Used(picked) => ws_poll[picked]

\* Until it comes round, the session number is the incarnation.
Sessions ==
    opened < SessionMod =>
        /\ gu16SessionID = opened
        /\ \A s \in Sock : Used(s) => gastrSockets[s].session = owner[s]
        /\ \A q \in Out : q.session = q.owner
        /\ RightOwner

\* One request or reply is out, its socket is marked pending if it is still
\* the one that asked, and a poll under way is for the same socket.
One ==
    /\ \A q, p \in asked : q = p
    /\ Len(replies) <= 1 /\ (asked = {} \/ replies = <<>>)
    /\ \A q \in Out : Live(q) => gastrSockets[q.sock].pending /\ ws_poll[q.sock]
    /\ picked # -1 => \A q \in Out : Live(q) => q.owner = owner[picked]
    /\ picked = -1 /\ (\E q \in Out : Live(q)) => polling \/ gu8FlowCtrl

\* There is a chain to receive into, or flow control, whenever a reply may be
\* taken; and no chain is in two places.
Chained ==
    /\ \A s \in Sock : \A p \in Packets(s) : p.chain \in Chains
    /\ rx_buf # NoChain \/ gu8FlowCtrl \/ (picked = -1 /\ Out = {})
    /\ NoSharing

\* A reply nobody waits for finds no buffer; the one that is waited for finds
\* the first mbuf of the chain.
Buffers ==
    /\ \A q \in Out : ~Live(q) => gastrSockets[q.sock].buf = <<NoChain, 0>>
    /\ picked = -1 /\ ~gu8FlowCtrl => \A q \in Out : Live(q) =>
            gastrSockets[q.sock].buf = <<rx_buf, 1>> /\ cur_buf = <<rx_buf, 1>>

\* Each queued packet holds the data of its reply.
Whole ==
    \A s \in Sock : \A p \in Packets(s) :
        /\ p.chain # NoChain /\ p.len = p.pieces
        /\ \A i \in 1 .. p.len : mem[<<p.chain, i>>] = p.data

Inv ==
    /\ TypeOK /\ Owners /\ Sessions /\ Chained
    /\ ~crossed => One
    /\ ~crossed /\ ~failed => Buffers /\ Whole

-----------------------------------------------------------------------------
(* The effects of the actions *)

\* The state of the receive path is well typed when the variables are.
LEMMA StateIs ==
    ASSUME TypeOK
    PROVE  /\ State \in RxState
           /\ State.socks = gastrSockets /\ State.polling = polling /\ State.rx_buf = rx_buf
           /\ State.cur_buf = cur_buf /\ State.flow = gu8FlowCtrl /\ State.asked = asked
  BY DEF TypeOK, State, RxState

\* The variables are well typed when the state they become is.
LEMMA BecomesIs ==
    ASSUME NEW u \in RxState, Becomes(u)
    PROVE  /\ gastrSockets' \in [Sock -> Socket] /\ polling' \in BOOLEAN
           /\ rx_buf' \in Chain /\ cur_buf' \in Chain \X Nat
           /\ gu8FlowCtrl' \in BOOLEAN /\ asked' \subseteq Requests
  BY DEF Becomes, RxState

\* What os_msys_get_pkthdr may return.
Fresh(chain) == chain = NoChain \/ (chain \in Chains /\ chain \notin InUse)

\* What winc1500_socket_poll changes before it asks for a socket.
PollEffect ==
    /\ UNCHANGED <<gastrSockets, cur_buf, asked, replies, gu16SessionID, ws_poll, ws_rx, mem,
                   opened, data, owner, failed>>
    /\ IF rx_buf # NoChain THEN rx_buf' = rx_buf ELSE Fresh(rx_buf')
    /\ gu8FlowCtrl' <=> rx_buf' = NoChain
    /\ picked' = -1 => rx_buf' = NoChain \/ \A s \in Sock : ~ws_poll[s]
    /\ picked' # -1 => picked' \in Sock /\ ws_poll[picked']
    /\ crossed => crossed'
    /\ picked = -1 /\ ~polling
    /\ picked' # -1 /\ ~crossed' =>
         \A q \in Out : q.owner = owner[picked'] \/ (~gu8FlowCtrl /\ Live(q))

\* Poll has that effect, and keeps the types.
LEMMA PollIs ==
    ASSUME TypeOK, Poll
    PROVE  TypeOK' /\ PollEffect
<1>1. PICK chain \in Allocated(InUse) :
        /\ Becomes(WithBuffer(State, chain))
        /\ picked' = IF WithBuffer(State, chain).rx_buf = NoChain \/ Suitable(0) = {}
                     THEN -1 ELSE Min(Suitable(0))
  BY DEF Poll
<1>2. Fresh(chain) /\ chain \in Chain
  BY AllocatedIs DEF Fresh, Chain
<1> DEFINE u == WithBuffer(State, chain)
<1>3. /\ u \in RxState
      /\ u.socks = gastrSockets /\ u.cur_buf = cur_buf /\ u.asked = asked
      /\ u.rx_buf = IF rx_buf # NoChain THEN rx_buf ELSE chain
      /\ u.flow <=> u.rx_buf = NoChain
  BY <1>2, StateIs, WithBufferIs
<1>4. Becomes(u) /\ picked' = IF u.rx_buf = NoChain \/ Suitable(0) = {} THEN -1 ELSE Min(Suitable(0))
  BY <1>1
<1> HIDE DEF u
<1>5. UNCHANGED <<gu16SessionID, ws_poll, ws_rx, mem, replies, opened, data, owner, failed>>
  BY DEF Poll
<1>6. /\ crossed => crossed'
      /\ picked = -1 /\ ~polling
      /\ picked' # -1 /\ ~crossed' =>
           \A q \in Out : q.owner = owner[picked'] \/ (~gu8FlowCtrl /\ Live(q))
  BY DEF Poll, Crosses
<1>7. /\ gastrSockets' = gastrSockets /\ cur_buf' = cur_buf /\ asked' = asked
      /\ rx_buf' = u.rx_buf /\ (gu8FlowCtrl' <=> u.flow)
  BY <1>3, <1>4 DEF Becomes
<1>8. Suitable(0) = {} => \A s \in Sock : ~ws_poll[s]
  BY RxAssumption DEF Suitable, Sock
<1>9. Suitable(0) # {} => Min(Suitable(0)) \in Sock /\ ws_poll[Min(Suitable(0))]
  <2>1. Suitable(0) \subseteq Nat
    BY RxAssumption DEF Suitable, Sock
  <2>2. Suitable(0) # {} => Min(Suitable(0)) \in Suitable(0)
    BY <2>1, MinIs
  <2>3. QED
    BY <2>2 DEF Suitable
<1>10. /\ picked' = -1 => rx_buf' = NoChain \/ \A s \in Sock : ~ws_poll[s]
       /\ picked' # -1 => picked' \in Sock /\ ws_poll[picked']
  <2>1. CASE u.rx_buf = NoChain \/ Suitable(0) = {}
    BY <2>1, <1>4, <1>7, <1>8
  <2>2. CASE ~(u.rx_buf = NoChain \/ Suitable(0) = {})
    <3>1. picked' = Min(Suitable(0)) /\ picked' \in Sock /\ ws_poll[picked']
      BY <2>2, <1>4, <1>9
    <3>2. picked' # -1
      BY <3>1, RxAssumption DEF Sock
    <3>3. QED
      BY <3>1, <3>2
  <2>3. QED
    BY <2>1, <2>2
<1>11. PollEffect
  BY <1>2, <1>3, <1>5, <1>6, <1>7, <1>10 DEF PollEffect
<1>12. TypeOK'
  <2>1. picked' \in Sock \cup {-1}
    BY <1>10
  <2>2. QED
    BY <1>3, <1>4, <1>5, <2>1, BecomesIs DEF TypeOK
<1>13. QED
  BY <1>11, <1>12

\* Nothing is asked for a socket that is not in use.
LEMMA AskForUnused ==
    ASSUME NEW st \in RxState, NEW s \in Sock, NEW cont, NEW ok, ~st.socks[s].used
    PROVE  AskFor(st, s, cont, ok) = st
  BY DEF AskFor, Recvfrom, RecvRc

\* What recvfrom changes when the poll asks for the socket it picked.
PollAsksEffect ==
    /\ UNCHANGED <<rx_buf, gu8FlowCtrl, replies, gu16SessionID, ws_poll, ws_rx, mem, opened,
                   data, owner>>
    /\ picked' = -1
    /\ (crossed => crossed') /\ (failed => failed')
    /\ ~crossed' => \A q \in Out : q.owner = owner[picked] \/ (~gu8FlowCtrl /\ Live(q))
    /\ ~Used(picked) => UNCHANGED <<gastrSockets, asked>>
    /\ Used(picked) =>
        \E ok \in Outcomes : /\ ~failed' => ok
                             /\ Asks(State, State', picked, <<rx_buf, 1>>, ok)

\* PollAsks has that effect, and keeps the types.
LEMMA PollAsksIs ==
    ASSUME TypeOK, PollAsks
    PROVE  TypeOK' /\ PollAsksEffect
<1>1. PICK ok \in Outcomes : Becomes(AskFor(State, picked, FALSE, ok)) /\ Counts(ok)
  BY DEF PollAsks
<1> DEFINE u == AskFor(State, picked, FALSE, ok)
<1>2. picked \in Sock
  BY DEF PollAsks, TypeOK
<1>3. owner \in [Sock -> Nat]
  BY DEF TypeOK
<1>4. Becomes(u)
  BY <1>1
<1>5. Used(picked) =>
        /\ u \in RxState /\ u.rx_buf = rx_buf /\ u.flow = gu8FlowCtrl
        /\ Asks(State, u, picked, <<rx_buf, 1>>, ok)
  <2> SUFFICES ASSUME Used(picked)
               PROVE  /\ u \in RxState /\ u.rx_buf = rx_buf /\ u.flow = gu8FlowCtrl
                      /\ Asks(State, u, picked, <<rx_buf, 1>>, ok)
    OBVIOUS
  <2>1. State.socks[picked].used
    BY StateIs DEF Used
  <2>2. /\ u \in RxState /\ u.rx_buf = State.rx_buf /\ u.flow = State.flow
        /\ Asks(State, u, picked,
              IF FALSE THEN <<State.cur_buf[1], State.cur_buf[2] + 1>> ELSE <<State.rx_buf, 1>>, ok)
    BY <1>2, <1>3, <2>1, StateIs, AskForIs
  <2> HIDE DEF u
  <2>3. QED
    BY <2>2, StateIs
<1>6. ~Used(picked) => u = State
  BY <1>2, StateIs, AskForUnused DEF Used
<1> HIDE DEF u
<1>7. /\ UNCHANGED <<replies, gu16SessionID, ws_poll, ws_rx, mem, opened, data, owner>>
      /\ picked' = -1
      /\ crossed => crossed'
      /\ ~crossed' => \A q \in Out : q.owner = owner[picked] \/ (~gu8FlowCtrl /\ Live(q))
  BY DEF PollAsks, Crosses
<1>8. (failed => failed') /\ (~failed' => ok)
  BY <1>1 DEF Counts
<1>9. u \in RxState
  BY <1>5, <1>6, StateIs
<1>10. TypeOK'
  BY <1>4, <1>7, <1>9, BecomesIs DEF TypeOK
<1>11. UNCHANGED <<rx_buf, gu8FlowCtrl>>
  BY <1>4, <1>5, <1>6, StateIs DEF Becomes
<1>12. ~Used(picked) => UNCHANGED <<gastrSockets, asked>>
  BY <1>4, <1>6, StateIs DEF Becomes
<1>13. Used(picked) => Asks(State, State', picked, <<rx_buf, 1>>, ok)
  <2>1. /\ State'.socks = u.socks /\ State'.polling = u.polling
        /\ State'.cur_buf = u.cur_buf /\ State'.asked = u.asked
    BY <1>4 DEF Becomes, State
  <2>2. QED
    BY <2>1, <1>5 DEF Asks, Adds
<1>14. QED
  BY <1>7, <1>8, <1>10, <1>11, <1>12, <1>13 DEF PollAsksEffect

-----------------------------------------------------------------------------
(* The effects of the replies *)

\* A sequence of one element has an empty tail and its head in it.
LEMMA OneElement ==
    ASSUME NEW S, NEW q \in Seq(S), q # <<>>, Len(q) <= 1
    PROVE  Tail(q) = <<>> /\ \A x \in ToSet(q) : x = Head(q)
<1>1. Len(q) \in Nat /\ Len(q) # 0
  OBVIOUS
<1>2. Len(q) = 1
  BY <1>1
<1>3. Tail(q) = <<>>
  <2>1. Tail(q) \in Seq(S) /\ Len(Tail(q)) = 0
    BY <1>2, HeadTailProperties
  <2>2. QED
    BY <2>1, EmptySeq
<1>4. \A x \in ToSet(q) : x = Head(q)
  BY <1>2 DEF ToSet
<1>5. QED
  BY <1>3, <1>4

\* Clearing bIsRecvPending touches nothing else of a socket.
LEMMA NotPending ==
    ASSUME NEW k \in Socket
    PROVE  LET u == [k EXCEPT !.pending = FALSE] IN
           /\ u \in Socket
           /\ (u.used <=> k.used) /\ u.session = k.session /\ u.buf = k.buf /\ ~u.pending
<1>1. [k EXCEPT !.pending = FALSE] \in Socket
  BY DEF Socket
<1> DEFINE u == [k EXCEPT !.pending = FALSE]
<1>2. u.used = k.used /\ u.session = k.session /\ u.buf = k.buf /\ ~u.pending
  BY DEF Socket
<1>3. QED
  BY <1>1, <1>2

\* The reply that is taken, and those that are left.
LEMMA HeadReply ==
    ASSUME TypeOK, replies # <<>>
    PROVE  /\ Head(replies) \in Answer /\ Head(replies) \in ToSet(replies)
           /\ Tail(replies) \in Seq(Answer)
           /\ ToSet(Tail(replies)) \subseteq ToSet(replies)
           /\ Len(replies) <= 1 => Tail(replies) = <<>> /\ \A q \in ToSet(replies) : q = Head(replies)
<1>1. replies \in Seq(Answer)
  BY DEF TypeOK
<1>2. Len(replies) \in Nat \ {0}
  BY <1>1
<1>3. Head(replies) = replies[1] /\ 1 \in DOMAIN replies
  BY <1>1, <1>2
<1>4. Head(replies) \in Answer /\ Head(replies) \in ToSet(replies)
  BY <1>1, <1>2, <1>3 DEF ToSet
<1>5. /\ Tail(replies) \in Seq(Answer) /\ Len(Tail(replies)) = Len(replies) - 1
      /\ \A i \in 1 .. Len(replies) - 1 : Tail(replies)[i] = replies[i + 1]
  BY <1>1, <1>2
<1>6. ASSUME NEW x \in ToSet(Tail(replies)) PROVE x \in ToSet(replies)
  <2>1. PICK i \in 1 .. Len(replies) - 1 : x = Tail(replies)[i]
    BY <1>5 DEF ToSet
  <2>2. x = replies[i + 1] /\ i + 1 \in DOMAIN replies
    BY <1>1, <1>2, <1>5, <2>1
  <2>3. QED
    BY <2>2 DEF ToSet
<1>7. Len(replies) <= 1 => Tail(replies) = <<>> /\ \A q \in ToSet(replies) : q = Head(replies)
  BY <1>1, OneElement
<1>8. QED
  BY <1>4, <1>5, <1>6, <1>7

\* What taking a reply changes.
LEMMA TakenIs ==
    ASSUME TypeOK, NEW r \in Answer
    PROVE  /\ Taken(r) \in RxState
           /\ \A t \in Sock : t # r.sock => Taken(r).socks[t] = gastrSockets[t]
           /\ Taken(r).socks[r.sock] = [gastrSockets[r.sock] EXCEPT !.pending = FALSE]
           /\ Taken(r).polling = polling /\ Taken(r).rx_buf = rx_buf
           /\ Taken(r).cur_buf = cur_buf /\ Taken(r).flow = gu8FlowCtrl /\ Taken(r).asked = asked
<1>1. r.sock \in Sock
  BY DEF Answer
<1>2. Taken(r) = [State EXCEPT !.socks = [State.socks EXCEPT ![r.sock] =
                    [State.socks[r.sock] EXCEPT !.pending = FALSE]]]
  BY StateIs, <1>1 DEF Taken, RxState
<1>3. [State.socks[r.sock] EXCEPT !.pending = FALSE] \in Socket
  BY StateIs, <1>1, NotPending DEF RxState
<1> DEFINE socks == [State.socks EXCEPT ![r.sock] =
                        [State.socks[r.sock] EXCEPT !.pending = FALSE]]
<1>4. /\ socks \in [Sock -> Socket]
      /\ \A t \in Sock : t # r.sock => socks[t] = gastrSockets[t]
      /\ socks[r.sock] = [gastrSockets[r.sock] EXCEPT !.pending = FALSE]
  BY StateIs, <1>1, <1>3 DEF RxState
<1>5. Taken(r) = [State EXCEPT !.socks = socks]
  BY <1>2
<1> HIDE DEF socks
<1>6. QED
  BY StateIs, <1>4, <1>5 DEF RxState

\* What taking a reply leaves alone in every socket.
LEMMA TakenKeeps ==
    ASSUME TypeOK, NEW r \in Answer, NEW t \in Sock
    PROVE  /\ Taken(r).socks[t].used <=> Used(t)
           /\ Taken(r).socks[t].session = gastrSockets[t].session
           /\ Taken(r).socks[t].buf = gastrSockets[t].buf
           /\ Taken(r).socks[t].pending <=> t # r.sock /\ gastrSockets[t].pending
<1>1. gastrSockets[t] \in Socket
  BY DEF TypeOK
<1>2. CASE t = r.sock
  <2>1. Taken(r).socks[t] = [gastrSockets[t] EXCEPT !.pending = FALSE]
    BY TakenIs, <1>2
  <2>2. QED
    BY <1>1, <1>2, <2>1, NotPending DEF Used
<1>3. CASE t # r.sock
  <2>1. Taken(r).socks[t] = gastrSockets[t]
    BY TakenIs, <1>3
  <2>2. QED
    BY <1>1, <1>3, <2>1 DEF Used
<1>4. QED
  BY <1>2, <1>3

\* What every reply leaves alone, and what it removes.
ReplyFrame ==
    /\ picked = -1 /\ picked' = -1 /\ ~gu8FlowCtrl /\ replies # <<>>
    /\ replies' = Tail(replies)
    /\ UNCHANGED <<gu16SessionID, opened, data, owner, crossed>>
    /\ failed => failed'

\* A reply nobody reads, or that cannot be read.
DiscardEffect ==
    /\ UNCHANGED <<rx_buf, gu8FlowCtrl, asked, cur_buf, ws_poll, ws_rx>>
    /\ ~failed' => mem' = mem
    /\ gastrSockets' = gastrSockets \/ gastrSockets' = Taken(Head(replies)).socks

\* Going on with the next socket; or with the next piece of a reply that then
\* cannot be read.
NextEffect ==
    \E polled \in SUBSET Sock, cont \in BOOLEAN, chain \in Chain, ok \in Outcomes :
        /\ Fresh(chain) /\ (~failed' => ok /\ ~cont /\ mem' = mem)
        /\ ws_rx' = ws_rx
        /\ \A t \in Sock : ws_poll'[t] => ws_poll[t]
        /\ \A t \in polled : ws_poll[t] /\ ws_poll'[t]
        /\ StartsRx(Taken(Head(replies)), State', polled, cont, chain, ok)

\* Data is read, and the chain handed over.
DataEffect ==
    LET r == Head(replies) IN
    /\ Current(r) /\ Used(r.sock) /\ gastrSockets[r.sock].buf[1] # NoChain
    /\ ws_poll' = ws_poll
    /\ \E chain \in Chain, ok1, ok2 \in Outcomes, s1 \in RxState :
        /\ Fresh(chain) /\ (~failed' => ok1 /\ ok2)
        /\ r.pieces = 1 => s1 = Taken(r)
        /\ r.pieces # 1 => StartsRx(Taken(r), s1, Suitable(r.sock), TRUE, NoChain, ok1)
        /\ mem' = [b \in Chains \X {1, 2} |->
                     IF b \in {gastrSockets[r.sock].buf, s1.socks[r.sock].buf}
                     THEN r.data ELSE mem[b]]
        /\ ws_rx' = [ws_rx EXCEPT ![r.sock] = Append(@,
                [chain |-> s1.rx_buf, len |-> s1.cur_buf[2],
                 pieces |-> r.pieces, data |-> r.data, owner |-> r.owner])]
        /\ StartsRx(HandedOver(s1), State', Suitable(r.sock), FALSE, chain, ok2)

\* A reply nobody reads has that effect, and keeps the types.
LEMMA DiscardIs ==
    ASSUME TypeOK, ReplyDiscarded \/ ReplyData, Becomes(Taken(Head(replies))),
           ws_rx' = ws_rx /\ mem' = mem /\ ws_poll' = ws_poll /\ failed' = failed
    PROVE  TypeOK' /\ ReplyFrame /\ DiscardEffect
<1>1. ReplyFrame
  BY DEF ReplyDiscarded, ReplyData, Taking, ReplyFrame
<1> DEFINE r == Head(replies)
<1>2. r \in Answer /\ Tail(replies) \in Seq(Answer)
  BY <1>1, HeadReply DEF ReplyFrame
<1>3. Taken(r) \in RxState /\ Becomes(Taken(r))
  BY <1>2, TakenIs
<1> HIDE DEF r
<1>4. DiscardEffect
  BY <1>2, <1>3, TakenIs DEF DiscardEffect, Becomes, r
<1>5. TypeOK'
  BY <1>1, <1>2, <1>3, BecomesIs DEF ReplyFrame, TypeOK
<1>6. QED
  BY <1>1, <1>4, <1>5

\* The sockets that may be asked for are in use.
LEMMA SuitableUsed ==
    ASSUME TypeOK, Owners, NEW r \in Answer, NEW i
    PROVE  /\ Suitable(i) \in SUBSET Sock
           /\ \A s \in Suitable(i) : ws_poll[s] /\ Taken(r).socks[s].used
<1>1. Suitable(i) \in SUBSET Sock
  BY DEF Suitable
<1>2. ASSUME NEW s \in Suitable(i) PROVE ws_poll[s] /\ Taken(r).socks[s].used
  <2>1. s \in Sock /\ ws_poll[s]
    BY DEF Suitable
  <2>2. Used(s)
    BY <2>1 DEF Owners
  <2>3. QED
    BY <2>1, <2>2, TakenKeeps
<1>3. QED
  BY <1>1, <1>2

\* A reply without data has that effect, and keeps the types.
LEMMA NextIs ==
    ASSUME TypeOK, Owners, ReplyTimeout \/ ReplyClosed
    PROVE  TypeOK' /\ ReplyFrame /\ NextEffect
<1> DEFINE r == Head(replies)
<1>1. PICK chain \in Allocated(InUse), ok \in Outcomes :
        Becomes(StartRx(Taken(r), NextSuitable(r.sock), FALSE, chain, ok)) /\ Counts(ok)
  BY DEF ReplyTimeout, ReplyClosed
<1>2. ReplyFrame
  BY <1>1 DEF ReplyTimeout, ReplyClosed, Taking, ReplyFrame, Counts
<1>3. r \in Answer /\ Tail(replies) \in Seq(Answer)
  BY <1>2, HeadReply DEF ReplyFrame
<1>4. Fresh(chain) /\ chain \in Chain
  BY AllocatedIs DEF Fresh, Chain
<1>5. (~failed' => ok /\ mem' = mem) /\ UNCHANGED <<ws_rx, mem>>
  BY <1>1 DEF Counts, ReplyTimeout, ReplyClosed
<1>6. /\ ws_poll' \in [Sock -> BOOLEAN]
      /\ \A t \in Sock : ws_poll'[t] => ws_poll[t]
      /\ \A t \in Sock : t # r.sock => (ws_poll[t] => ws_poll'[t])
  <2>1. ws_poll' = ws_poll \/ ws_poll' = [ws_poll EXCEPT ![r.sock] = FALSE]
    BY DEF ReplyTimeout, ReplyClosed
  <2> HIDE DEF r
  <2>2. QED
    BY <2>1 DEF TypeOK
<1> HIDE DEF r
<1> DEFINE N == NextSuitable(r.sock)
           u == StartRx(Taken(r), N, FALSE, chain, ok)
<1>7. /\ N \in SUBSET Sock /\ \A s \in N : Taken(r).socks[s].used
      /\ \A s \in N : ws_poll[s] /\ ws_poll'[s]
  <2>1. N \in SUBSET Sock /\ \A s \in N : ws_poll[s] /\ Taken(r).socks[s].used
    BY <1>3, SuitableUsed DEF NextSuitable
  <2>2. ASSUME NEW s \in N PROVE s # r.sock
    <3>1. s \in Sock /\ s >= r.sock + 1 /\ r.sock \in Sock
      BY <1>3 DEF NextSuitable, Suitable, Answer
    <3>2. QED
      BY <3>1 DEF Sock
  <2> HIDE DEF N
  <2>3. QED
    BY <1>6, <2>1, <2>2
<1> HIDE DEF N
<1>8. u \in RxState /\ StartsRx(Taken(r), u, N, FALSE, chain, ok)
  <2>1. owner \in [Sock -> Nat]
    BY DEF TypeOK
  <2>2. QED
    BY <2>1, <1>3, <1>4, <1>7, TakenIs, StartRxIs
<1>9. Becomes(u)
  BY <1>1 DEF N
<1> HIDE DEF u
<1>10. /\ State'.socks = u.socks /\ State'.polling = u.polling
       /\ State'.rx_buf = u.rx_buf /\ State'.flow = u.flow
       /\ State'.cur_buf = u.cur_buf /\ State'.asked = u.asked
  BY <1>9 DEF Becomes, State
<1>11. StartsRx(Taken(r), State', N, FALSE, chain, ok)
  BY <1>8, <1>10 DEF StartsRx, Asks, Adds
<1>12. NextEffect
  BY <1>4, <1>5, <1>6, <1>7, <1>11 DEF NextEffect, r
<1>13. TypeOK'
  BY <1>2, <1>3, <1>5, <1>6, <1>8, <1>9, BecomesIs DEF ReplyFrame, TypeOK
<1>14. QED
  BY <1>2, <1>12, <1>13

\* The state after a step, field by field.
LEMMA StateBecomes ==
    ASSUME NEW u, Becomes(u)
    PROVE  /\ State'.socks = u.socks /\ State'.polling = u.polling
           /\ State'.rx_buf = u.rx_buf /\ State'.flow = u.flow
           /\ State'.cur_buf = u.cur_buf /\ State'.asked = u.asked
  BY DEF Becomes, State

\* StartsRx of what the variables become is StartsRx of the next state.
LEMMA StartsSame ==
    ASSUME NEW st, NEW u, NEW polled, NEW cont, NEW chain, NEW ok, Becomes(u),
           StartsRx(st, u, polled, cont, chain, ok)
    PROVE  StartsRx(st, State', polled, cont, chain, ok)
  BY StateBecomes DEF StartsRx, Asks, Adds

\* What handing over the chain changes.
LEMMA HandedOverIs ==
    ASSUME NEW st \in RxState
    PROVE  LET u == HandedOver(st) IN
           /\ u \in RxState /\ u.rx_buf = NoChain
           /\ u.socks = st.socks /\ u.cur_buf = st.cur_buf /\ u.asked = st.asked
  BY DEF HandedOver, RxState, Chain

\* A reply with data has one of the two effects, and keeps the types.
LEMMA DataIs ==
    ASSUME TypeOK, Owners, ReplyData
    PROVE  TypeOK' /\ ReplyFrame /\ (DiscardEffect \/ DataEffect)
<1> DEFINE r == Head(replies)
<1>1. CASE ~Used(r.sock) \/ gastrSockets[r.sock].buf[1] = NoChain
  <2>1. Becomes(Taken(r)) /\ UNCHANGED <<mem, ws_rx, failed, ws_poll>>
    BY <1>1 DEF ReplyData, Wanted
  <2>2. QED
    BY <2>1, DiscardIs
<1>2. CASE Used(r.sock) /\ gastrSockets[r.sock].buf[1] # NoChain
  <2> DEFINE S(ok1) == IF r.pieces = 1 THEN Taken(r)
                       ELSE StartRx(Taken(r), Suitable(r.sock), TRUE, NoChain, ok1)
             Mem(s1) == [b \in DOMAIN mem |->
                           IF b \in {Taken(r).socks[r.sock].buf, s1.socks[r.sock].buf}
                           THEN r.data ELSE mem[b]]
             P(s1) == [chain |-> s1.rx_buf, len |-> s1.cur_buf[2],
                       pieces |-> r.pieces, data |-> r.data, owner |-> r.owner]
  <2>1. PICK ok1 \in Outcomes, ok2 \in Outcomes, chain \in Allocated(InUse) :
          /\ mem' = Mem(S(ok1))
          /\ ws_rx' = [ws_rx EXCEPT ![r.sock] = Append(@, P(S(ok1)))]
          /\ Counts(ok1 /\ ok2)
          /\ Becomes(StartRx(HandedOver(S(ok1)), Suitable(r.sock), FALSE, chain, ok2))
    BY <1>2 DEF ReplyData, Wanted, Continued
  <2>2. ReplyFrame /\ ws_poll' = ws_poll /\ Current(r)
    BY <2>1 DEF ReplyData, Taking, ReplyFrame, Counts
  <2>3. r \in Answer /\ Tail(replies) \in Seq(Answer)
    BY <2>2, HeadReply DEF ReplyFrame
  <2>4. Fresh(chain) /\ chain \in Chain /\ NoChain \in Chain
    BY AllocatedIs DEF Fresh, Chain
  <2>5. ~failed' => ok1 /\ ok2
    BY <2>1 DEF Counts
  <2> HIDE DEF r
  <2> DEFINE N == Suitable(r.sock)
             s1 == S(ok1)
             s2 == HandedOver(s1)
             u == StartRx(s2, N, FALSE, chain, ok2)
  <2>6. /\ N \in SUBSET Sock /\ \A s \in N : Taken(r).socks[s].used
        /\ owner \in [Sock -> Nat] /\ Taken(r) \in RxState
    BY <2>3, SuitableUsed, TakenIs DEF TypeOK
  <2> HIDE DEF N
  <2>7. /\ s1 \in RxState
        /\ r.pieces = 1 => s1 = Taken(r)
        /\ r.pieces # 1 => StartsRx(Taken(r), s1, N, TRUE, NoChain, ok1)
    <3>1. CASE r.pieces = 1
      BY <3>1, <2>6
    <3>2. CASE r.pieces # 1
      <4>1. s1 = StartRx(Taken(r), N, TRUE, NoChain, ok1)
        BY <3>2 DEF N
      <4> HIDE DEF s1
      <4>2. QED
        BY <3>2, <4>1, <2>4, <2>6, StartRxIs
    <3>3. QED
      BY <3>1, <3>2
  <2>8. mem' = Mem(s1) /\ ws_rx' = [ws_rx EXCEPT ![r.sock] = Append(@, P(s1))] /\ Becomes(u)
    BY <2>1 DEF N, r
  <2> HIDE DEF s1
  <2>9. \A s \in N : s1.socks[s].used
    <3>1. CASE r.pieces = 1
      BY <3>1, <2>6, <2>7
    <3>2. CASE r.pieces # 1
      BY <3>2, <2>6, <2>7 DEF StartsRx, Asks
    <3>3. QED
      BY <3>1, <3>2
  <2>10. s2 \in RxState /\ s2.socks = s1.socks
    BY <2>7, HandedOverIs
  <2> HIDE DEF s2
  <2>11. u \in RxState /\ StartsRx(s2, u, N, FALSE, chain, ok2)
    BY <2>4, <2>6, <2>9, <2>10, StartRxIs
  <2> HIDE DEF u
  <2>12. StartsRx(s2, State', N, FALSE, chain, ok2)
    BY <2>8, <2>11, StartsSame
  <2>13. mem' = [b \in Chains \X {1, 2} |->
                   IF b \in {gastrSockets[r.sock].buf, s1.socks[r.sock].buf}
                   THEN r.data ELSE mem[b]]
    <3>1. Taken(r).socks[r.sock].buf = gastrSockets[r.sock].buf
      BY <2>3, TakenKeeps DEF Answer
    <3>2. DOMAIN mem = Chains \X {1, 2}
      BY DEF TypeOK
    <3>3. QED
      BY <2>8, <3>1, <3>2
  <2>14. DataEffect
    BY <1>2, <2>2, <2>4, <2>5, <2>7, <2>8, <2>12, <2>13 DEF DataEffect, N, r, s2
  <2>15. P(s1) \in Packet
    BY <2>3, <2>7 DEF RxState, Answer, Packet
  <2>16. ws_rx' \in [Sock -> Seq(Packet)]
    <3> HIDE DEF P
    <3>1. r.sock \in Sock
      BY <2>3 DEF Answer
    <3>2. Append(ws_rx[r.sock], P(s1)) \in Seq(Packet)
      BY <3>1, <2>15 DEF TypeOK
    <3>3. QED
      BY <2>8, <3>1, <3>2 DEF TypeOK
  <2>17. mem' \in [Chains \X {1, 2} -> Nat]
    <3>1. r.data \in Nat
      BY <2>3 DEF Answer
    <3>2. QED
      BY <2>13, <3>1 DEF TypeOK
  <2>18. TypeOK'
    BY <2>2, <2>3, <2>8, <2>11, <2>16, <2>17, BecomesIs DEF ReplyFrame, TypeOK
  <2>19. QED
    BY <2>2, <2>14, <2>18
<1>3. QED
  BY <1>1, <1>2

\* A reply that cannot be read at all is lost.
LEMMA UnreadIs ==
    ASSUME TypeOK, ReplyUnread
    PROVE  TypeOK' /\ ReplyFrame /\ DiscardEffect
<1>1. ReplyFrame
  BY DEF ReplyUnread, Taking, ReplyFrame
<1>2. DiscardEffect
  BY DEF ReplyUnread, DiscardEffect, driver
<1>3. Tail(replies) \in Seq(Answer)
  BY <1>1, HeadReply DEF ReplyFrame
<1>4. TypeOK'
  BY <1>3 DEF ReplyUnread, TypeOK, driver
<1>5. QED
  BY <1>1, <1>2, <1>4

\* A reply with a piece that cannot be read has the effect of one nobody
\* reads, or goes on as one without data does.
LEMMA CutIs ==
    ASSUME TypeOK, Owners, ReplyCut
    PROVE  TypeOK' /\ ReplyFrame /\ (DiscardEffect \/ NextEffect)
<1> DEFINE r == Head(replies)
           N == Suitable(r.sock)
           S(n, ok) == IF n = 1 THEN Taken(r) ELSE Continued(r, ok)
           Mem(s1) == [b \in DOMAIN mem |->
                    IF b = s1.socks[r.sock].buf THEN 0
                    ELSE IF b = gastrSockets[r.sock].buf THEN r.data ELSE mem[b]]
<1>1. PICK n \in 1 .. r.pieces, ok \in Outcomes : mem' = Mem(S(n, ok)) /\ Becomes(S(n, ok))
  BY DEF ReplyCut
<1>2. ReplyFrame /\ failed' /\ ws_poll' = ws_poll /\ ws_rx' = ws_rx
  BY DEF ReplyCut, Taking, ReplyFrame
<1>3. r \in Answer /\ Tail(replies) \in Seq(Answer)
  BY <1>2, HeadReply DEF ReplyFrame
<1> HIDE DEF r
<1>4. /\ N \in SUBSET Sock /\ \A s \in N : ws_poll[s] /\ Taken(r).socks[s].used
      /\ owner \in [Sock -> Nat] /\ Taken(r) \in RxState /\ NoChain \in Chain /\ Fresh(NoChain)
  BY <1>3, SuitableUsed, TakenIs DEF TypeOK, Chain, Fresh
<1> DEFINE u == S(n, ok)
<1>5. \/ u = Taken(r)
      \/ u \in RxState /\ StartsRx(Taken(r), u, N, TRUE, NoChain, ok)
  <2>1. CASE n = 1
    BY <2>1
  <2>2. CASE n # 1
    <3>1. u = StartRx(Taken(r), N, TRUE, NoChain, ok)
      BY <2>2 DEF Continued
    <3> HIDE DEF u, N
    <3>2. StartRx(Taken(r), N, TRUE, NoChain, ok) \in RxState
          /\ StartsRx(Taken(r), StartRx(Taken(r), N, TRUE, NoChain, ok), N, TRUE, NoChain, ok)
      BY <1>4, StartRxIs
    <3>3. QED
      BY <3>1, <3>2
  <2>3. QED
    BY <2>1, <2>2
<1>6. mem' = Mem(u) /\ Becomes(u)
  BY <1>1 DEF r
<1> HIDE DEF u, N
<1>7. mem' \in [Chains \X {1, 2} -> Nat]
  <2>1. r.data \in Nat /\ mem \in [Chains \X {1, 2} -> Nat] /\ 0 \in Nat
    BY <1>3 DEF Answer, TypeOK
  <2>2. QED
    BY <1>6, <2>1
<1>8. u \in RxState
  BY <1>4, <1>5
<1>9. TypeOK'
  BY <1>2, <1>3, <1>6, <1>7, <1>8, BecomesIs DEF ReplyFrame, TypeOK
<1>10. CASE u = Taken(r)
  <2>1. Becomes(Taken(r))
    BY <1>6, <1>10
  <2>2. DiscardEffect
    BY <1>2, <1>3, <2>1, TakenIs DEF DiscardEffect, Becomes, r
  <2>3. QED
    BY <1>2, <1>9, <2>2
<1>11. CASE StartsRx(Taken(r), u, N, TRUE, NoChain, ok)
  <2>1. StartsRx(Taken(r), State', N, TRUE, NoChain, ok)
    BY <1>6, <1>11, StartsSame
  <2>2. \A t \in Sock : ws_poll'[t] => ws_poll[t]
    BY <1>2
  <2>3. \A t \in N : ws_poll[t] /\ ws_poll'[t]
    BY <1>2, <1>4
  <2>4. NextEffect
    BY <1>2, <1>4, <2>1, <2>2, <2>3 DEF NextEffect, r
  <2>5. QED
    BY <1>2, <1>9, <2>4
<1>12. QED
  BY <1>5, <1>10, <1>11

-----------------------------------------------------------------------------
(* The effects of the chip and the application *)

\* What an answer of the chip changes.
AnswerEffect ==
    /\ UNCHANGED <<gastrSockets, gu16SessionID, ws_poll, ws_rx, driver, mem, picked,
                   opened, owner, failed, crossed>>
    /\ \E q \in asked, a \in Answer :
        /\ asked' = asked \ {q} /\ replies' = Append(replies, a)
        /\ a.sock = q.sock /\ a.session = q.session /\ a.owner = q.owner

\* Answers has that effect, and keeps the types.
LEMMA AnswersIs ==
    ASSUME TypeOK, Answers
    PROVE  TypeOK' /\ AnswerEffect
<1>1. PICK q \in asked, n \in {1, 2}, st \in {"timeout", "closed", "data"} :
        Reply(q, st, n) /\ data' \in Nat
  <2>1. PICK q \in asked :
          \/ Reply(q, "timeout", 1) /\ UNCHANGED data
          \/ Reply(q, "closed", 1) /\ UNCHANGED data
          \/ data' = data + 1 /\ \E n \in 1 .. Pieces : Reply(q, "data", n)
    BY DEF Answers
  <2>2. 1 .. Pieces \subseteq {1, 2}
    BY RxAssumption
  <2>3. data \in Nat /\ data + 1 \in Nat
    BY DEF TypeOK
  <2>4. QED
    BY <2>1, <2>2, <2>3
<1> DEFINE a == [sock |-> q.sock, session |-> q.session, owner |-> q.owner, status |-> st,
                 pieces |-> n, data |-> data + 1]
<1>2. /\ asked' = asked \ {q} /\ replies' = Append(replies, a)
      /\ UNCHANGED <<gastrSockets, gu16SessionID, ws_poll, ws_rx, driver, mem, picked,
                   opened, owner, failed, crossed>>
  BY <1>1 DEF Reply
<1>3. a \in Answer /\ a.sock = q.sock /\ a.session = q.session /\ a.owner = q.owner
  BY <1>1 DEF Answer, TypeOK, Requests
<1> HIDE DEF a
<1>4. AnswerEffect
  BY <1>2, <1>3 DEF AnswerEffect
<1>5. replies' \in Seq(Answer)
  BY <1>2, <1>3 DEF TypeOK
<1>6. TypeOK'
  BY <1>1, <1>2, <1>5 DEF TypeOK, driver
<1>7. QED
  BY <1>4, <1>6

\* What appending adds to the elements of a sequence.
LEMMA AppendSet ==
    ASSUME NEW S, NEW q \in Seq(S), NEW x \in S
    PROVE  ToSet(Append(q, x)) = ToSet(q) \cup {x}
<1>1. /\ Append(q, x) \in Seq(S) /\ Len(Append(q, x)) = Len(q) + 1
      /\ \A i \in 1 .. Len(q) : Append(q, x)[i] = q[i]
      /\ Append(q, x)[Len(q) + 1] = x
  OBVIOUS
<1>2. DOMAIN q = 1 .. Len(q) /\ DOMAIN Append(q, x) = 1 .. Len(q) + 1 /\ Len(q) \in Nat
  BY <1>1
<1>3. QED
  BY <1>1, <1>2 DEF ToSet

\* A number below the modulus is its own remainder.
LEMMA ModSmall ==
    ASSUME NEW x \in Nat, NEW m \in Nat, m >= 2
    PROVE  x % m \in Nat /\ (x < m => x % m = x)
  OBVIOUS

\* Session numbers follow each other until they come round.
LEMMA NextSessionFollows ==
    ASSUME TypeOK
    PROVE  /\ NextSession \in Nat
           /\ gu16SessionID + 1 < SessionMod => NextSession = gu16SessionID + 1
<1> DEFINE n == (gu16SessionID + 1) % SessionMod
<1>1. n \in Nat /\ (gu16SessionID + 1 < SessionMod => n = gu16SessionID + 1)
  <2>1. gu16SessionID + 1 \in Nat /\ SessionMod \in Nat /\ SessionMod >= 2
    BY RxAssumption DEF TypeOK
  <2>2. QED
    BY <2>1, ModSmall
<1> HIDE DEF n
<1>2. NextSession = IF n = 0 THEN 1 ELSE n
  BY DEF NextSession, n
<1>3. QED
  BY <1>1, <1>2 DEF TypeOK

\* A socket that is not in use.
LEMMA UnusedIs ==
    Unused \in Socket /\ ~Unused.used /\ Unused.buf = <<NoChain, 0>>
<1>1. <<NoChain, 0>> \in Chain \X Nat
  BY DEF Chain
<1>2. QED
  BY <1>1 DEF Socket, Unused

\* A socket that has just been created.
LEMMA FreshSocket ==
    ASSUME NEW k \in Socket, NEW n \in Nat
    PROVE  LET u == [k EXCEPT !.used = TRUE, !.session = n] IN
           u \in Socket /\ u.used /\ u.session = n /\ u.buf = k.buf
  BY DEF Socket

\* A new socket.
OpenEffect ==
    /\ UNCHANGED <<ws_rx, driver, mem, picked, asked, replies, data, failed, crossed>>
    /\ opened' = opened + 1 /\ gu16SessionID' = NextSession
    /\ \E s \in Sock :
        /\ ~Used(s)
        /\ \A t \in Sock \ {s} : /\ gastrSockets'[t] = gastrSockets[t]
                                 /\ ws_poll'[t] = ws_poll[t] /\ owner'[t] = owner[t]
        /\ gastrSockets'[s].used /\ gastrSockets'[s].session = NextSession
        /\ gastrSockets'[s].buf = <<NoChain, 0>>
        /\ ws_poll'[s] /\ owner'[s] = opened + 1

\* Open has that effect, and keeps the types.
LEMMA OpenIs ==
    ASSUME TypeOK, Open
    PROVE  TypeOK' /\ OpenEffect
<1> DEFINE new == [Unused EXCEPT !.used = TRUE, !.session = NextSession]
<1>1. PICK s \in Sock :
        /\ ~gastrSockets[s].used
        /\ gastrSockets' = [gastrSockets EXCEPT ![s] = new]
        /\ gu16SessionID' = NextSession
        /\ ws_poll' = [ws_poll EXCEPT ![s] = TRUE]
        /\ owner' = [owner EXCEPT ![s] = opened + 1]
  BY DEF Open
<1>2. /\ UNCHANGED <<ws_rx, driver, mem, picked, asked, replies, data, failed, crossed>>
      /\ opened' = opened + 1
  BY DEF Open
<1>3. NextSession \in Nat
  BY NextSessionFollows
<1>4. /\ new \in Socket /\ new.used /\ new.session = NextSession /\ new.buf = <<NoChain, 0>>
  BY <1>3, UnusedIs, FreshSocket
<1> HIDE DEF new
<1>5. gastrSockets' \in [Sock -> Socket]
  BY <1>1, <1>4 DEF TypeOK
<1>6. ws_poll' \in [Sock -> BOOLEAN] /\ owner' \in [Sock -> Nat] /\ opened' \in Nat
  BY <1>1, <1>2 DEF TypeOK
<1>7. TypeOK'
  BY <1>1, <1>2, <1>3, <1>5, <1>6 DEF TypeOK, driver
<1>8. OpenEffect
  BY <1>1, <1>2, <1>4 DEF OpenEffect, TypeOK, Used
<1>9. QED
  BY <1>7, <1>8

\* A socket is closed.
CloseEffect(s) ==
    /\ UNCHANGED <<gu16SessionID, driver, mem, picked, replies, opened, data, owner, crossed>>
    /\ failed => failed'
    /\ \A t \in Sock \ {s} : /\ gastrSockets'[t] = gastrSockets[t]
                             /\ ws_poll'[t] = ws_poll[t] /\ ws_rx'[t] = ws_rx[t]
    /\ ~gastrSockets'[s].used /\ gastrSockets'[s].buf = <<NoChain, 0>>
    /\ ~ws_poll'[s] /\ ws_rx'[s] = <<>>
    /\ asked' \subseteq asked

\* Close has that effect, and keeps the types.
LEMMA CloseIs ==
    ASSUME TypeOK, NEW s \in Sock, Close(s)
    PROVE  TypeOK' /\ CloseEffect(s)
<1>1. /\ gastrSockets' = [gastrSockets EXCEPT ![s] = Unused]
      /\ ws_poll' = [ws_poll EXCEPT ![s] = FALSE]
      /\ ws_rx' = [ws_rx EXCEPT ![s] = <<>>]
      /\ UNCHANGED <<gu16SessionID, driver, mem, picked, replies, opened, data, owner, crossed>>
  BY DEF Close
<1>0. asked' \subseteq asked /\ (failed => failed')
  BY DEF Close, Forgotten, Counts
<1>2. Unused \in Socket /\ ~Unused.used /\ Unused.buf = <<NoChain, 0>>
  BY UnusedIs
<1>3. gastrSockets' \in [Sock -> Socket] /\ ws_poll' \in [Sock -> BOOLEAN]
  BY <1>1, <1>2 DEF TypeOK
<1>4. ws_rx' \in [Sock -> Seq(Packet)]
  <2>1. <<>> \in Seq(Packet)
    OBVIOUS
  <2>2. QED
    BY <1>1, <2>1 DEF TypeOK
<1>5. TypeOK'
  BY <1>0, <1>1, <1>3, <1>4 DEF TypeOK, driver
<1>6. CloseEffect(s)
  BY <1>0, <1>1, <1>2 DEF CloseEffect, TypeOK
<1>7. QED
  BY <1>5, <1>6

\* The application takes a packet.
RecvEffect(s) ==
    /\ UNCHANGED <<gastrSockets, gu16SessionID, ws_poll, driver, mem, picked, asked,
                   replies, opened, data, owner, failed, crossed>>
    /\ Used(s) /\ ws_rx[s] # <<>>
    /\ ws_rx' = [ws_rx EXCEPT ![s] = Tail(@)]

\* SockRecvfrom has that effect, and keeps the types.
LEMMA RecvIs ==
    ASSUME TypeOK, NEW s \in Sock, SockRecvfrom(s)
    PROVE  TypeOK' /\ RecvEffect(s)
<1>1. RecvEffect(s)
  BY DEF SockRecvfrom, RecvEffect, Used
<1>2. Tail(ws_rx[s]) \in Seq(Packet)
  BY <1>1 DEF RecvEffect, TypeOK
<1>3. TypeOK'
  BY <1>1, <1>2 DEF RecvEffect, TypeOK, driver
<1>4. QED
  BY <1>1, <1>3

-----------------------------------------------------------------------------
(* Incarnations and sessions *)

\* What the driver's own steps leave alone.
Keeps ==
    /\ UNCHANGED <<gu16SessionID, opened, owner>>
    /\ \A t \in Sock : /\ gastrSockets'[t].used <=> Used(t)
                       /\ gastrSockets'[t].session = gastrSockets[t].session
                       /\ ws_poll'[t] => ws_poll[t]
                       /\ ~Used(t) => ws_rx'[t] = ws_rx[t]
    /\ \A q \in asked' : \/ q \in asked
                         \/ /\ q.sock \in Sock /\ Live(q)
                            /\ q.session = gastrSockets[q.sock].session
    /\ ToSet(replies') \subseteq ToSet(replies)
    /\ picked' # -1 => ws_poll'[picked']

\* Asking for a socket keeps sockets and sessions, and adds its request.
LEMMA AsksKeeps ==
    ASSUME NEW st, NEW u, NEW s \in Sock, NEW buf, NEW ok, Asks(st, u, s, buf, ok), st.socks[s].used
    PROVE  /\ \A t \in Sock : /\ u.socks[t].used <=> st.socks[t].used
                              /\ u.socks[t].session = st.socks[t].session
           /\ \A q \in u.asked : q \in st.asked \/ IsReq(q, st.socks, s)
<1>1. \A t \in Sock : u.socks[t].used <=> st.socks[t].used
  BY DEF Asks
<1>2. \A t \in Sock : u.socks[t].session = st.socks[t].session
  BY DEF Asks
<1>3. \A q \in u.asked : q \in st.asked \/ IsReq(q, st.socks, s)
  BY DEF Asks, Adds
<1>4. QED
  BY <1>1, <1>2, <1>3

\* What winc1500_sock_start_rx leaves alone, and what it may ask for.
StartKept(st, u, polled) ==
    /\ \A t \in Sock : /\ u.socks[t].used <=> st.socks[t].used
                       /\ u.socks[t].session = st.socks[t].session
    /\ \A q \in u.asked : q \in st.asked \/ \E s \in polled : IsReq(q, st.socks, s)

\* So does winc1500_sock_start_rx, for one of the sockets polled.
LEMMA StartsKeeps ==
    ASSUME NEW st, NEW u, NEW polled \in SUBSET Sock, NEW cont \in BOOLEAN, NEW chain, NEW ok,
           StartsRx(st, u, polled, cont, chain, ok), \A s \in polled : st.socks[s].used
    PROVE  StartKept(st, u, polled)
<1>1. CASE u.rx_buf = NoChain \/ polled = {}
  <2>1. u.socks = st.socks /\ u.asked = st.asked
    BY <1>1 DEF StartsRx
  <2>2. QED
    BY <2>1 DEF StartKept
<1>2. CASE ~(u.rx_buf = NoChain \/ polled = {})
  <2>0. PICK s \in polled : \E buf : Asks(st, u, s, buf, ok)
    BY <1>2 DEF StartsRx
  <2>1. PICK buf : Asks(st, u, s, buf, ok)
    BY <2>0
  <2>2. QED
    BY <2>1, AsksKeeps DEF StartKept
<1>3. QED
  BY <1>1, <1>2

\* A request is for the socket as it is when it is made.
LEMMA ReqIs ==
    ASSUME TypeOK, NEW socks, NEW s \in Sock, Used(s),
           socks[s].session = gastrSockets[s].session, NEW q, IsReq(q, socks, s)
    PROVE  q.sock = s /\ q.owner = owner[s] /\ Live(q) /\ q.session = gastrSockets[s].session
  BY DEF IsReq, Live

\* No reply is added by taking one.
LEMMA TailKept ==
    ASSUME TypeOK, ReplyFrame
    PROVE  ToSet(replies') \subseteq ToSet(replies) /\ Head(replies) \in Answer
  BY HeadReply DEF ReplyFrame

\* Every reply has one of the three effects, and keeps the types.
LEMMA EventsIs ==
    ASSUME TypeOK, Owners, Events
    PROVE  TypeOK' /\ ReplyFrame /\ (DiscardEffect \/ NextEffect \/ DataEffect)
<1>1. CASE ReplyDiscarded
  BY <1>1, DiscardIs DEF ReplyDiscarded
<1>2. CASE ReplyTimeout \/ ReplyClosed
  BY <1>2, NextIs
<1>3. CASE ReplyData
  BY <1>3, DataIs
<1>4. CASE ReplyUnread
  BY <1>4, UnreadIs
<1>5. CASE ReplyCut
  BY <1>5, CutIs
<1>6. QED
  BY <1>1, <1>2, <1>3, <1>4, <1>5 DEF Events

\* The poll and the replies leave alone what Keeps lists.
LEMMA DriverKeeps ==
    ASSUME TypeOK, Owners, Poll \/ PollAsks \/ Events
    PROVE  Keeps
<1>1. CASE Poll
  <2>1. PollEffect
    BY <1>1, PollIs
  <2>2. QED
    BY <2>1 DEF PollEffect, Keeps, Used
<1>2. CASE PollAsks
  <2>1. PollAsksEffect /\ picked \in Sock
    BY <1>2, PollAsksIs DEF PollAsks, TypeOK
  <2>2. CASE ~Used(picked)
    BY <2>1, <2>2 DEF PollAsksEffect, Keeps, Used
  <2>3. CASE Used(picked)
    <3>1. PICK ok : Asks(State, State', picked, <<rx_buf, 1>>, ok)
      BY <2>1, <2>3 DEF PollAsksEffect
    <3>2. /\ State.socks = gastrSockets /\ State.asked = asked
          /\ State'.socks = gastrSockets' /\ State'.asked = asked'
      BY DEF State
    <3>3. State.socks[picked].used
      BY <2>3, <3>2 DEF Used
    <3>4. /\ \A t \in Sock : /\ gastrSockets'[t].used <=> gastrSockets[t].used
                             /\ gastrSockets'[t].session = gastrSockets[t].session
          /\ \A q \in asked' : q \in asked \/ IsReq(q, gastrSockets, picked)
      BY <2>1, <3>1, <3>2, <3>3, AsksKeeps
    <3>5. QED
      BY <2>1, <2>3, <3>4, ReqIs DEF PollAsksEffect, Keeps, Used
  <2>4. QED
    BY <2>2, <2>3
<1>3. ASSUME ReplyFrame, DiscardEffect
      PROVE  Keeps
  <2>1. \A t \in Sock : /\ gastrSockets'[t].used <=> Used(t)
                        /\ gastrSockets'[t].session = gastrSockets[t].session
    BY <1>3, TailKept, TakenKeeps DEF DiscardEffect, Used
  <2>2. QED
    BY <1>3, <2>1, TailKept DEF DiscardEffect, ReplyFrame, Keeps
<1>4. ASSUME ReplyFrame, NextEffect
      PROVE  Keeps
  <2> DEFINE r == Head(replies)
  <2>2. r \in Answer
    BY <1>4, TailKept
  <2>3. PICK N \in SUBSET Sock, cont \in BOOLEAN, chain \in Chain, ok \in Outcomes :
          /\ \A t \in N : ws_poll[t]
          /\ StartsRx(Taken(r), State', N, cont, chain, ok)
    BY <1>4 DEF NextEffect
  <2>4. \A s \in N : Taken(r).socks[s].used
    BY <2>2, <2>3, TakenKeeps DEF Owners
  <2> HIDE DEF r
  <2>5. State'.socks = gastrSockets' /\ State'.asked = asked' /\ Taken(r).asked = asked
    BY <2>2, TakenIs DEF State
  <2>6. /\ \A t \in Sock : /\ gastrSockets'[t].used <=> Taken(r).socks[t].used
                           /\ gastrSockets'[t].session = Taken(r).socks[t].session
        /\ \A q \in asked' : q \in asked \/ \E s \in N : IsReq(q, Taken(r).socks, s)
    <3>1. StartKept(Taken(r), State', N)
      BY <2>3, <2>4, StartsKeeps
    <3>2. QED
      BY <2>5, <3>1 DEF StartKept
  <2>7. \A t \in Sock : /\ gastrSockets'[t].used <=> Used(t)
                        /\ gastrSockets'[t].session = gastrSockets[t].session
    BY <2>2, <2>6, TakenKeeps
  <2>8. \A q \in asked' : \/ q \in asked
                          \/ /\ q.sock \in Sock /\ Live(q)
                             /\ q.session = gastrSockets[q.sock].session
    <3> SUFFICES ASSUME NEW q \in asked', q \notin asked
                 PROVE  q.sock \in Sock /\ Live(q) /\ q.session = gastrSockets[q.sock].session
      OBVIOUS
    <3>1. PICK s \in N : IsReq(q, Taken(r).socks, s)
      BY <2>6
    <3>2. s \in Sock /\ Used(s) /\ Taken(r).socks[s].session = gastrSockets[s].session
      BY <2>2, <2>4, TakenKeeps
    <3>3. QED
      BY <3>1, <3>2, ReqIs
  <2>9. \A t \in Sock : (ws_poll'[t] => ws_poll[t]) /\ ws_rx'[t] = ws_rx[t]
    BY <1>4 DEF NextEffect
  <2>10. QED
    BY <1>4, <2>7, <2>8, <2>9, TailKept DEF ReplyFrame, Keeps
<1>5. CASE Events
  <2> DEFINE r == Head(replies)
             N == Suitable(r.sock)
  <2>1. ReplyFrame /\ (DiscardEffect \/ NextEffect \/ DataEffect)
    BY <1>5, EventsIs
  <2>2. CASE DiscardEffect
    BY <2>1, <2>2, <1>3
  <2>3. CASE DataEffect
    <3>1. r \in Answer
      BY <2>1, TailKept
    <3>2. PICK chain \in Chain, ok1 \in Outcomes, ok2 \in Outcomes, s1 \in RxState :
            /\ r.pieces = 1 => s1 = Taken(r)
            /\ r.pieces # 1 => StartsRx(Taken(r), s1, N, TRUE, NoChain, ok1)
            /\ StartsRx(HandedOver(s1), State', N, FALSE, chain, ok2)
      BY <2>3 DEF DataEffect
    <3>3. N \in SUBSET Sock /\ \A s \in N : Taken(r).socks[s].used
      BY <3>1, SuitableUsed
    <3> HIDE DEF r, N
    <3>4. State'.socks = gastrSockets' /\ State'.asked = asked' /\ Taken(r).asked = asked
      BY <3>1, TakenIs DEF State
    <3>5. /\ \A t \in Sock : /\ s1.socks[t].used <=> Taken(r).socks[t].used
                             /\ s1.socks[t].session = Taken(r).socks[t].session
          /\ \A q \in s1.asked : q \in asked \/ \E s \in N : IsReq(q, Taken(r).socks, s)
      <4>1. CASE r.pieces = 1
        BY <4>1, <3>2, <3>4
      <4>2. CASE r.pieces # 1
        <5>1. StartsRx(Taken(r), s1, N, TRUE, NoChain, ok1)
          BY <4>2, <3>2
        <5>2. StartKept(Taken(r), s1, N)
          BY <5>1, <3>3, StartsKeeps
        <5>3. QED
          BY <5>2, <3>4 DEF StartKept
      <4>3. QED
        BY <4>1, <4>2
    <3>6. HandedOver(s1).socks = s1.socks /\ HandedOver(s1).asked = s1.asked
      BY HandedOverIs
    <3>7. \A s \in N : HandedOver(s1).socks[s].used
      BY <3>3, <3>5, <3>6
    <3>8. /\ \A t \in Sock : /\ gastrSockets'[t].used <=> s1.socks[t].used
                             /\ gastrSockets'[t].session = s1.socks[t].session
          /\ \A q \in asked' : q \in s1.asked \/ \E s \in N : IsReq(q, s1.socks, s)
      <4>1. StartsRx(HandedOver(s1), State', N, FALSE, chain, ok2)
        BY <3>2
      <4>2. StartKept(HandedOver(s1), State', N)
        BY <4>1, <3>3, <3>7, StartsKeeps
      <4>3. QED
        BY <3>4, <3>6, <4>2 DEF StartKept
    <3>9. \A t \in Sock : /\ gastrSockets'[t].used <=> Used(t)
                          /\ s1.socks[t].session = gastrSockets[t].session
                          /\ gastrSockets'[t].session = gastrSockets[t].session
                          /\ Taken(r).socks[t].session = gastrSockets[t].session
      BY <3>1, <3>5, <3>8, TakenKeeps
    <3>10. \A q \in asked' : \/ q \in asked
                             \/ /\ q.sock \in Sock /\ Live(q)
                                /\ q.session = gastrSockets[q.sock].session
      <4> SUFFICES ASSUME NEW q \in asked', q \notin asked
                   PROVE  q.sock \in Sock /\ Live(q) /\ q.session = gastrSockets[q.sock].session
        OBVIOUS
      <4>1. PICK socks \in {s1.socks, Taken(r).socks}, s \in N : IsReq(q, socks, s)
        BY <3>5, <3>8
      <4>2. s \in Sock /\ Used(s) /\ socks[s].session = gastrSockets[s].session
        BY <3>1, <3>3, <3>9, TakenKeeps
      <4>3. QED
        BY <4>1, <4>2, ReqIs
    <3>11. ws_poll' = ws_poll /\ \A t \in Sock : ~Used(t) => ws_rx'[t] = ws_rx[t]
      BY <2>3 DEF DataEffect, TypeOK
    <3>12. QED
      BY <2>1, <3>9, <3>10, <3>11, TailKept DEF ReplyFrame, Keeps
  <2>4. CASE NextEffect
    BY <2>1, <2>4, <1>4
  <2>5. QED
    BY <2>1, <2>2, <2>3, <2>4
<1>6. QED
  BY <1>1, <1>2, <1>5

\* Whatever the driver adds to what is out is live.
LEMMA OutKeeps ==
    ASSUME Keeps
    PROVE  \A q \in Out' : \/ q \in Out
                           \/ /\ q \in asked' /\ q.sock \in Sock /\ Live(q)
                              /\ q.session = gastrSockets[q.sock].session
  BY DEF Keeps, Out

\* A step with Keeps keeps the incarnations in order.
LEMMA KeepsOwners ==
    ASSUME TypeOK, Owners, Keeps
    PROVE  Owners'
<1>1. owner' = owner /\ opened' = opened
  BY DEF Keeps
<1>2. \A t \in Sock : Used(t)' <=> Used(t)
  BY DEF Keeps, Used
<1>3. \A s \in Sock : owner[s] \in 0 .. opened /\ (Used(s) => owner[s] > 0)
  BY DEF Owners
<1>4. ASSUME NEW q \in Out'
      PROVE  q.owner \in 1 .. opened /\ \A t \in Sock : q.owner = owner[t] => t = q.sock
  <2>1. CASE q \in Out
    BY <2>1 DEF Owners
  <2>2. CASE q.sock \in Sock /\ Live(q)
    <3>1. q.owner = owner[q.sock] /\ owner[q.sock] \in 1 .. opened
      BY <2>2, <1>3 DEF Live, TypeOK
    <3>2. QED
      BY <2>2, <3>1 DEF Owners
  <2>3. QED
    BY <2>1, <2>2, OutKeeps
<1>6. \A s \in Sock : ~Used(s)' => ws_rx'[s] = <<>> /\ ~ws_poll'[s]
  BY <1>2 DEF Keeps, Owners
<1>7. picked' # -1 => ws_poll'[picked']
  BY DEF Keeps
<1>8. \A s, t \in Sock : s # t /\ owner[s] = owner[t] => owner[s] = 0
  BY DEF Owners
<1>9. QED
  BY <1>1, <1>2, <1>3, <1>4, <1>6, <1>7, <1>8 DEF Owners

\* The packets of a queue are the elements of the sequence.
LEMMA PacketsAre ==
    ASSUME NEW S, NEW q \in Seq(S)
    PROVE  {q[i] : i \in 1 .. Len(q)} = ToSet(q)
  BY DEF ToSet

\* Taking the head of a sequence adds no element.
LEMMA TailSet ==
    ASSUME NEW S, NEW q \in Seq(S), q # <<>>
    PROVE  ToSet(Tail(q)) \subseteq ToSet(q)
<1>1. /\ Tail(q) \in Seq(S) /\ Len(Tail(q)) = Len(q) - 1 /\ Len(q) \in Nat
      /\ \A i \in 1 .. Len(q) - 1 : Tail(q)[i] = q[i + 1]
  OBVIOUS
<1>2. DOMAIN q = 1 .. Len(q) /\ DOMAIN Tail(q) = 1 .. Len(q) - 1
  BY <1>1
<1>3. ASSUME NEW x \in ToSet(Tail(q)) PROVE x \in ToSet(q)
  <2>1. PICK i \in 1 .. Len(q) - 1 : x = Tail(q)[i]
    BY <1>2 DEF ToSet
  <2>2. x = q[i + 1] /\ i + 1 \in DOMAIN q
    BY <1>1, <1>2, <2>1
  <2>3. QED
    BY <2>2 DEF ToSet
<1>4. QED
  BY <1>3

\* The packet that data adds to the queue of its socket.
LEMMA DataPackets ==
    ASSUME TypeOK, TypeOK', ReplyFrame, DataEffect
    PROVE  \A s \in Sock : \A p \in Packets(s)' :
               p \in Packets(s) \/ (s = Head(replies).sock /\ p.owner = Head(replies).owner)
<1> DEFINE r == Head(replies)
<1>1. r.sock \in Sock
  BY TailKept DEF Answer
<1>2. PICK x : x.owner = r.owner /\ ws_rx' = [ws_rx EXCEPT ![r.sock] = Append(@, x)]
  BY DEF DataEffect
<1> HIDE DEF r
<1>3. ASSUME NEW s \in Sock, NEW p \in Packets(s)', p \notin Packets(s)
      PROVE  s = r.sock /\ p.owner = r.owner
  <2>1. PICK i \in 1 .. Len(ws_rx'[s]) : p = ws_rx'[s][i]
    BY <1>3 DEF Packets
  <2>2. ws_rx[s] \in Seq(Packet) /\ ws_rx'[s] \in Seq(Packet)
    BY DEF TypeOK
  <2>3. s = r.sock
    <3> SUFFICES ASSUME s # r.sock PROVE FALSE
      OBVIOUS
    <3>1. ws_rx'[s] = ws_rx[s]
      BY <1>1, <1>2 DEF TypeOK
    <3>2. QED
      BY <1>3, <3>1 DEF Packets
  <2>4. ws_rx'[s] = Append(ws_rx[s], x)
    BY <1>1, <1>2, <2>3 DEF TypeOK
  <2>5. i = Len(ws_rx[s]) + 1
    <3> SUFFICES ASSUME i # Len(ws_rx[s]) + 1 PROVE FALSE
      OBVIOUS
    <3>1. i \in 1 .. Len(ws_rx[s]) /\ p = ws_rx[s][i]
      BY <2>1, <2>2, <2>4
    <3>2. QED
      BY <1>3, <3>1 DEF Packets
  <2>6. p = x
    BY <2>1, <2>2, <2>4, <2>5
  <2>7. QED
    BY <2>3, <2>6, <1>2
<1>4. QED
  BY <1>3 DEF r

\* What an answer adds to the requests and replies.
LEMMA AnswerOut ==
    ASSUME TypeOK, AnswerEffect
    PROVE  /\ asked' \subseteq asked
           /\ \A x \in Out' : \E q \in Out :
                  x.sock = q.sock /\ x.session = q.session /\ x.owner = q.owner
<1>1. PICK q \in asked, a \in Answer :
        /\ asked' = asked \ {q} /\ replies' = Append(replies, a)
        /\ a.sock = q.sock /\ a.session = q.session /\ a.owner = q.owner
  BY DEF AnswerEffect
<1>2. ToSet(replies') = ToSet(replies) \cup {a}
  BY <1>1, AppendSet DEF TypeOK
<1>3. \A x \in Out' : x \in Out \/ x = a
  BY <1>1, <1>2 DEF Out
<1>4. q \in Out
  BY DEF Out
<1>5. QED
  BY <1>1, <1>3, <1>4

\* Every step keeps the incarnations in order.
LEMMA OwnersStep ==
    ASSUME TypeOK, Owners, Next
    PROVE  Owners'
<1>1. CASE Poll \/ PollAsks \/ Events
  BY <1>1, DriverKeeps, KeepsOwners
<1>2. CASE Answers
  <2>1. AnswerEffect
    BY <1>2, AnswersIs
  <2>2. UNCHANGED <<gastrSockets, ws_poll, ws_rx, picked, opened, owner>>
    BY <2>1 DEF AnswerEffect
  <2>3. \A q \in Out' : q.owner \in 1 .. opened /\ \A t \in Sock : q.owner = owner[t] => t = q.sock
    BY <2>1, AnswerOut DEF Owners
  <2>4. QED
    BY <2>2, <2>3 DEF Owners, Used
<1>3. CASE Open
  <2>1. OpenEffect
    BY <1>3, OpenIs
  <2>2. PICK s \in Sock :
          /\ ~Used(s)
          /\ \A t \in Sock \ {s} : /\ gastrSockets'[t] = gastrSockets[t]
                                   /\ ws_poll'[t] = ws_poll[t] /\ owner'[t] = owner[t]
          /\ gastrSockets'[s].used /\ ws_poll'[s] /\ owner'[s] = opened + 1
    BY <2>1 DEF OpenEffect
  <2>3. /\ opened' = opened + 1 /\ opened \in Nat
        /\ asked' = asked /\ replies' = replies /\ ws_rx' = ws_rx /\ picked' = picked
    BY <2>1 DEF OpenEffect, TypeOK
  <2>4. \A t \in Sock : owner[t] \in 0 .. opened
    BY DEF Owners
  <2>5. \A t \in Sock : owner'[t] \in 0 .. opened' /\ (Used(t)' => owner'[t] > 0)
    BY <2>2, <2>3, <2>4 DEF Owners, Used
  <2>6. \A t, v \in Sock : t # v /\ owner'[t] = owner'[v] => owner'[t] = 0
    <3> SUFFICES ASSUME NEW t \in Sock, NEW v \in Sock, t # v, owner'[t] = owner'[v]
                 PROVE  owner'[t] = 0
      OBVIOUS
    <3>1. t # s /\ v # s
      BY <2>2, <2>3, <2>4
    <3>2. QED
      BY <3>1, <2>2 DEF Owners
  <2>7. Out' = Out
    BY <2>3 DEF Out
  <2>8. \A q \in Out : q.owner \in 1 .. opened /\ \A t \in Sock : q.owner = owner[t] => t = q.sock
    BY DEF Owners
  <2>9. \A q \in Out' : /\ q.owner \in 1 .. opened'
                        /\ \A t \in Sock : q.owner = owner'[t] => t = q.sock
    <3> SUFFICES ASSUME NEW q \in Out
                 PROVE  q.owner \in 1 .. opened' /\ \A t \in Sock : q.owner = owner'[t] => t = q.sock
      BY <2>7
    <3>1. q.owner # owner'[s] /\ q.owner \in 1 .. opened'
      BY <2>2, <2>3, <2>8
    <3>2. QED
      BY <2>2, <2>8, <3>1
  <2>11. \A t \in Sock : ~Used(t)' => ws_rx'[t] = <<>> /\ ~ws_poll'[t]
    BY <2>2, <2>3 DEF Owners, Used
  <2>12. picked' # -1 /\ Used(picked)' => ws_poll'[picked']
    BY <2>2, <2>3 DEF Owners, Used, TypeOK
  <2>13. QED
    BY <2>5, <2>6, <2>9, <2>11, <2>12 DEF Owners
<1>4. ASSUME NEW s \in Sock, Close(s) PROVE Owners'
  <2>1. CloseEffect(s)
    BY <1>4, CloseIs
  <2>2. /\ opened' = opened /\ owner' = owner /\ asked' \subseteq asked
        /\ replies' = replies /\ picked' = picked
        /\ \A t \in Sock \ {s} : /\ gastrSockets'[t] = gastrSockets[t]
                                 /\ ws_poll'[t] = ws_poll[t] /\ ws_rx'[t] = ws_rx[t]
        /\ ~gastrSockets'[s].used /\ ~ws_poll'[s] /\ ws_rx'[s] = <<>>
    BY <2>1 DEF CloseEffect
  <2>3. Out' \subseteq Out
    BY <2>2 DEF Out
  <2>4. \A t \in Sock : Used(t)' => Used(t)
    BY <2>2 DEF Used
  <2>6. \A t \in Sock : ~Used(t)' => ws_rx'[t] = <<>> /\ ~ws_poll'[t]
    BY <2>2 DEF Owners, Used
  <2>7. picked' # -1 /\ Used(picked)' => ws_poll'[picked']
    BY <2>2 DEF Owners, Used, TypeOK
  <2>8. /\ \A t \in Sock : owner'[t] \in 0 .. opened' /\ (Used(t)' => owner'[t] > 0)
        /\ \A t, v \in Sock : t # v /\ owner'[t] = owner'[v] => owner'[t] = 0
        /\ \A q \in Out' : /\ q.owner \in 1 .. opened'
                           /\ \A t \in Sock : q.owner = owner'[t] => t = q.sock
    BY <2>2, <2>3, <2>4 DEF Owners
  <2>9. QED
    BY <2>6, <2>7, <2>8 DEF Owners
<1>5. ASSUME NEW s \in Sock, SockRecvfrom(s) PROVE Owners'
  <2>1. RecvEffect(s)
    BY <1>5, RecvIs
  <2>2. /\ UNCHANGED <<gastrSockets, ws_poll, picked, asked, replies, opened, owner>>
        /\ \A t \in Sock : ~Used(t) => ws_rx'[t] = ws_rx[t]
    BY <2>1 DEF RecvEffect, TypeOK
  <2>3. QED
    BY <2>2 DEF Owners, Used, Out, Live
<1>6. QED
  BY <1>1, <1>2, <1>3, <1>4, <1>5 DEF Next

\* The packets are the same when the queues are.
LEMMA PacketsSame ==
    ASSUME ws_rx' = ws_rx
    PROVE  \A s \in Sock : Packets(s)' = Packets(s)
  BY DEF Packets

\* Taking a packet adds none.
LEMMA PacketsTail ==
    ASSUME TypeOK, TypeOK', NEW s \in Sock, RecvEffect(s)
    PROVE  \A t \in Sock : Packets(t)' \subseteq Packets(t)
<1>1. ASSUME NEW t \in Sock PROVE Packets(t)' \subseteq Packets(t)
  <2>1. ws_rx[t] \in Seq(Packet) /\ ws_rx'[t] \in Seq(Packet)
    BY DEF TypeOK
  <2>2. Packets(t) = ToSet(ws_rx[t]) /\ Packets(t)' = ToSet(ws_rx'[t])
    BY <2>1, PacketsAre DEF Packets
  <2>3. CASE t = s
    <3>1. ws_rx'[t] = Tail(ws_rx[t]) /\ ws_rx[t] # <<>>
      BY <2>3 DEF RecvEffect, TypeOK
    <3>2. QED
      BY <2>1, <2>2, <3>1, TailSet
  <2>4. CASE t # s
    <3>1. ws_rx'[t] = ws_rx[t]
      BY <2>4 DEF RecvEffect, TypeOK
    <3>2. QED
      BY <2>2, <3>1
  <2>5. QED
    BY <2>3, <2>4
<1>2. QED
  BY <1>1

\* Every step keeps session numbers and incarnations together.
LEMMA SessionsStep ==
    ASSUME TypeOK, TypeOK', Owners, Sessions, Next
    PROVE  Sessions'
<1> SUFFICES ASSUME opened' < SessionMod
             PROVE  /\ gu16SessionID' = opened'
                    /\ \A s \in Sock : Used(s)' => gastrSockets'[s].session = owner'[s]
                    /\ \A q \in Out' : q.session = q.owner
                    /\ \A s \in Sock : \A p \in Packets(s)' : p.owner = owner'[s]
  BY DEF Sessions, RightOwner
<1> DEFINE Held == /\ gu16SessionID = opened
                   /\ \A s \in Sock : Used(s) => gastrSockets[s].session = owner[s]
                   /\ \A q \in Out : q.session = q.owner
                   /\ \A s \in Sock : \A p \in Packets(s) : p.owner = owner[s]
<1>1. opened < SessionMod => Held
  BY DEF Sessions, RightOwner
<1> HIDE DEF Held
<1>2. CASE Poll \/ PollAsks \/ Events
  <2>1. Keeps
    BY <1>2, DriverKeeps
  <2>2. UNCHANGED <<gu16SessionID, opened, owner>>
    BY <2>1 DEF Keeps
  <2>3. Held
    BY <1>1, <2>2
  <2>4. \A s \in Sock : Used(s)' => gastrSockets'[s].session = owner'[s]
    BY <2>1, <2>2, <2>3 DEF Keeps, Used, Held
  <2>5. \A q \in Out' : q.session = q.owner
    BY <2>1, <2>3, OutKeeps DEF Held, Live
  <2>6. \A s \in Sock : \A p \in Packets(s)' : p.owner = owner'[s]
    <3>1. ws_rx' = ws_rx \/ (ReplyFrame /\ DataEffect)
      <4>1. CASE Poll
        BY <4>1 DEF Poll
      <4>2. CASE PollAsks
        BY <4>2 DEF PollAsks
      <4>3. CASE Events
        BY <4>3, EventsIs DEF DiscardEffect, NextEffect
      <4>4. QED
        BY <1>2, <4>1, <4>2, <4>3
    <3>2. CASE ws_rx' = ws_rx
      BY <2>2, <2>3, <3>2, PacketsSame DEF Held
    <3>3. CASE ReplyFrame /\ DataEffect
      <4> DEFINE r == Head(replies)
      <4>1. r.session = gastrSockets[r.sock].session /\ Used(r.sock)
        BY <3>3 DEF DataEffect, Current
      <4>2. r \in Out /\ r.sock \in Sock
        BY <3>3, HeadReply DEF ReplyFrame, Out, Answer
      <4>3. r.owner = owner[r.sock]
        BY <2>3, <4>1, <4>2 DEF Held
      <4> HIDE DEF r
      <4>4. \A s \in Sock : \A p \in Packets(s)' :
               p \in Packets(s) \/ (s = r.sock /\ p.owner = r.owner)
        BY <3>3, DataPackets DEF r
      <4>5. QED
        BY <2>2, <2>3, <4>3, <4>4 DEF Held
    <3>4. QED
      BY <3>1, <3>2, <3>3
  <2>7. QED
    BY <2>2, <2>3, <2>4, <2>5, <2>6 DEF Held
<1>3. CASE Answers
  <2>1. AnswerEffect
    BY <1>3, AnswersIs
  <2>2. UNCHANGED <<gastrSockets, gu16SessionID, ws_rx, opened, owner>>
    BY <2>1 DEF AnswerEffect
  <2>3. Held
    BY <1>1, <2>2
  <2>4. \A q \in Out' : q.session = q.owner
    BY <2>1, <2>3, AnswerOut DEF Held
  <2>5. QED
    BY <2>2, <2>3, <2>4, PacketsSame DEF Held, Used
<1>4. CASE Open
  <2>1. OpenEffect
    BY <1>4, OpenIs
  <2>2. PICK s \in Sock :
          /\ ~Used(s)
          /\ \A t \in Sock \ {s} : gastrSockets'[t] = gastrSockets[t] /\ owner'[t] = owner[t]
          /\ gastrSockets'[s].session = NextSession /\ owner'[s] = opened + 1
    BY <2>1 DEF OpenEffect
  <2>3. /\ opened' = opened + 1 /\ opened \in Nat /\ gu16SessionID' = NextSession
        /\ asked' = asked /\ replies' = replies /\ ws_rx' = ws_rx
    BY <2>1 DEF OpenEffect, TypeOK
  <2>4. Held
    BY <1>1, <2>3, RxAssumption
  <2>5. NextSession = opened + 1
    <3>1. gu16SessionID + 1 < SessionMod
      BY <2>3, <2>4 DEF Held
    <3>2. QED
      BY <2>4, <3>1, NextSessionFollows DEF Held
  <2>6. \A t \in Sock : Used(t)' => gastrSockets'[t].session = owner'[t]
    BY <2>2, <2>4, <2>5 DEF Held, Used
  <2>7. \A q \in Out' : q.session = q.owner
    BY <2>3, <2>4 DEF Held, Out
  <2>8. ASSUME NEW t \in Sock, NEW p \in Packets(t)' PROVE p.owner = owner'[t]
    <3>1. p \in Packets(t)
      BY <2>3, <2>8, PacketsSame
    <3>2. t # s
      <4> SUFFICES ASSUME t = s PROVE FALSE
        OBVIOUS
      <4>1. ws_rx[t] = <<>>
        BY <2>2 DEF Owners
      <4>2. QED
        BY <3>1, <4>1 DEF Packets
    <3>3. QED
      BY <2>2, <2>4, <3>1, <3>2 DEF Held
  <2>9. QED
    BY <2>3, <2>5, <2>6, <2>7, <2>8
<1>5. ASSUME NEW s \in Sock, Close(s) 
      PROVE  /\ gu16SessionID' = opened'
             /\ \A t \in Sock : Used(t)' => gastrSockets'[t].session = owner'[t]
             /\ \A q \in Out' : q.session = q.owner
             /\ \A t \in Sock : \A p \in Packets(t)' : p.owner = owner'[t]
  <2>1. CloseEffect(s)
    BY <1>5, CloseIs
  <2>2. /\ UNCHANGED <<opened, gu16SessionID, owner, replies>>
        /\ asked' \subseteq asked
        /\ \A t \in Sock \ {s} : gastrSockets'[t] = gastrSockets[t] /\ ws_rx'[t] = ws_rx[t]
        /\ ~gastrSockets'[s].used /\ ws_rx'[s] = <<>>
    BY <2>1 DEF CloseEffect
  <2>3. Held
    BY <1>1, <2>2
  <2>4. \A t \in Sock : Packets(t)' \subseteq Packets(t)
    BY <2>2 DEF Packets
  <2>5. Out' \subseteq Out
    BY <2>2 DEF Out
  <2>6. QED
    BY <2>2, <2>3, <2>4, <2>5 DEF Held, Used
<1>6. ASSUME NEW s \in Sock, SockRecvfrom(s)
      PROVE  /\ gu16SessionID' = opened'
             /\ \A t \in Sock : Used(t)' => gastrSockets'[t].session = owner'[t]
             /\ \A q \in Out' : q.session = q.owner
             /\ \A t \in Sock : \A p \in Packets(t)' : p.owner = owner'[t]
  <2>1. RecvEffect(s)
    BY <1>6, RecvIs
  <2>2. UNCHANGED <<gastrSockets, asked, replies, opened, owner, gu16SessionID>>
    BY <2>1 DEF RecvEffect
  <2>3. Held
    BY <1>1, <2>2
  <2>4. \A t \in Sock : Packets(t)' \subseteq Packets(t)
    BY <2>1, PacketsTail
  <2>5. QED
    BY <2>2, <2>3, <2>4 DEF Held, Used, Out
<1>7. QED
  BY <1>2, <1>3, <1>4, <1>5, <1>6 DEF Next

-----------------------------------------------------------------------------
(* Chains *)

\* A chain just allocated is in no queue and is not the one in use.
LEMMA FreshIs ==
    ASSUME NEW c, Fresh(c), \A s \in Sock : \A p \in Packets(s) : p.chain \in Chains
    PROVE  /\ \A s \in Sock : \A p \in Packets(s) : p.chain # c
           /\ rx_buf \in Chains => rx_buf # c
<1>1. NoChain \notin Chains
  BY RxAssumption DEF NoChain
<1>2. CASE c = NoChain
  BY <1>1, <1>2
<1>3. CASE c \notin InUse
  BY <1>3 DEF InUse, Packets
<1>4. QED
  BY <1>2, <1>3 DEF Fresh

\* What data that is read does to the chains.
LEMMA DataChain ==
    ASSUME TypeOK, ReplyFrame, DataEffect
    PROVE  /\ Fresh(rx_buf') /\ (gu8FlowCtrl' <=> rx_buf' = NoChain)
           /\ \E x : /\ x.chain = rx_buf
                     /\ ws_rx' = [ws_rx EXCEPT ![Head(replies).sock] = Append(@, x)]
<1> DEFINE r == Head(replies)
           X(s1) == [chain |-> s1.rx_buf, len |-> s1.cur_buf[2],
                     pieces |-> r.pieces, data |-> r.data, owner |-> r.owner]
<1>1. PICK chain \in Chain, ok1 \in Outcomes, ok2 \in Outcomes, s1 \in RxState :
        /\ Fresh(chain)
        /\ r.pieces = 1 => s1 = Taken(r)
        /\ r.pieces # 1 => StartsRx(Taken(r), s1, Suitable(r.sock), TRUE, NoChain, ok1)
        /\ ws_rx' = [ws_rx EXCEPT ![r.sock] = Append(@, X(s1))]
        /\ StartsRx(HandedOver(s1), State', Suitable(r.sock), FALSE, chain, ok2)
  BY DEF DataEffect
<1>2. Taken(r).rx_buf = rx_buf
  BY TailKept, TakenIs
<1>3. s1.rx_buf = rx_buf
  BY <1>1, <1>2 DEF StartsRx
<1>4. HandedOver(s1).rx_buf = NoChain
  BY HandedOverIs
<1>5. State'.rx_buf = rx_buf' /\ State'.flow = gu8FlowCtrl'
  BY DEF State
<1>6. Fresh(rx_buf') /\ (gu8FlowCtrl' <=> rx_buf' = NoChain)
  BY <1>1, <1>4, <1>5 DEF StartsRx
<1>7. X(s1).chain = rx_buf
  BY <1>3
<1>8. QED
  BY <1>1, <1>6, <1>7

\* No chain is handed out while it is held.
Apart ==
    \A s, t \in Sock : \A i \in 1 .. Len(ws_rx[s]), j \in 1 .. Len(ws_rx[t]) :
        ws_rx[s][i].chain = ws_rx[t][j].chain => s = t /\ i = j

\* Packets keep their chains apart when none is added.
LEMMA ApartStays ==
    ASSUME TypeOK, TypeOK', Apart,
           \/ ws_rx' = ws_rx
           \/ \E s \in Sock : CloseEffect(s) \/ RecvEffect(s)
    PROVE  Apart'
<1>1. CASE ws_rx' = ws_rx
  BY <1>1 DEF Apart
<1>2. ASSUME NEW s \in Sock, CloseEffect(s) PROVE Apart'
  <2>1. \A t \in Sock \ {s} : ws_rx'[t] = ws_rx[t]
    BY <1>2 DEF CloseEffect
  <2>2. Len(ws_rx'[s]) = 0
    BY <1>2 DEF CloseEffect
  <2>3. QED
    BY <2>1, <2>2 DEF Apart
<1>3. ASSUME NEW s \in Sock, RecvEffect(s) PROVE Apart'
  <2>1. /\ \A t \in Sock \ {s} : ws_rx'[t] = ws_rx[t]
        /\ ws_rx'[s] = Tail(ws_rx[s]) /\ ws_rx[s] # <<>>
    BY <1>3 DEF RecvEffect, TypeOK
  <2> DEFINE k(t) == IF t = s THEN 1 ELSE 0
  <2>2. \A t \in Sock : Len(ws_rx[t]) \in Nat
    BY DEF TypeOK
  <2>3. \A t \in Sock : \A i \in 1 .. Len(ws_rx'[t]) :
          i + k(t) \in 1 .. Len(ws_rx[t]) /\ ws_rx'[t][i] = ws_rx[t][i + k(t)]
    <3> SUFFICES ASSUME NEW t \in Sock, NEW i \in 1 .. Len(ws_rx'[t])
                 PROVE  i + k(t) \in 1 .. Len(ws_rx[t]) /\ ws_rx'[t][i] = ws_rx[t][i + k(t)]
      OBVIOUS
    <3>1. CASE t = s
      <4>1. ws_rx[s] \in Seq(Packet)
        BY DEF TypeOK
      <4>2. Len(ws_rx'[s]) = Len(ws_rx[s]) - 1
        BY <2>1, <4>1
      <4>3. i \in 1 .. Len(ws_rx[s]) - 1
        BY <3>1, <4>2
      <4>4. ws_rx'[s][i] = ws_rx[s][i + 1]
        BY <2>1, <4>1, <4>3
      <4>5. QED
        BY <3>1, <2>2, <4>3, <4>4
    <3>2. CASE t # s
      BY <3>2, <2>1, <2>2
    <3>3. QED
      BY <3>1, <3>2
  <2> HIDE DEF k
  <2>4. \A t \in Sock : k(t) \in {0, 1}
    BY DEF k
  <2>5. SUFFICES ASSUME NEW t \in Sock, NEW v \in Sock,
                        NEW i \in 1 .. Len(ws_rx'[t]), NEW j \in 1 .. Len(ws_rx'[v]),
                        ws_rx'[t][i].chain = ws_rx'[v][j].chain
                 PROVE  t = v /\ i = j
    BY DEF Apart
  <2>6. t = v /\ i + k(t) = j + k(v)
    <3>1. /\ i + k(t) \in 1 .. Len(ws_rx[t]) /\ ws_rx'[t][i] = ws_rx[t][i + k(t)]
          /\ j + k(v) \in 1 .. Len(ws_rx[v]) /\ ws_rx'[v][j] = ws_rx[v][j + k(v)]
      BY <2>3
    <3>2. ws_rx[t][i + k(t)].chain = ws_rx[v][j + k(v)].chain
      BY <2>5, <3>1
    <3> DEFINE a == i + k(t)
               b == j + k(v)
    <3>3. a \in 1 .. Len(ws_rx[t]) /\ b \in 1 .. Len(ws_rx[v]) /\ ws_rx[t][a].chain = ws_rx[v][b].chain
      BY <3>1, <3>2
    <3> HIDE DEF a, b
    <3>4. t = v /\ a = b
      BY <3>3 DEF Apart
    <3>5. QED
      BY <3>4 DEF a, b
  <2>7. i \in Nat /\ j \in Nat
    BY <2>2
  <2>8. QED
    BY <2>4, <2>6, <2>7
<1>4. QED
  BY <1>1, <1>2, <1>3

\* So they do when one is added with a chain no other has.
LEMMA ApartData ==
    ASSUME TypeOK, TypeOK', Apart, NEW s \in Sock, NEW x,
           ws_rx' = [ws_rx EXCEPT ![s] = Append(@, x)],
           \A t \in Sock : \A p \in Packets(t) : p.chain # x.chain
    PROVE  Apart' /\ \A t \in Sock : \A p \in Packets(t)' : p \in Packets(t) \/ p = x
<1>1. /\ \A t \in Sock \ {s} : ws_rx'[t] = ws_rx[t]
      /\ ws_rx'[s] = Append(ws_rx[s], x)
  BY DEF TypeOK
<1>2. ws_rx[s] \in Seq(Packet)
  BY DEF TypeOK
<1>3. /\ Len(ws_rx'[s]) = Len(ws_rx[s]) + 1 /\ Len(ws_rx[s]) \in Nat
      /\ ws_rx'[s][Len(ws_rx[s]) + 1] = x
      /\ \A i \in 1 .. Len(ws_rx[s]) : ws_rx'[s][i] = ws_rx[s][i]
  BY <1>1, <1>2
<1> DEFINE last(t, i) == t = s /\ i = Len(ws_rx[s]) + 1
<1>4. ASSUME NEW t \in Sock, NEW i \in 1 .. Len(ws_rx'[t])
      PROVE  \/ last(t, i) /\ ws_rx'[t][i] = x
             \/ /\ ~last(t, i) /\ i \in 1 .. Len(ws_rx[t])
                /\ ws_rx'[t][i] = ws_rx[t][i] /\ ws_rx[t][i].chain # x.chain
  <2>1. CASE last(t, i)
    BY <2>1, <1>3
  <2>2. CASE ~last(t, i)
    <3>1. i \in 1 .. Len(ws_rx[t]) /\ ws_rx'[t][i] = ws_rx[t][i]
      <4>1. CASE t = s
        BY <2>2, <4>1, <1>3
      <4>2. CASE t # s
        BY <4>2, <1>1
      <4>3. QED
        BY <4>1, <4>2
    <3>2. ws_rx[t][i] \in Packets(t)
      BY <3>1 DEF Packets
    <3>3. QED
      BY <2>2, <3>1, <3>2
  <2>3. QED
    BY <2>1, <2>2
<1>5. \A t \in Sock : \A p \in Packets(t)' : p \in Packets(t) \/ p = x
  BY <1>4 DEF Packets
<1>6. ASSUME NEW t \in Sock, NEW v \in Sock,
             NEW i \in 1 .. Len(ws_rx'[t]), NEW j \in 1 .. Len(ws_rx'[v]),
             ws_rx'[t][i].chain = ws_rx'[v][j].chain
      PROVE  t = v /\ i = j
  <2>1. CASE last(t, i)
    <3>1. ws_rx'[t][i] = x
      BY <1>4, <2>1
    <3>2. last(v, j)
      BY <1>4, <1>6, <3>1
    <3>3. QED
      BY <2>1, <3>2
  <2>2. CASE ~last(t, i)
    <3>1. /\ i \in 1 .. Len(ws_rx[t]) /\ ws_rx'[t][i] = ws_rx[t][i] 
          /\ ws_rx[t][i].chain # x.chain
      BY <1>4, <2>2
    <3>2. j \in 1 .. Len(ws_rx[v]) /\ ws_rx'[v][j] = ws_rx[v][j]
      BY <1>4, <1>6, <3>1
    <3>3. QED
      BY <1>6, <3>1, <3>2 DEF Apart
  <2>3. QED
    BY <2>1, <2>2
<1>7. Apart'
  BY <1>6 DEF Apart
<1>8. QED
  BY <1>5, <1>7

\* What a reply without data does to the chains.
LEMMA NextChain ==
    ASSUME TypeOK, ReplyFrame, NextEffect
    PROVE  /\ IF rx_buf # NoChain THEN rx_buf' = rx_buf ELSE Fresh(rx_buf')
           /\ gu8FlowCtrl' <=> rx_buf' = NoChain
<1> DEFINE r == Head(replies)
<1>1. PICK polled \in SUBSET Sock, cont \in BOOLEAN, chain \in Chain, ok \in Outcomes :
        Fresh(chain) /\ StartsRx(Taken(r), State', polled, cont, chain, ok)
  BY DEF NextEffect
<1>2. Taken(r).rx_buf = rx_buf
  BY TailKept, TakenIs
<1>3. State'.rx_buf = rx_buf' /\ State'.flow = gu8FlowCtrl'
  BY DEF State
<1>4. QED
  BY <1>1, <1>2, <1>3 DEF StartsRx

\* Every step keeps the chains apart.
LEMMA ChainedStep ==
    ASSUME TypeOK, TypeOK', Owners, Chained, Next
    PROVE  Chained'
<1> DEFINE C1 == \A s \in Sock : \A p \in Packets(s) : p.chain \in Chains
           C2 == rx_buf # NoChain \/ gu8FlowCtrl \/ (picked = -1 /\ Out = {})
           C3 == \A s \in Sock : \A p \in Packets(s) : p.chain # rx_buf
<1>1. C1 /\ C2 /\ C3 /\ Apart
  BY DEF Chained, NoSharing, Apart
<1>2. SUFFICES C1' /\ C2' /\ C3' /\ Apart'
  BY DEF Chained, NoSharing, Apart
<1>3. ASSUME ws_rx' = ws_rx, rx_buf' = rx_buf \/ Fresh(rx_buf')
      PROVE  C1' /\ C3' /\ Apart'
  <2>1. \A s \in Sock : Packets(s)' = Packets(s)
    BY <1>3, PacketsSame
  <2>2. Apart'
    BY <1>1, <1>3, ApartStays
  <2>3. \A s \in Sock : \A p \in Packets(s) : p.chain # rx_buf'
    BY <1>1, <1>3, FreshIs
  <2>4. QED
    BY <1>1, <2>1, <2>2, <2>3
<1>4. ASSUME \A s \in Sock : Packets(s)' \subseteq Packets(s), rx_buf' = rx_buf
      PROVE  C1' /\ C3'
  BY <1>1, <1>4
<1>5. CASE Poll
  <2>1. PollEffect
    BY <1>5, PollIs
  <2>2. ws_rx' = ws_rx /\ (rx_buf' = rx_buf \/ Fresh(rx_buf')) /\ C2'
    BY <2>1 DEF PollEffect
  <2>3. QED
    BY <1>3, <2>2
<1>6. CASE PollAsks
  <2>1. PollAsksEffect /\ picked # -1
    BY <1>6, PollAsksIs DEF PollAsks
  <2>2. ws_rx' = ws_rx /\ rx_buf' = rx_buf /\ C2'
    BY <1>1, <2>1 DEF PollAsksEffect
  <2>3. QED
    BY <1>3, <2>2
<1>7. CASE Events
  <2>1. ReplyFrame /\ (DiscardEffect \/ NextEffect \/ DataEffect)
    BY <1>7, EventsIs
  <2>2. rx_buf # NoChain /\ rx_buf \in Chains
    <3>1. Out # {} /\ ~gu8FlowCtrl
      BY <2>1, HeadReply DEF ReplyFrame, Out
    <3>2. QED
      BY <1>1, <3>1 DEF TypeOK, Chain
  <2>3. CASE DiscardEffect
    <3>1. ws_rx' = ws_rx /\ rx_buf' = rx_buf /\ C2'
      BY <2>2, <2>3 DEF DiscardEffect
    <3>2. QED
      BY <1>3, <3>1
  <2>4. CASE NextEffect
    <3>1. ws_rx' = ws_rx
      BY <2>4 DEF NextEffect
    <3>2. (rx_buf' = rx_buf \/ Fresh(rx_buf')) /\ C2'
      BY <2>1, <2>4, NextChain
    <3>3. QED
      BY <1>3, <3>1, <3>2
  <2>5. CASE DataEffect
    <3>1. Fresh(rx_buf') /\ C2'
      BY <2>1, <2>5, DataChain
    <3>2. PICK x : /\ x.chain = rx_buf
                   /\ ws_rx' = [ws_rx EXCEPT ![Head(replies).sock] = Append(@, x)]
      BY <2>1, <2>5, DataChain
    <3>3. Head(replies).sock \in Sock
      BY <2>1, TailKept DEF Answer
    <3>4. /\ Apart'
          /\ \A t \in Sock : \A p \in Packets(t)' : p \in Packets(t) \/ p = x
      BY <1>1, <3>2, <3>3, ApartData
    <3>5. /\ \A s \in Sock : \A p \in Packets(s) : p.chain # rx_buf'
          /\ rx_buf # rx_buf'
      BY <1>1, <2>2, <3>1, FreshIs
    <3>6. C1'
      BY <1>1, <2>2, <3>2, <3>4
    <3>7. C3'
      BY <3>2, <3>4, <3>5
    <3>8. QED
      BY <3>1, <3>4, <3>6, <3>7
  <2>6. QED
    BY <2>1, <2>3, <2>4, <2>5
<1>8. CASE Answers
  <2>1. AnswerEffect
    BY <1>8, AnswersIs
  <2>2. ws_rx' = ws_rx /\ rx_buf' = rx_buf /\ gu8FlowCtrl' = gu8FlowCtrl
    BY <2>1 DEF AnswerEffect, driver
  <2>3. Out # {}
    BY <2>1 DEF AnswerEffect, Out
  <2>4. C2'
    BY <1>1, <2>2, <2>3
  <2>5. QED
    BY <1>3, <2>2, <2>4
<1>9. CASE Open
  <2>1. OpenEffect
    BY <1>9, OpenIs
  <2>2. ws_rx' = ws_rx /\ rx_buf' = rx_buf /\ C2'
    BY <1>1, <2>1 DEF OpenEffect, driver, Out
  <2>3. QED
    BY <1>3, <2>2
<1>10. ASSUME NEW s \in Sock, Close(s) PROVE C1' /\ C2' /\ C3' /\ Apart'
  <2>1. CloseEffect(s)
    BY <1>10, CloseIs
  <2>2. /\ rx_buf' = rx_buf /\ gu8FlowCtrl' = gu8FlowCtrl /\ picked' = picked
        /\ asked' \subseteq asked /\ replies' = replies
    BY <2>1 DEF CloseEffect, driver
  <2>3. Out' \subseteq Out
    BY <2>2 DEF Out
  <2>4. C2'
    BY <1>1, <2>2, <2>3
  <2>5. Apart'
    BY <1>1, <2>1, ApartStays
  <2>6. \A t \in Sock : Packets(t)' \subseteq Packets(t)
    BY <2>1 DEF CloseEffect, Packets
  <2>7. QED
    BY <1>4, <2>2, <2>4, <2>5, <2>6
<1>11. ASSUME NEW s \in Sock, SockRecvfrom(s) PROVE C1' /\ C2' /\ C3' /\ Apart'
  <2>1. RecvEffect(s)
    BY <1>11, RecvIs
  <2>2. rx_buf' = rx_buf /\ C2'
    BY <1>1, <2>1 DEF RecvEffect, driver, Out
  <2>3. Apart'
    BY <1>1, <2>1, ApartStays
  <2>4. \A t \in Sock : Packets(t)' \subseteq Packets(t)
    BY <2>1, PacketsTail
  <2>5. QED
    BY <1>4, <2>2, <2>3, <2>4
<1>12. QED
  BY <1>5, <1>6, <1>7, <1>8, <1>9, <1>10, <1>11 DEF Next

-----------------------------------------------------------------------------
(* One request *)

\* The only request is for socket m, which is polled.
OneAsked(m) ==
    /\ m \in Sock /\ gastrSockets[m].pending /\ ws_poll[m]
    /\ \E x : x.sock = m /\ asked \subseteq {x}
    /\ asked # {} => polling \/ gu8FlowCtrl

\* After the only reply has been taken, One holds if one socket is asked for.
LEMMA OneAfter ==
    ASSUME picked' = -1, replies' = <<>>, asked' = {} \/ \E m : OneAsked(m)'
    PROVE  One'
<1>1. Out' = asked' /\ Len(replies') = 0
  BY DEF Out, ToSet
<1>2. CASE asked' = {}
  BY <1>1, <1>2 DEF One
<1>3. ASSUME NEW m, OneAsked(m)' PROVE One'
  <2>1. PICK x : x.sock = m /\ asked' \subseteq {x}
    BY <1>3 DEF OneAsked
  <2>2. \A q \in asked' : gastrSockets'[q.sock].pending /\ ws_poll'[q.sock]
    BY <1>3, <2>1 DEF OneAsked
  <2>3. QED
    BY <1>1, <1>3, <2>1, <2>2 DEF One, OneAsked
<1>4. QED
  BY <1>2, <1>3

\* A reply that is taken is alone: nothing is asked for.
LEMMA ReplyAlone ==
    ASSUME TypeOK, ReplyFrame, One
    PROVE  /\ asked = {} /\ replies' = <<>> /\ Out = {Head(replies)}
           /\ Taken(Head(replies)).asked = {}
<1>1. replies # <<>> /\ Len(replies) <= 1 /\ replies' = Tail(replies) /\ asked = {}
  BY DEF ReplyFrame, One
<1>2. /\ Head(replies) \in Answer /\ Head(replies) \in ToSet(replies)
      /\ Tail(replies) = <<>> /\ \A q \in ToSet(replies) : q = Head(replies)
  BY <1>1, HeadReply
<1>3. Out = {Head(replies)}
  BY <1>1, <1>2 DEF Out
<1>4. Taken(Head(replies)).asked = asked
  BY <1>2, TakenIs
<1>5. QED
  BY <1>1, <1>2, <1>3, <1>4

\* Asking for a socket when nothing is asked for, or again for the same.
LEMMA AsksOne ==
    ASSUME NEW st, NEW m \in Sock, NEW buf, NEW ok, Asks(st, State', m, buf, ok), ws_poll'[m],
           \/ st.asked = {}
           \/ st.socks[m].pending /\ \E x : x.sock = m /\ st.asked \subseteq {x}
    PROVE  OneAsked(m)'
<1>1. /\ State'.socks = gastrSockets' /\ State'.asked = asked' /\ State'.polling = polling'
  BY DEF State
<1>2. gastrSockets'[m].pending
  BY <1>1 DEF Asks
<1>3. st.socks[m].pending \/ ok => polling'
  BY <1>1 DEF Asks
<1>4. CASE st.socks[m].pending \/ ~ok
  <2>1. asked' = st.asked
    BY <1>1, <1>4 DEF Asks, Adds
  <2>2. CASE st.asked = {}
    <3>1. \E x : x.sock = m /\ asked' \subseteq {x}
      <4>1. [sock |-> m].sock = m /\ asked' \subseteq {[sock |-> m]}
        BY <2>1, <2>2
      <4>2. QED
        BY <4>1
    <3>2. QED
      BY <1>2, <2>1, <2>2, <3>1 DEF OneAsked
  <2>3. CASE st.socks[m].pending /\ \E x : x.sock = m /\ st.asked \subseteq {x}
    BY <1>2, <1>3, <2>1, <2>3 DEF OneAsked
  <2>4. QED
    BY <2>2, <2>3
<1>5. CASE ~(st.socks[m].pending \/ ~ok)
  <2>0. polling'
    BY <1>3, <1>5
  <2>1. PICK q : IsReq(q, st.socks, m) /\ asked' = st.asked \cup {q}
    BY <1>1, <1>5 DEF Asks, Adds
  <2>2. st.asked = {} /\ q.sock = m
    BY <1>5, <2>1 DEF IsReq
  <2>3. asked' \subseteq {q}
    BY <2>1, <2>2
  <2>4. QED
    BY <1>2, <2>0, <2>2, <2>3 DEF OneAsked
<1>6. QED
  BY <1>4, <1>5

\* A reply without data leaves at most one request.
LEMMA NextOne ==
    ASSUME TypeOK, Owners, One, ReplyFrame, NextEffect
    PROVE  One'
<1> DEFINE r == Head(replies)
<1>1. PICK N \in SUBSET Sock, cont \in BOOLEAN, chain \in Chain, ok \in Outcomes :
        /\ \A m \in N : ws_poll'[m]
        /\ StartsRx(Taken(r), State', N, cont, chain, ok)
  BY DEF NextEffect
<1>2. replies' = <<>> /\ Taken(r).asked = {} /\ picked' = -1
  BY ReplyAlone DEF ReplyFrame
<1>4. \A m \in N : m \in Sock /\ ws_poll'[m]
  BY <1>1
<1> HIDE DEF r
<1>5. State'.asked = asked'
  BY DEF State
<1>6. CASE State'.rx_buf = NoChain \/ N = {}
  <2>1. asked' = {}
    BY <1>1, <1>2, <1>5, <1>6 DEF StartsRx
  <2>2. QED
    BY <1>2, <2>1, OneAfter
<1>7. CASE ~(State'.rx_buf = NoChain \/ N = {})
  <2>0. PICK m \in N : \E buf : Asks(Taken(r), State', m, buf, ok)
    BY <1>1, <1>7 DEF StartsRx
  <2>1. PICK buf : Asks(Taken(r), State', m, buf, ok)
    BY <2>0
  <2>2. OneAsked(m)'
    BY <1>2, <1>4, <2>1, AsksOne
  <2>3. QED
    BY <1>2, <2>2, OneAfter
<1>8. QED
  BY <1>6, <1>7

\* Between the pieces of a reply the socket asked for is the one asked for after it.
LEMMA DataOne ==
    ASSUME TypeOK, Owners, One, ReplyFrame, DataEffect
    PROVE  One'
<1> DEFINE r == Head(replies)
           N == Suitable(r.sock)
<1>1. PICK chain \in Chain, ok1 \in Outcomes, ok2 \in Outcomes, s1 \in RxState :
        /\ r.pieces = 1 => s1 = Taken(r)
        /\ r.pieces # 1 => StartsRx(Taken(r), s1, N, TRUE, NoChain, ok1)
        /\ StartsRx(HandedOver(s1), State', N, FALSE, chain, ok2)
  BY DEF DataEffect
<1>2. replies' = <<>> /\ Taken(r).asked = {} /\ picked' = -1 /\ ws_poll' = ws_poll
  BY ReplyAlone DEF ReplyFrame, DataEffect
<1>3. \A s \in N : s \in Sock /\ ws_poll'[s]
  BY <1>2 DEF Suitable
<1> HIDE DEF r, N
<1>0. PICK m : m = Min(N)
  OBVIOUS
<1>4. State'.asked = asked' /\ State'.flow = gu8FlowCtrl' /\ State'.socks = gastrSockets'
  BY DEF State
<1>5. HandedOver(s1).asked = s1.asked /\ HandedOver(s1).socks = s1.socks
  BY HandedOverIs
<1>6. \/ s1.asked = {}
      \/ N # {} /\ s1.socks[m].pending /\ \E x : x.sock = m /\ s1.asked \subseteq {x}
  <2>1. CASE r.pieces = 1
    BY <1>1, <1>2, <2>1
  <2>2. CASE r.pieces # 1 /\ (s1.rx_buf = NoChain \/ N = {})
    BY <1>1, <1>2, <2>2 DEF StartsRx
  <2>3. CASE r.pieces # 1 /\ ~(s1.rx_buf = NoChain \/ N = {})
    <3>1. PICK buf : Asks(Taken(r), s1, m, buf, ok1)
      BY <1>0, <1>1, <2>3 DEF StartsRx
    <3>2. s1.socks[m].pending
      BY <3>1 DEF Asks
    <3>3. s1.asked = {} \/ \E q : IsReq(q, Taken(r).socks, m) /\ s1.asked = {q}
      BY <1>2, <3>1 DEF Asks, Adds
    <3>4. QED
      BY <2>3, <3>2, <3>3 DEF IsReq
  <2>4. QED
    BY <2>1, <2>2, <2>3
<1>8. CASE State'.rx_buf = NoChain \/ N = {}
  <2>1. asked' = s1.asked /\ gastrSockets' = s1.socks
    BY <1>1, <1>4, <1>5, <1>8 DEF StartsRx
  <2>2. CASE N = {}
    BY <1>2, <1>6, <2>1, <2>2, OneAfter
  <2>3. CASE N # {}
    <3>1. gu8FlowCtrl' /\ m \in Sock /\ ws_poll'[m]
      <4>1. gu8FlowCtrl'
        BY <1>1, <1>4, <1>8, <2>3 DEF StartsRx
      <4>2. N \subseteq Nat
        BY <1>3, RxAssumption DEF Sock
      <4>3. m \in N
        BY <1>0, <2>3, <4>2, MinIs
      <4>4. QED
        BY <1>3, <4>1, <4>3
    <3>2. asked' = {} \/ OneAsked(m)'
      <4> SUFFICES ASSUME asked' # {} PROVE OneAsked(m)'
        OBVIOUS
      <4>1. gastrSockets'[m].pending /\ \E x : x.sock = m /\ asked' \subseteq {x}
        BY <1>6, <2>1
      <4>2. QED
        BY <3>1, <4>1 DEF OneAsked
    <3>3. QED
      BY <1>2, <3>2, OneAfter
  <2>4. QED
    BY <2>2, <2>3
<1>9. CASE ~(State'.rx_buf = NoChain \/ N = {})
  <2>1. m \in N /\ \E buf : Asks(HandedOver(s1), State', m, buf, ok2)
    BY <1>0, <1>1, <1>9 DEF StartsRx
  <2>2. PICK buf : Asks(HandedOver(s1), State', m, buf, ok2)
    BY <2>1
  <2>3. \/ HandedOver(s1).asked = {}
        \/ /\ HandedOver(s1).socks[m].pending
           /\ \E x : x.sock = m /\ HandedOver(s1).asked \subseteq {x}
    <3>1. CASE s1.asked = {}
      BY <1>5, <3>1
    <3>2. CASE s1.socks[m].pending /\ \E x : x.sock = m /\ s1.asked \subseteq {x}
      BY <1>5, <3>2
    <3>3. QED
      BY <1>6, <3>1, <3>2
  <2>4. m \in Sock /\ ws_poll'[m]
    BY <1>3, <2>1
  <2>5. OneAsked(m)'
    BY <2>2, <2>3, <2>4, AsksOne
  <2>6. QED
    BY <1>2, <2>5, OneAfter
<1>10. QED
  BY <1>8, <1>9

\* Requests and replies name a socket.
LEMMA OutSock ==
    ASSUME TypeOK
    PROVE  \A q \in Out : q.sock \in Sock
<1>1. ASSUME NEW q \in asked PROVE q.sock \in Sock
  BY DEF TypeOK, Requests
<1>2. ASSUME NEW q \in ToSet(replies) PROVE q.sock \in Sock
  <2>1. replies \in Seq(Answer)
    BY DEF TypeOK
  <2>2. PICK i \in 1 .. Len(replies) : q = replies[i]
    BY <2>1 DEF ToSet
  <2>3. q \in Answer
    BY <2>1, <2>2
  <2>4. QED
    BY <2>3 DEF Answer
<1>3. QED
  BY <1>1, <1>2 DEF Out

\* No step makes a second request, unless a poll crosses.
LEMMA OneStep ==
    ASSUME TypeOK, TypeOK', Owners, Chained, ~crossed => One, Next, ~crossed'
    PROVE  One'
<1>1. \A q \in Out : \A t \in Sock : q.owner = owner[t] => t = q.sock
  BY DEF Owners
<1>2. CASE Poll
  <2>1. PollEffect
    BY <1>2, PollIs
  <2>2. One
    BY <2>1 DEF PollEffect
  <2>3. UNCHANGED <<gastrSockets, asked, replies, ws_poll, owner>>
    BY <2>1 DEF PollEffect
  <2>4. ASSUME picked' # -1, NEW q \in Out, Live(q) PROVE q.owner = owner[picked']
    <3>1. picked = -1 /\ ~polling
      BY <2>1 DEF PollEffect
    <3>2. polling \/ gu8FlowCtrl
      BY <2>2, <2>4, <3>1 DEF One
    <3>3. q.owner = owner[picked'] \/ (~gu8FlowCtrl /\ Live(q))
      BY <2>1, <2>4 DEF PollEffect
    <3>4. QED
      BY <3>1, <3>2, <3>3
  <2>5. ASSUME picked' = -1, NEW q \in Out, Live(q) PROVE gu8FlowCtrl'
    <3>1. ws_poll[q.sock] /\ q.sock \in Sock
      BY <2>2, <2>5, OutSock DEF One
    <3>2. QED
      BY <2>1, <2>5, <3>1 DEF PollEffect
  <2>6. Out' = Out /\ \A q \in Out : Live(q)' <=> Live(q)
    BY <2>3 DEF Out, Live, Used
  <2>7. QED
    BY <2>2, <2>3, <2>4, <2>5, <2>6 DEF One
<1>3. CASE PollAsks
  <2>1. PollAsksEffect /\ picked \in Sock /\ picked # -1
    BY <1>3, PollAsksIs DEF PollAsks, TypeOK
  <2>2. One
    BY <2>1 DEF PollAsksEffect
  <2>3. /\ replies' = replies /\ ws_poll' = ws_poll /\ owner' = owner /\ picked' = -1
        /\ \A q \in Out : q.owner = owner[picked] \/ Live(q)
    BY <2>1 DEF PollAsksEffect
  <2>4. \A q \in Out : q.owner = owner[picked] /\ q.sock = picked
    BY <1>1, <2>1, <2>2, <2>3 DEF One
  <2>5. CASE ~Used(picked)
    <3>1. gastrSockets' = gastrSockets /\ asked' = asked
      BY <2>1, <2>5 DEF PollAsksEffect
    <3>2. \A q \in Out : ~Live(q)
      BY <2>4, <2>5 DEF Live
    <3>3. Out' = Out /\ \A q \in Out : ~Live(q)'
      BY <2>3, <3>1, <3>2 DEF Out, Live, Used
    <3>4. QED
      BY <2>2, <2>3, <3>1, <3>3 DEF One
  <2>6. CASE Used(picked)
    <3>1. PICK ok : Asks(State, State', picked, <<rx_buf, 1>>, ok)
      BY <2>1, <2>6 DEF PollAsksEffect
    <3>2. /\ State.socks = gastrSockets /\ State.asked = asked
          /\ State'.socks = gastrSockets' /\ State'.asked = asked' /\ State'.polling = polling'
      BY DEF State
    <3>3. gastrSockets'[picked].pending /\ ws_poll[picked]
      BY <2>1, <2>6, <3>1, <3>2 DEF Asks, Owners
    <3>4. CASE gastrSockets[picked].pending
      <4>1. asked' = asked /\ polling'
        BY <3>1, <3>2, <3>4 DEF Asks, Adds
      <4>2. Out' = Out
        BY <2>3, <4>1 DEF Out
      <4>3. \A q \in Out' : gastrSockets'[q.sock].pending /\ ws_poll'[q.sock]
        BY <2>3, <2>4, <3>3, <4>2
      <4>4. QED
        BY <2>2, <2>3, <4>1, <4>3 DEF One
    <3>5. CASE ~gastrSockets[picked].pending
      <4>1. Out = {}
        <5> SUFFICES ASSUME NEW q \in Out PROVE FALSE
          OBVIOUS
        <5>1. Live(q)
          BY <2>4, <2>6 DEF Live
        <5>2. QED
          BY <2>2, <2>4, <3>5, <5>1 DEF One
      <4>2. asked = {} /\ replies = <<>>
        <5>1. asked = {} /\ ToSet(replies) = {}
          BY <4>1 DEF Out
        <5>2. QED
          BY <5>1, HeadReply
      <4>3. PICK m : m = picked
        OBVIOUS
      <4>4. Asks(State, State', m, <<rx_buf, 1>>, ok) /\ m \in Sock /\ ws_poll'[m]
        BY <2>1, <2>3, <3>1, <3>3, <4>3
      <4>5. OneAsked(m)'
        BY <3>2, <4>2, <4>4, AsksOne
      <4>6. QED
        BY <2>3, <4>2, <4>5, OneAfter
    <3>6. QED
      BY <3>4, <3>5
  <2>7. QED
    BY <2>5, <2>6
<1>4. CASE Events
  <2>1. ReplyFrame /\ (DiscardEffect \/ NextEffect \/ DataEffect)
    BY <1>4, EventsIs
  <2>2. One
    BY <2>1 DEF ReplyFrame
  <2>3. CASE DiscardEffect
    <3>1. asked' = {} /\ replies' = <<>> /\ picked' = -1
      BY <2>1, <2>2, <2>3, ReplyAlone DEF DiscardEffect, ReplyFrame
    <3>2. QED
      BY <3>1, OneAfter
  <2>4. QED
    BY <2>1, <2>2, <2>3, NextOne, DataOne
<1>5. CASE Answers
  <2>1. AnswerEffect
    BY <1>5, AnswersIs
  <2>2. One
    BY <2>1 DEF AnswerEffect
  <2>3. PICK q \in asked, a \in Answer :
          /\ asked' = asked \ {q} /\ replies' = Append(replies, a)
          /\ a.sock = q.sock /\ a.owner = q.owner
    BY <2>1 DEF AnswerEffect
  <2>4. asked' = {} /\ replies = <<>>
    BY <2>2, <2>3 DEF One
  <2>5. Len(replies') = 1 /\ ToSet(replies') = {a}
    <3>1. replies' = <<a>>
      BY <2>3, <2>4
    <3>2. QED
      BY <3>1 DEF ToSet
  <2>6. UNCHANGED <<gastrSockets, ws_poll, picked, owner, polling, gu8FlowCtrl>>
    BY <2>1 DEF AnswerEffect, driver
  <2>7. Out' = {a} /\ q \in Out
    BY <2>4, <2>5 DEF Out
  <2>8. Live(a)' => Live(q)
    BY <2>3, <2>6 DEF Live, Used
  <2>9. Live(a)' => gastrSockets'[a.sock].pending /\ ws_poll'[a.sock]
    BY <2>2, <2>3, <2>6, <2>7, <2>8 DEF One
  <2>10. Live(a)' => /\ picked' # -1 => a.owner = owner'[picked']
                     /\ picked' = -1 => polling' \/ gu8FlowCtrl'
    BY <2>2, <2>3, <2>6, <2>7, <2>8 DEF One
  <2>11. QED
    BY <2>4, <2>5, <2>7, <2>9, <2>10 DEF One
<1>6. CASE Open
  <2>1. OpenEffect
    BY <1>6, OpenIs
  <2>2. One
    BY <2>1 DEF OpenEffect
  <2>3. PICK s \in Sock :
          /\ ~Used(s)
          /\ \A t \in Sock \ {s} : /\ gastrSockets'[t] = gastrSockets[t]
                                   /\ ws_poll'[t] = ws_poll[t] /\ owner'[t] = owner[t]
          /\ owner'[s] = opened + 1
    BY <2>1 DEF OpenEffect
  <2>4. UNCHANGED <<picked, asked, replies, polling, gu8FlowCtrl>>
    BY <2>1 DEF OpenEffect, driver
  <2>5. Out' = Out
    BY <2>4 DEF Out
  <2>6. ASSUME NEW q \in Out, Live(q)'
        PROVE  Live(q) /\ q.sock \in Sock \ {s} /\ gastrSockets'[q.sock].pending /\ ws_poll'[q.sock]
    <3>1. q.sock \in Sock /\ q.owner \in 1 .. opened
      BY OutSock DEF Owners
    <3>2. q.sock # s
      BY <2>3, <2>6, <3>1 DEF Live, TypeOK
    <3>3. Live(q)
      BY <2>3, <2>6, <3>1, <3>2 DEF Live, Used
    <3>4. QED
      BY <2>2, <2>3, <3>1, <3>2, <3>3 DEF One
  <2>7. ASSUME picked # -1, NEW q \in Out, Live(q)' PROVE q.owner = owner'[picked]
    <3>0. Live(q) /\ q.sock # s
      BY <2>6, <2>7
    <3>1. q.owner = owner[picked] /\ q.sock = picked /\ picked \in Sock
      BY <1>1, <2>2, <2>7, <3>0 DEF One, TypeOK
    <3>2. QED
      BY <2>3, <3>0, <3>1
  <2>8. QED
    BY <2>2, <2>4, <2>5, <2>6, <2>7 DEF One
<1>7. ASSUME NEW s \in Sock, Close(s) PROVE One'
  <2>1. CloseEffect(s)
    BY <1>7, CloseIs
  <2>2. One
    BY <2>1 DEF CloseEffect
  <2>3. /\ UNCHANGED <<owner, replies, picked, polling, gu8FlowCtrl>>
        /\ asked' \subseteq asked
        /\ \A t \in Sock \ {s} : gastrSockets'[t] = gastrSockets[t] /\ ws_poll'[t] = ws_poll[t]
        /\ ~gastrSockets'[s].used
    BY <2>1 DEF CloseEffect, driver
  <2>4. Out' \subseteq Out
    BY <2>3 DEF Out
  <2>5. ASSUME NEW q \in Out', Live(q)'
        PROVE  Live(q) /\ q \in Out /\ gastrSockets'[q.sock].pending /\ ws_poll'[q.sock]
    <3>1. q.sock \in Sock /\ q \in Out
      BY <2>4, OutSock
    <3>2. q.sock # s
      BY <2>3, <2>5 DEF Live, Used
    <3>3. Live(q)
      BY <2>3, <2>5, <3>1, <3>2 DEF Live, Used
    <3>4. QED
      BY <2>2, <2>3, <3>1, <3>2, <3>3 DEF One
  <2>6. QED
    BY <2>2, <2>3, <2>5 DEF One
<1>8. ASSUME NEW s \in Sock, SockRecvfrom(s) PROVE One'
  <2>1. RecvEffect(s)
    BY <1>8, RecvIs
  <2>2. UNCHANGED <<gastrSockets, ws_poll, picked, asked, replies, owner, crossed, driver>>
    BY <2>1 DEF RecvEffect
  <2>3. QED
    BY <2>2 DEF One, Out, Live, Used, driver
<1>9. QED
  BY <1>2, <1>3, <1>4, <1>5, <1>6, <1>7, <1>8 DEF Next

-----------------------------------------------------------------------------
(* Buffers and data *)

\* The request there is goes into the first mbuf of the chain.
FirstAsked(m) ==
    /\ \A q \in asked : q.sock = m
    /\ gastrSockets[m].buf = <<rx_buf, 1>> /\ cur_buf = <<rx_buf, 1>>

\* What is asked for is for the socket as it is now.
AskedLive == \A q \in asked : Live(q)

\* What the driver asks for is.
LEMMA KeepsLive ==
    ASSUME Keeps, asked = {}
    PROVE  AskedLive'
<1>1. ASSUME NEW q \in asked' PROVE Live(q)'
  <2>1. q.sock \in Sock /\ Live(q)
    BY DEF Keeps
  <2>2. QED
    BY <2>1 DEF Keeps, Live, Used
<1>2. QED
  BY <1>1 DEF AskedLive

\* After the only reply has been taken, Buffers holds if it does for what is
\* asked.
LEMMA BuffersAfter ==
    ASSUME AskedLive', replies' = <<>>, asked' = {} \/ gu8FlowCtrl' \/ \E m : FirstAsked(m)'
    PROVE  Buffers'
<1>1. Out' = asked'
  BY DEF Out, ToSet
<1>2. \A q \in asked' : Live(q)'
  BY DEF AskedLive
<1>3. CASE asked' = {} \/ gu8FlowCtrl'
  BY <1>1, <1>2, <1>3 DEF Buffers
<1>4. ASSUME NEW m, FirstAsked(m)' PROVE Buffers'
  BY <1>1, <1>2, <1>4 DEF Buffers, FirstAsked
<1>5. QED
  BY <1>3, <1>4

\* A request for a new packet goes into the first mbuf.
LEMMA FirstAfter ==
    ASSUME NEW st, NEW m, NEW ok, Asks(st, State', m, <<rx_buf', 1>>, ok),
           ok, \A q \in st.asked : q.sock = m
    PROVE  FirstAsked(m)'
<1>1. /\ State'.socks = gastrSockets' /\ State'.asked = asked' /\ State'.cur_buf = cur_buf'
  BY DEF State
<1>2. gastrSockets'[m].buf = <<rx_buf', 1>> /\ cur_buf' = <<rx_buf', 1>>
  BY <1>1 DEF Asks
<1>3. \A q \in asked' : q \in st.asked \/ IsReq(q, st.socks, m)
  BY <1>1 DEF Asks, Adds
<1>4. \A q \in asked' : q.sock = m
  BY <1>3 DEF IsReq
<1>6. QED
  BY <1>2, <1>4 DEF FirstAsked

\* A reply without data keeps the buffers in order.
LEMMA NextBuffers ==
    ASSUME TypeOK, AskedLive', One, ReplyFrame, NextEffect, ~failed'
    PROVE  Buffers'
<1> DEFINE r == Head(replies)
<1>1. PICK N \in SUBSET Sock, chain \in Chain, ok \in Outcomes :
        ok /\ StartsRx(Taken(r), State', N, FALSE, chain, ok)
  BY DEF NextEffect
<1>2. replies' = <<>> /\ Taken(r).asked = {}
  BY ReplyAlone
<1> HIDE DEF r
<1>3. State'.asked = asked' /\ State'.rx_buf = rx_buf'
  BY DEF State
<1>4. CASE State'.rx_buf = NoChain \/ N = {}
  <2>1. asked' = {}
    BY <1>1, <1>2, <1>3, <1>4 DEF StartsRx
  <2>2. QED
    BY <1>2, <2>1, BuffersAfter
<1>5. CASE ~(State'.rx_buf = NoChain \/ N = {})
  <2>1. PICK m \in N : Asks(Taken(r), State', m, <<rx_buf', 1>>, ok)
    BY <1>1, <1>3, <1>5 DEF StartsRx
  <2>2. FirstAsked(m)'
    BY <1>1, <1>2, <2>1, FirstAfter
  <2>3. QED
    BY <1>2, <2>2, BuffersAfter
<1>6. QED
  BY <1>4, <1>5

\* The reply that brings data is for the socket as it is now, whose buffer is
\* the first mbuf of the chain.
LEMMA DataLive ==
    ASSUME TypeOK, Owners, Chained, One, Buffers, ReplyFrame, DataEffect
    PROVE  LET r == Head(replies) IN
           /\ gastrSockets[r.sock].buf = <<rx_buf, 1>> /\ cur_buf = <<rx_buf, 1>>
           /\ rx_buf \in Chains /\ rx_buf # NoChain
           /\ r.sock \in Sock /\ r.sock \in Suitable(r.sock)
           /\ Suitable(r.sock) # {} /\ Min(Suitable(r.sock)) = r.sock
<1> DEFINE r == Head(replies)
           N == Suitable(r.sock)
<1>1. r \in Out /\ r \in Answer
  BY HeadReply DEF ReplyFrame, Out
<1>2. r.sock \in Sock
  BY <1>1 DEF Answer
<1>3. picked = -1 /\ ~gu8FlowCtrl
  BY DEF ReplyFrame
<1>4. gastrSockets[r.sock].buf[1] # NoChain
  BY DEF DataEffect
<1> HIDE DEF r
<1>5. Live(r)
  <2> SUFFICES ASSUME ~Live(r) PROVE FALSE
    OBVIOUS
  <2>1. gastrSockets[r.sock].buf = <<NoChain, 0>>
    BY <1>1 DEF Buffers
  <2>2. QED
    BY <1>4, <2>1
<1>6. gastrSockets[r.sock].buf = <<rx_buf, 1>> /\ cur_buf = <<rx_buf, 1>>
  BY <1>1, <1>3, <1>5 DEF Buffers
<1>7. rx_buf \in Chains /\ rx_buf # NoChain
  BY <1>1, <1>3 DEF Chained, TypeOK, Chain
<1>8. ws_poll[r.sock]
  BY <1>1, <1>5 DEF One
<1>9. N \subseteq Nat /\ r.sock \in N /\ \A t \in N : t >= r.sock
  BY <1>2, <1>8, RxAssumption DEF Suitable, Sock
<1> HIDE DEF N
<1>10. Min(N) \in N /\ Min(N) <= r.sock
  BY <1>9, MinIs
<1>11. Min(N) = r.sock
  <2>1. Min(N) \in Nat /\ r.sock \in Nat /\ Min(N) >= r.sock
    BY <1>9, <1>10
  <2>2. QED
    BY <1>10, <2>1
<1>12. QED
  BY <1>2, <1>6, <1>7, <1>9, <1>11 DEF r, N

\* The state after the last piece but one, and what is then queued.
LEMMA DataPieces ==
    ASSUME TypeOK, Owners, Chained, One, Buffers, ReplyFrame, DataEffect, ~failed'
    PROVE  LET r == Head(replies) IN
           \E s1 \in RxState, chain \in Chain, ok \in Outcomes :
             /\ s1.rx_buf = rx_buf /\ s1.cur_buf = <<rx_buf, r.pieces>>
             /\ s1.socks[r.sock].buf = <<rx_buf, r.pieces>>
             /\ \A q \in s1.asked : q.sock = r.sock
             /\ mem' = [b \in Chains \X {1, 2} |->
                          IF b \in {<<rx_buf, 1>>, <<rx_buf, r.pieces>>} THEN r.data ELSE mem[b]]
             /\ ws_rx' = [ws_rx EXCEPT ![r.sock] = Append(@,
                    [chain |-> rx_buf, len |-> r.pieces,
                     pieces |-> r.pieces, data |-> r.data, owner |-> r.owner])]
             /\ ok /\ StartsRx(HandedOver(s1), State', Suitable(r.sock), FALSE, chain, ok)
<1> DEFINE r == Head(replies)
           N == Suitable(r.sock)
           X(s1) == [chain |-> s1.rx_buf, len |-> s1.cur_buf[2],
                     pieces |-> r.pieces, data |-> r.data, owner |-> r.owner]
<1>1. PICK chain \in Chain, ok1 \in Outcomes, ok2 \in Outcomes, s1 \in RxState :
        /\ ok1 /\ ok2
        /\ r.pieces = 1 => s1 = Taken(r)
        /\ r.pieces # 1 => StartsRx(Taken(r), s1, N, TRUE, NoChain, ok1)
        /\ mem' = [b \in Chains \X {1, 2} |->
                     IF b \in {gastrSockets[r.sock].buf, s1.socks[r.sock].buf}
                     THEN r.data ELSE mem[b]]
        /\ ws_rx' = [ws_rx EXCEPT ![r.sock] = Append(@, X(s1))]
        /\ StartsRx(HandedOver(s1), State', N, FALSE, chain, ok2)
  BY DEF DataEffect
<1>2. /\ gastrSockets[r.sock].buf = <<rx_buf, 1>> /\ cur_buf = <<rx_buf, 1>>
      /\ rx_buf # NoChain /\ r.sock \in Sock /\ N # {} /\ Min(N) = r.sock
  BY DataLive
<1>3. r \in Answer /\ Taken(r).asked = {}
  BY TailKept, ReplyAlone
<1> HIDE DEF r, N
<1>4. /\ Taken(r).rx_buf = rx_buf /\ Taken(r).cur_buf = <<rx_buf, 1>>
      /\ Taken(r).socks[r.sock].buf = <<rx_buf, 1>>
  BY <1>2, <1>3, TakenIs, TakenKeeps
<1>5. /\ s1.rx_buf = rx_buf /\ s1.cur_buf = <<rx_buf, r.pieces>>
      /\ s1.socks[r.sock].buf = <<rx_buf, r.pieces>>
      /\ \A q \in s1.asked : q.sock = r.sock
  <2>1. CASE r.pieces = 1
    BY <1>1, <1>3, <1>4, <2>1
  <2>2. CASE r.pieces # 1
    <3>1. r.pieces = 2
      BY <1>3, <2>2 DEF Answer
    <3>2. StartsRx(Taken(r), s1, N, TRUE, NoChain, ok1)
      BY <1>1, <2>2
    <3>3. s1.rx_buf = rx_buf
      BY <1>2, <1>4, <3>2 DEF StartsRx
    <3>4. Asks(Taken(r), s1, r.sock, <<Taken(r).cur_buf[1], Taken(r).cur_buf[2] + 1>>, ok1)
      BY <1>2, <3>2, <3>3 DEF StartsRx
    <3>5. <<Taken(r).cur_buf[1], Taken(r).cur_buf[2] + 1>> = <<rx_buf, 2>>
      BY <1>4
    <3>6. Asks(Taken(r), s1, r.sock, <<rx_buf, 2>>, ok1)
      BY <3>4, <3>5
    <3>8. s1.cur_buf = <<rx_buf, 2>> /\ s1.socks[r.sock].buf = <<rx_buf, 2>>
      BY <1>1, <3>6 DEF Asks
    <3>9. \A q \in s1.asked : IsReq(q, Taken(r).socks, r.sock)
      BY <1>3, <3>6 DEF Asks, Adds
    <3>10. \A q \in s1.asked : q.sock = r.sock
      BY <3>9 DEF IsReq
    <3>11. QED
      BY <3>1, <3>3, <3>8, <3>10
  <2>3. QED
    BY <2>1, <2>2
<1>6. s1.cur_buf[2] = r.pieces
  BY <1>5
<1>7. X(s1) = [chain |-> rx_buf, len |-> r.pieces,
               pieces |-> r.pieces, data |-> r.data, owner |-> r.owner]
  BY <1>5, <1>6
<1> HIDE DEF X
<1>8. /\ mem' = [b \in Chains \X {1, 2} |->
                   IF b \in {<<rx_buf, 1>>, <<rx_buf, r.pieces>>} THEN r.data ELSE mem[b]]
      /\ ws_rx' = [ws_rx EXCEPT ![r.sock] = Append(@,
                    [chain |-> rx_buf, len |-> r.pieces,
                     pieces |-> r.pieces, data |-> r.data, owner |-> r.owner])]
  BY <1>1, <1>2, <1>5, <1>7
<1>9. QED
  BY <1>1, <1>5, <1>8 DEF r, N

\* So does a reply with data.
LEMMA DataBuffers ==
    ASSUME TypeOK, Owners, AskedLive', Chained, One, Buffers, ReplyFrame, DataEffect, ~failed'
    PROVE  Buffers'
<1> DEFINE r == Head(replies)
           N == Suitable(r.sock)
<1>1. PICK s1 \in RxState, chain \in Chain, ok \in Outcomes :
        /\ \A q \in s1.asked : q.sock = r.sock
        /\ ok /\ StartsRx(HandedOver(s1), State', N, FALSE, chain, ok)
  BY DataPieces
<1>2. N # {} /\ Min(N) = r.sock
  BY DataLive
<1>3. replies' = <<>>
  BY ReplyAlone
<1>4. PICK m : m = r.sock
  OBVIOUS
<1> HIDE DEF r, N
<1>5. State'.rx_buf = rx_buf' /\ State'.flow = gu8FlowCtrl'
  BY DEF State
<1>6. CASE rx_buf' = NoChain
  <2>1. gu8FlowCtrl'
    BY <1>1, <1>5, <1>6 DEF StartsRx
  <2>2. QED
    BY <1>3, <2>1, BuffersAfter
<1>7. CASE rx_buf' # NoChain
  <2>1. Asks(HandedOver(s1), State', m, <<rx_buf', 1>>, ok)
    BY <1>1, <1>2, <1>4, <1>5, <1>7 DEF StartsRx
  <2>2. \A q \in HandedOver(s1).asked : q.sock = m
    BY <1>1, <1>4, HandedOverIs
  <2>3. FirstAsked(m)'
    BY <1>1, <2>1, <2>2, FirstAfter
  <2>4. QED
    BY <1>3, <2>3, BuffersAfter
<1>8. QED
  BY <1>6, <1>7

\* A reply with data is written whole, and over no other packet.
LEMMA DataWhole ==
    ASSUME TypeOK, TypeOK', Owners, Chained, One, Buffers, Whole, ReplyFrame, DataEffect, ~failed'
    PROVE  Whole'
<1> DEFINE r == Head(replies)
           x == [chain |-> rx_buf, len |-> r.pieces,
                 pieces |-> r.pieces, data |-> r.data, owner |-> r.owner]
<1>1. /\ mem' = [b \in Chains \X {1, 2} |->
                   IF b \in {<<rx_buf, 1>>, <<rx_buf, r.pieces>>} THEN r.data ELSE mem[b]]
      /\ ws_rx' = [ws_rx EXCEPT ![r.sock] = Append(@, x)]
  BY DataPieces
<1>2. rx_buf \in Chains /\ rx_buf # NoChain /\ r.sock \in Sock
  BY DataLive
<1>3. r.pieces \in {1, 2}
  BY TailKept DEF Answer
<1>4. x.chain = rx_buf /\ x.len = r.pieces /\ x.pieces = r.pieces /\ x.data = r.data
  OBVIOUS
<1>5. /\ Apart
      /\ \A s \in Sock : \A p \in Packets(s) : p.chain # rx_buf /\ p.chain \in Chains
  BY DEF Chained, NoSharing, Apart
<1> HIDE DEF r, x
<1>6. \A t \in Sock : \A p \in Packets(t)' : p \in Packets(t) \/ p = x
  BY <1>1, <1>2, <1>4, <1>5, ApartData
<1>7. ASSUME NEW s \in Sock, NEW p \in Packets(s)
      PROVE  /\ p.chain # NoChain /\ p.len = p.pieces
             /\ \A i \in 1 .. p.len : mem'[<<p.chain, i>>] = p.data
  <2>1. /\ p.chain # NoChain /\ p.len = p.pieces
        /\ \A i \in 1 .. p.len : mem[<<p.chain, i>>] = p.data
    BY DEF Whole
  <2>2. p.pieces \in {1, 2}
    <3>1. ws_rx[s] \in Seq(Packet)
      BY DEF TypeOK
    <3>2. p \in Packet
      BY <3>1 DEF Packets
    <3>3. QED
      BY <3>2 DEF Packet
  <2>3. p.chain # rx_buf /\ p.chain \in Chains
    BY <1>5
  <2>4. ASSUME NEW i \in 1 .. p.len PROVE mem'[<<p.chain, i>>] = mem[<<p.chain, i>>]
    <3>1. i \in {1, 2}
      BY <2>1, <2>2
    <3>2. <<p.chain, i>> \in Chains \X {1, 2}
      BY <2>3, <3>1
    <3>3. <<p.chain, i>> \notin {<<rx_buf, 1>>, <<rx_buf, r.pieces>>}
      BY <2>3
    <3>4. QED
      BY <1>1, <3>2, <3>3
  <2>5. QED
    BY <2>1, <2>4
<1>8. \A i \in 1 .. r.pieces : mem'[<<rx_buf, i>>] = r.data
  <2> SUFFICES ASSUME NEW i \in 1 .. r.pieces PROVE mem'[<<rx_buf, i>>] = r.data
    OBVIOUS
  <2>1. i = 1 \/ i = r.pieces
    BY <1>3
  <2>2. i \in {1, 2}
    BY <1>3
  <2>3. <<rx_buf, i>> \in Chains \X {1, 2} /\ <<rx_buf, i>> \in {<<rx_buf, 1>>, <<rx_buf, r.pieces>>}
    BY <1>2, <2>1, <2>2
  <2>4. QED
    BY <1>1, <2>3
<1>9. QED
  BY <1>2, <1>4, <1>6, <1>7, <1>8 DEF Whole

\* What has happened stays so.
LEMMA HistoryGrows ==
    ASSUME TypeOK, Owners, Next
    PROVE  (crossed => crossed') /\ (failed => failed')
<1>1. CASE Poll
  BY <1>1, PollIs DEF PollEffect
<1>2. CASE PollAsks
  BY <1>2, PollAsksIs DEF PollAsksEffect
<1>3. CASE Events
  BY <1>3, EventsIs DEF ReplyFrame
<1>4. CASE Answers
  BY <1>4, AnswersIs DEF AnswerEffect
<1>5. CASE Open
  BY <1>5 DEF Open
<1>6. CASE \E s \in Sock : Close(s) \/ SockRecvfrom(s)
  BY <1>6, CloseIs, RecvIs DEF CloseEffect, RecvEffect
<1>7. QED
  BY <1>1, <1>2, <1>3, <1>4, <1>5, <1>6 DEF Next

\* Chains are filled by data only.
LEMMA WholeStays ==
    ASSUME Whole, mem' = mem, \A s \in Sock : Packets(s)' \subseteq Packets(s)
    PROVE  Whole'
  BY DEF Whole

\* No step writes a packet but the reply it is for, unless a poll crosses or
\* hif_send or hif_receive fails.
LEMMA BuffersStep ==
    ASSUME TypeOK, TypeOK', Owners, Chained, One, Buffers, Whole, Next,
           ~crossed', ~failed'
    PROVE  Buffers' /\ Whole'
<1>1. \A q \in Out : \A t \in Sock : q.owner = owner[t] => t = q.sock
  BY DEF Owners
<1>2. CASE Poll
  <2>1. PollEffect
    BY <1>2, PollIs
  <2>2. UNCHANGED <<gastrSockets, asked, replies, ws_poll, owner, mem, ws_rx>>
    BY <2>1 DEF PollEffect
  <2>3. Out' = Out
    BY <2>2 DEF Out
  <2>4. Whole'
    BY <2>2, PacketsSame, WholeStays
  <2>5. ASSUME picked' = -1, NEW q \in Out, Live(q) PROVE gu8FlowCtrl'
    <3>1. ws_poll[q.sock] /\ q.sock \in Sock
      BY <2>5, OutSock DEF One
    <3>2. QED
      BY <2>1, <2>5, <3>1 DEF PollEffect
  <2>6. \A q \in Out : Live(q)' <=> Live(q)
    BY <2>2 DEF Live, Used
  <2>7. Buffers'
    BY <2>2, <2>3, <2>5, <2>6 DEF Buffers
  <2>8. QED
    BY <2>4, <2>7
<1>3. CASE PollAsks
  <2>1. PollAsksEffect /\ picked \in Sock /\ picked # -1
    BY <1>3, PollAsksIs DEF PollAsks, TypeOK
  <2>2. /\ UNCHANGED <<replies, owner, mem, ws_rx, rx_buf, gu8FlowCtrl>> /\ picked' = -1
        /\ \A q \in Out : q.owner = owner[picked] \/ Live(q)
    BY <2>1 DEF PollAsksEffect
  <2>3. Whole'
    BY <2>2, PacketsSame, WholeStays
  <2>4. \A q \in Out : q.owner = owner[picked] /\ q.sock = picked
    BY <1>1, <2>1, <2>2 DEF One
  <2>5. CASE ~Used(picked)
    <3>1. gastrSockets' = gastrSockets /\ asked' = asked
      BY <2>1, <2>5 DEF PollAsksEffect
    <3>2. \A q \in Out : ~Live(q)
      BY <2>4, <2>5 DEF Live
    <3>3. Out' = Out /\ \A q \in Out : ~Live(q)'
      BY <2>2, <3>1, <3>2 DEF Out, Live, Used
    <3>4. QED
      BY <2>3, <3>1, <3>2, <3>3 DEF Buffers
  <2>6. CASE Used(picked)
    <3>1. PICK ok : ok /\ Asks(State, State', picked, <<rx_buf, 1>>, ok)
      BY <2>1, <2>6 DEF PollAsksEffect
    <3>2. /\ State.socks = gastrSockets /\ State.asked = asked
          /\ State'.socks = gastrSockets' /\ State'.asked = asked' /\ State'.cur_buf = cur_buf'
      BY DEF State
    <3>4. /\ gastrSockets'[picked].used /\ gastrSockets'[picked].buf = <<rx_buf, 1>>
          /\ cur_buf' = <<rx_buf, 1>>
          /\ \A q \in asked' : q \in asked \/ IsReq(q, gastrSockets, picked)
      BY <3>1, <3>2 DEF Asks, Adds
    <3>5. \A q \in Out' : q.sock = picked /\ q.owner = owner[picked]
      BY <2>2, <2>4, <3>4 DEF Out, IsReq
    <3>6. \A q \in Out' : Live(q)'
      BY <2>2, <3>4, <3>5 DEF Live, Used
    <3>7. QED
      BY <2>2, <2>3, <3>4, <3>5, <3>6 DEF Buffers
  <2>7. QED
    BY <2>5, <2>6
<1>4. CASE Events
  <2>1. ReplyFrame /\ (DiscardEffect \/ NextEffect \/ DataEffect)
    BY <1>4, EventsIs
  <2>0. AskedLive'
    BY <1>4, <2>1, ReplyAlone, DriverKeeps, KeepsLive
  <2>2. CASE DiscardEffect
    <3>1. asked' = {} /\ replies' = <<>> /\ ws_rx' = ws_rx /\ mem' = mem
      BY <2>1, <2>2, ReplyAlone DEF DiscardEffect
    <3>2. QED
      BY <2>0, <3>1, BuffersAfter, PacketsSame, WholeStays
  <2>3. CASE NextEffect
    <3>1. ws_rx' = ws_rx /\ mem' = mem
      BY <2>3 DEF NextEffect
    <3>2. QED
      BY <2>0, <2>1, <2>3, <3>1, NextBuffers, PacketsSame, WholeStays
  <2>4. CASE DataEffect
    BY <2>0, <2>1, <2>4, DataBuffers, DataWhole
  <2>5. QED
    BY <2>1, <2>2, <2>3, <2>4
<1>5. CASE Answers
  <2>1. AnswerEffect
    BY <1>5, AnswersIs
  <2>2. UNCHANGED <<gastrSockets, ws_rx, driver, mem, picked, owner>>
    BY <2>1 DEF AnswerEffect
  <2>3. \A x \in Out' : \E q \in Out : x.sock = q.sock /\ x.owner = q.owner
    BY <2>1, AnswerOut
  <2>4. Whole'
    BY <2>2, PacketsSame, WholeStays
  <2>5. ASSUME NEW x \in Out'
        PROVE  /\ ~Live(x)' => gastrSockets'[x.sock].buf = <<NoChain, 0>>
               /\ picked' = -1 /\ ~gu8FlowCtrl' /\ Live(x)' =>
                    gastrSockets'[x.sock].buf = <<rx_buf', 1>> /\ cur_buf' = <<rx_buf', 1>>
    <3>1. PICK q \in Out : x.sock = q.sock /\ x.owner = q.owner
      BY <2>3
    <3>2. Live(x)' <=> Live(q)
      BY <2>2, <3>1 DEF Live, Used
    <3>3. QED
      BY <2>2, <3>1, <3>2 DEF Buffers, driver
  <2>6. QED
    BY <2>4, <2>5 DEF Buffers
<1>6. CASE Open
  <2>1. OpenEffect
    BY <1>6, OpenIs
  <2>2. PICK s \in Sock :
          /\ ~Used(s)
          /\ \A t \in Sock \ {s} : gastrSockets'[t] = gastrSockets[t] /\ owner'[t] = owner[t]
          /\ gastrSockets'[s].buf = <<NoChain, 0>> /\ owner'[s] = opened + 1
    BY <2>1 DEF OpenEffect
  <2>3. UNCHANGED <<picked, asked, replies, rx_buf, cur_buf, gu8FlowCtrl, mem, ws_rx>>
    BY <2>1 DEF OpenEffect, driver
  <2>4. Out' = Out
    BY <2>3 DEF Out
  <2>5. Whole'
    BY <2>3, PacketsSame, WholeStays
  <2>6. ASSUME NEW q \in Out
        PROVE  /\ ~Live(q)' => gastrSockets'[q.sock].buf = <<NoChain, 0>>
               /\ Live(q)' => Live(q) /\ gastrSockets'[q.sock] = gastrSockets[q.sock]
    <3>1. q.sock \in Sock /\ q.owner \in 1 .. opened
      BY OutSock DEF Owners
    <3>2. CASE q.sock = s
      <4>1. ~Live(q)'
        BY <2>2, <3>1, <3>2 DEF Live, TypeOK
      <4>2. QED
        BY <2>2, <3>2, <4>1
    <3>3. CASE q.sock # s
      <4>1. Live(q)' <=> Live(q)
        BY <2>2, <3>1, <3>3 DEF Live, Used
      <4>2. QED
        BY <2>2, <3>1, <3>3, <4>1 DEF Buffers
    <3>4. QED
      BY <3>2, <3>3
  <2>7. QED
    BY <2>3, <2>4, <2>5, <2>6 DEF Buffers
<1>7. ASSUME NEW s \in Sock, Close(s) PROVE Buffers' /\ Whole'
  <2>1. CloseEffect(s)
    BY <1>7, CloseIs
  <2>2. /\ UNCHANGED <<owner, replies, picked, rx_buf, cur_buf, gu8FlowCtrl, mem>>
        /\ asked' \subseteq asked
        /\ \A t \in Sock \ {s} : gastrSockets'[t] = gastrSockets[t]
        /\ ~gastrSockets'[s].used /\ gastrSockets'[s].buf = <<NoChain, 0>>
    BY <2>1 DEF CloseEffect, driver
  <2>3. Out' \subseteq Out
    BY <2>2 DEF Out
  <2>4. Whole'
    <3>1. \A t \in Sock : Packets(t)' \subseteq Packets(t)
      BY <2>1 DEF CloseEffect, Packets
    <3>2. QED
      BY <2>2, <3>1, WholeStays
  <2>5. ASSUME NEW q \in Out
        PROVE  /\ ~Live(q)' => gastrSockets'[q.sock].buf = <<NoChain, 0>>
               /\ Live(q)' => Live(q) /\ gastrSockets'[q.sock] = gastrSockets[q.sock]
    <3>1. q.sock \in Sock
      BY OutSock
    <3>2. CASE q.sock = s
      BY <2>2, <3>2 DEF Live, Used
    <3>3. CASE q.sock # s
      <4>1. Live(q)' <=> Live(q)
        BY <2>2, <3>1, <3>3 DEF Live, Used
      <4>2. QED
        BY <2>2, <3>1, <3>3, <4>1 DEF Buffers
    <3>4. QED
      BY <3>2, <3>3
  <2>6. QED
    BY <2>2, <2>3, <2>4, <2>5 DEF Buffers
<1>8. ASSUME NEW s \in Sock, SockRecvfrom(s) PROVE Buffers' /\ Whole'
  <2>1. RecvEffect(s)
    BY <1>8, RecvIs
  <2>2. UNCHANGED <<gastrSockets, picked, asked, replies, owner, mem, driver>>
    BY <2>1 DEF RecvEffect
  <2>3. Buffers'
    BY <2>2 DEF Buffers, Out, Live, Used, driver
  <2>4. Whole'
    BY <2>1, <2>2, PacketsTail, WholeStays
  <2>5. QED
    BY <2>3, <2>4
<1>9. QED
  BY <1>2, <1>3, <1>4, <1>5, <1>6, <1>7, <1>8 DEF Next

-----------------------------------------------------------------------------
(* The theorems *)

\* The invariant holds of the initial state.
LEMMA InitInv == Init => Inv
<1> SUFFICES ASSUME Init PROVE Inv
  OBVIOUS
<1>1. TypeOK
  <2>1. NoChain \in Chain /\ <<NoChain, 0>> \in Chain \X Nat
    BY DEF Chain
  <2>2. gastrSockets \in [Sock -> Socket]
    BY UnusedIs DEF Init
  <2>3. ws_rx \in [Sock -> Seq(Packet)] /\ replies \in Seq(Answer)
    BY DEF Init
  <2>4. mem \in [Chains \X {1, 2} -> Nat] /\ owner \in [Sock -> Nat] /\ ws_poll \in [Sock -> BOOLEAN]
    BY DEF Init
  <2>5. QED
    BY <2>1, <2>2, <2>3, <2>4 DEF Init, TypeOK
<1>2. /\ \A s \in Sock : ~Used(s) /\ owner[s] = 0 /\ ws_rx[s] = <<>> /\ ~ws_poll[s]
      /\ asked = {} /\ replies = <<>> /\ picked = -1 /\ opened = 0 /\ gu16SessionID = 0
  BY UnusedIs DEF Init, Used
<1>3. Out = {}
  BY <1>2 DEF Out, ToSet
<1>4. \A s \in Sock : Packets(s) = {} /\ Len(ws_rx[s]) = 0
  BY <1>2 DEF Packets
<1>5. Owners
  BY <1>2, <1>3 DEF Owners
<1>6. Sessions
  BY <1>2, <1>3, <1>4 DEF Sessions, RightOwner
<1>7. Chained
  BY <1>2, <1>3, <1>4 DEF Chained, NoSharing
<1>8. One
  BY <1>2, <1>3 DEF One
<1>9. Buffers /\ Whole
  BY <1>3, <1>4 DEF Buffers, Whole
<1>10. QED
  BY <1>1, <1>5, <1>6, <1>7, <1>8, <1>9 DEF Inv

\* Every step keeps it.
LEMMA NextInv == Inv /\ [Next]_vars => Inv'
<1> SUFFICES ASSUME Inv, [Next]_vars PROVE Inv'
  OBVIOUS
<1>1. /\ TypeOK /\ Owners /\ Sessions /\ Chained
      /\ ~crossed => One
      /\ ~crossed /\ ~failed => Buffers /\ Whole
  BY DEF Inv
<1>2. CASE Next
  <2>1. TypeOK'
    <3>1. CASE Poll
      BY <1>1, <3>1, PollIs
    <3>2. CASE PollAsks
      BY <1>1, <3>2, PollAsksIs
    <3>3. CASE Events
      BY <1>1, <3>3, EventsIs
    <3>4. CASE Answers
      BY <1>1, <3>4, AnswersIs
    <3>5. CASE Open
      BY <1>1, <3>5, OpenIs
    <3>6. CASE \E s \in Sock : Close(s) \/ SockRecvfrom(s)
      BY <1>1, <3>6, CloseIs, RecvIs
    <3>7. QED
      BY <1>2, <3>1, <3>2, <3>3, <3>4, <3>5, <3>6 DEF Next
  <2>2. Owners'
    BY <1>1, <1>2, OwnersStep
  <2>3. Sessions'
    BY <1>1, <1>2, <2>1, SessionsStep
  <2>4. Chained'
    BY <1>1, <1>2, <2>1, ChainedStep
  <2>5. ~crossed' => One'
    BY <1>1, <1>2, <2>1, OneStep
  <2>6. ~crossed' /\ ~failed' => Buffers' /\ Whole'
    BY <1>1, <1>2, <2>1, HistoryGrows, BuffersStep
  <2>7. QED
    BY <2>1, <2>2, <2>3, <2>4, <2>5, <2>6 DEF Inv
<1>3. CASE UNCHANGED vars
  <2>1. UNCHANGED <<gastrSockets, gu16SessionID, ws_poll, ws_rx, polling, rx_buf, cur_buf,
                    gu8FlowCtrl, mem, picked, asked, replies, opened, data, owner, failed, crossed>>
    BY <1>3 DEF vars, driver
  <2>2. TypeOK'
    BY <1>1, <2>1 DEF TypeOK
  <2>3. Owners' /\ (~crossed' => One') /\ (~crossed' /\ ~failed' => Buffers')
    BY <1>1, <2>1 DEF Owners, One, Buffers, Used, Live, Out
  <2>4. Sessions' /\ Chained' /\ (~crossed' /\ ~failed' => Whole')
    BY <1>1, <2>1 DEF Sessions, Chained, Whole, Used, Out, Packets, RightOwner, NoSharing
  <2>5. QED
    BY <2>2, <2>3, <2>4 DEF Inv
<1>4. QED
  BY <1>2, <1>3

\* It holds always.
LEMMA InvHolds == Spec => []Inv
  BY InitInv, NextInv, PTL DEF Spec

\* The data a reply brings is queued for the incarnation of the socket that
\* asked for it, however sockets are closed and their numbers given away
\* while replies are on the way, until the sixteen-bit session number of
\* socket.c comes round.
THEOREM RxRightOwner == Spec => []RightOwner
<1>1. Inv => RightOwner
  BY DEF Inv, Sessions, RightOwner
<1>2. QED
  BY <1>1, InvHolds, PTL

\* No chain is in two places; and unless a poll has crossed a request, or
\* hif_send or hif_receive has failed, each queued packet holds the data of its reply, all
\* of it, as winc1500_sock_cb counted it.
THEOREM RxDataIntact == Spec => []DataIntact
<1>1. Inv => DataIntact
  BY DEF Inv, Chained, Whole, DataIntact
<1>2. QED
  BY <1>1, InvHolds, PTL

\* There is at most one request with the chip or reply on the way, for all the
\* sockets together, and the driver knows of it: it is polling or stopped by
\* flow control.  So it is until a poll crosses a request held up by flow
\* control or left behind by a closed socket, however sockets are closed and
\* whatever cannot be sent or read.
THEOREM RxOneRequest == Spec => []OneRequest
<1>1. Inv => OneRequest
  <2> SUFFICES ASSUME Inv, ~crossed
               PROVE  /\ Cardinality(asked) + Len(replies) <= 1
                      /\ (\E q \in Out : Live(q)) /\ picked = -1 => polling \/ gu8FlowCtrl
    BY DEF OneRequest
  <2>1. One /\ TypeOK
    BY DEF Inv
  <2>2. Len(replies) \in Nat /\ Len(replies) <= 1
    BY <2>1 DEF One, TypeOK
  <2>3. Cardinality({}) = 0 /\ Len(<<>>) = 0
    BY FS_EmptySet
  <2>4. CASE asked = {}
    BY <2>1, <2>2, <2>3, <2>4 DEF One
  <2>5. CASE asked # {}
    <3>1. PICK q \in asked : TRUE
      BY <2>5
    <3>2. asked = {q} /\ replies = <<>>
      BY <2>1, <2>5 DEF One
    <3>3. Cardinality(asked) = 1
      BY <3>2, FS_Singleton
    <3>4. Cardinality(asked) + Len(replies) <= 1
      BY <2>3, <3>2, <3>3
    <3>5. QED
      BY <2>1, <3>4 DEF One
  <2>6. QED
    BY <2>4, <2>5
<1>2. QED
  BY <1>1, InvHolds, PTL
=============================================================================
