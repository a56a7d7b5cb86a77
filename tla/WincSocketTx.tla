---------------------------- MODULE WincSocketTx ----------------------------
(***************************************************************************)
(* Sending on a WINC1500 socket (libs/winc1500/src/winc1500_socket.c):     *)
(* tasks in winc1500_sock_sendto, the Wi-Fi task that goes on sending when *)
(* the chip reports a buffer sent, and whoever creates and closes the      *)
(* socket.  What a stream socket has still to send hangs on ws_tx, which   *)
(* sendto looks at and sets without the interface mutex.                   *)
(*                                                                         *)
(* The chip is external: buffers that all sockets share, a request refused *)
(* when there is none, and an event for each request it has dealt with.    *)
(* An mbuf is <<call, place in its chain>>.                                *)
(***************************************************************************)
EXTENDS WincSocket, Sequences

CONSTANTS
    Senders,    \* tasks that send
    ChipRoom,   \* transmit buffers of the chip
    MaxChain,   \* bound: mbufs of a chain
    MaxSends    \* bound: calls of sendto

ASSUME TxAssumption ==
    /\ Senders \cap {"wifi", "none"} = {} /\ ChipRoom \in Nat \ {0} /\ MaxChain \in Nat \ {0}
    /\ MaxSends \in Nat

Wifi == "wifi"
TxTasks == Senders \cup {Wifi}

VARIABLES
    kind,       \* what socket() makes of this index: "stream" or "dgram"
    ws_tx,      \* SOCK_STREAM, data being TX'd: the chain
    mtx,        \* who holds the interface mutex
    tp,         \* each task: where it is, its chain, the rest of ws_tx it read, its rc
    room,       \* buffers of the chip that are free
    out,        \* sessions of the requests the chip is dealing with
    \* history
    sends,      \* calls of sendto
    again,      \* a caller has had MN_EAGAIN and waits for mn_socket_writable
    given,      \* the mbufs of these calls
    put, sent,  \* what was hung on ws_tx, and what the chip took, of this socket
    freed,      \* mbufs given back
    spoilt      \* what the tasks have done to each other

vars == <<kind, ws_type, opened, ws_tx, mtx, tp, room, out, sends, again, given, put, sent, freed, spoilt>>

At(at, chain, rest, r) == [at |-> at, chain |-> chain, rest |-> rest, rc |-> r]
Idle == At("idle", <<>>, <<>>, "0")
Go(t, at) == tp' = [tp EXCEPT ![t].at = at]

Init ==
    /\ kind \in {"stream", "dgram"}
    /\ Unused /\ ws_tx = <<>> /\ mtx = "none" /\ tp = [t \in TxTasks |-> Idle]
    /\ room = ChipRoom /\ out = <<>>
    /\ sends = 0 /\ again = FALSE /\ given = {} /\ put = <<>> /\ sent = <<>> /\ freed = {} /\ spoilt = {}

Mbufs(chain) == {chain[i] : i \in DOMAIN chain}

-----------------------------------------------------------------------------
(* winc1500_sock_sendto *)

\* The look at ws_type and ws_tx; with data left there, MN_EAGAIN.
SendTo(t) ==
    /\ tp[t].at = "idle" /\ sends < MaxSends /\ ws_type # "none"
    /\ IF ws_type = "stream" /\ ws_tx # <<>>
         THEN again' = TRUE /\ UNCHANGED <<sends, tp, given>>
         ELSE /\ sends' = sends + 1
              /\ \E n \in 1 .. MaxChain :
                   LET chain == [i \in 1 .. n |-> <<sends + 1, i>>]
                   IN  tp' = [tp EXCEPT ![t] = At(ws_type, chain, <<>>, "0")] /\ given' = given \cup Mbufs(chain)
              /\ UNCHANGED again
    /\ UNCHANGED <<ws_tx, mtx, room, out, put, sent, freed, spoilt>>

\* The chain is hung on ws_tx, whatever is there by now.
SetTx(t) ==
    /\ tp[t].at = "stream"
    /\ ws_tx' = tp[t].chain /\ put' = put \o tp[t].chain
    /\ spoilt' = IF ws_tx # <<>> THEN spoilt \cup {"raced"} ELSE spoilt
    /\ Go(t, "pend")
    /\ UNCHANGED <<mtx, room, out, sends, again, given, sent, freed>>

-----------------------------------------------------------------------------
(* send and sendto of socket.c: "0", or the code of the error *)

Code == IF ws_type = "none" THEN "SOCK_ERR_INVALID_ARG"
        ELSE IF room = 0 THEN "SOCK_ERR_BUFFER_FULL" ELSE "0"

Accept == room' = room - 1 /\ out' = Append(out, opened)

\* The end of winc1500_stream_tx: MN_ENOBUFS is none of the codes of send.
Converted(code) == IF code = "MN_ENOBUFS" THEN "0" ELSE code

-----------------------------------------------------------------------------
(* winc1500_stream_tx *)

TxPend(t) ==
    /\ tp[t].at = "pend" /\ mtx = "none"
    /\ mtx' = t /\ Go(t, "loop")
    /\ UNCHANGED <<ws_tx, room, out, sends, again, given, put, sent, freed, spoilt>>

\* Mutation of TxSend: an mbuf the chip has refused is let go as well.
TxSendDrops(t) ==
    /\ tp[t].at = "loop"
    /\ IF ws_tx = <<>>
         THEN Go(t, "post") /\ mtx' = "none" /\ UNCHANGED <<room, out, sent>>
         ELSE /\ tp' = [tp EXCEPT ![t].at = "next", ![t].rest = Tail(ws_tx)]
              /\ IF Code = "0" THEN Accept /\ sent' = Append(sent, Head(ws_tx))
                               ELSE UNCHANGED <<room, out, sent>>
              /\ UNCHANGED mtx
    /\ UNCHANGED <<ws_tx, sends, again, given, put, freed, spoilt>>

\* One turn of the loop, to the return of send; m->om_data is read.
TxSend(t) ==
    /\ tp[t].at = "loop"
    /\ IF ws_tx = <<>> \/ Code # "0"
         THEN /\ tp' = [tp EXCEPT ![t].at = "post", ![t].rc = IF ws_tx = <<>> THEN "0" ELSE Code]
              /\ mtx' = "none"
              /\ UNCHANGED <<room, out, sent>>
         ELSE /\ tp' = [tp EXCEPT ![t].at = "next", ![t].rest = Tail(ws_tx)]
              /\ Accept /\ sent' = Append(sent, Head(ws_tx))
              /\ UNCHANGED mtx
    /\ spoilt' = IF ws_tx # <<>> /\ Code # "0" /\ (ws_type = "none" \/ opened \notin Mbufs(out))
                   THEN spoilt \cup {"stranded"} ELSE spoilt
    /\ UNCHANGED <<ws_tx, sends, again, given, put, freed>>

\* The rest of it: ws_tx goes on to what came next, the mbuf is freed.
TxNext(t) ==
    /\ tp[t].at = "next"
    /\ ws_tx' = tp[t].rest
    /\ freed' = freed \cup {sent[Len(sent)]}
    /\ spoilt' = IF ws_tx # <<>> /\ Tail(ws_tx) = tp[t].rest THEN spoilt
                                                             ELSE spoilt \cup {"raced"}
    /\ Go(t, "loop")
    /\ UNCHANGED <<mtx, room, out, sends, again, given, put, sent>>

\* winc1500_stream_tx returns, and with it sendto or the event, which tells the
\* socket's owner that it can write.  The caller of sendto takes an error for a
\* refusal: it has its chain back and frees it.
TxReturns(t) ==
    LET rc1 == Converted(tp[t].rc)
    IN  /\ tp[t].at = "post"
        /\ tp' = [tp EXCEPT ![t] = Idle]
        /\ IF t # Wifi /\ rc1 # "0"
             THEN /\ freed' = freed \cup Mbufs(tp[t].chain)
                  /\ spoilt' = IF Mbufs(tp[t].chain) \cap Mbufs(ws_tx) # {}
                                 THEN spoilt \cup {"doubled"} ELSE spoilt
             ELSE UNCHANGED <<freed, spoilt>>
        /\ again' = (again /\ ~(t = Wifi /\ (ws_tx = <<>> \/ rc1 # "0")))
        /\ UNCHANGED <<ws_tx, mtx, room, out, sends, given, put, sent>>

-----------------------------------------------------------------------------
(* Datagrams: copied to tx_buf, if they fit, and sent with the mutex held *)

DgramSend(t) ==
    /\ tp[t].at = "dgram" /\ mtx = "none"
    /\ \E code \in {Code, "MN_EINVAL"} :
         /\ tp' = [tp EXCEPT ![t].at = "dpost", ![t].rc = code]
         /\ IF code = "0" THEN Accept ELSE UNCHANGED <<room, out>>
    /\ UNCHANGED <<ws_tx, mtx, sends, again, given, put, sent, freed, spoilt>>

\* The second look at ws_type, without the mutex: if the socket has been
\* closed since, nobody frees the chain.  The caller frees what was refused.
DgramReturns(t) ==
    /\ tp[t].at = "dpost"
    /\ tp' = [tp EXCEPT ![t] = Idle]
    /\ IF tp[t].rc # "0" \/ ws_type = "dgram"
         THEN freed' = freed \cup Mbufs(tp[t].chain) /\ UNCHANGED spoilt
         ELSE spoilt' = spoilt \cup {"leaked"} /\ UNCHANGED freed
    /\ UNCHANGED <<ws_tx, mtx, room, out, sends, again, given, put, sent>>

-----------------------------------------------------------------------------
(* The chip, and the Wi-Fi task in winc1500_sock_cb *)

\* Mutation of SendEvent: it only goes on if there was more to send.
SendEventMore ==
    /\ out # <<>> /\ tp[Wifi].at = "idle" /\ mtx = "none"
    /\ out' = Tail(out) /\ room' = room + 1
    /\ IF Head(out) = opened /\ ws_type = "stream" /\ ws_tx # <<>>
         THEN mtx' = Wifi /\ tp' = [tp EXCEPT ![Wifi] = At("loop", <<>>, <<>>, "0")]
         ELSE UNCHANGED <<mtx, tp>>
    /\ UNCHANGED <<ws_tx, sends, again, given, put, sent, freed, spoilt>>

\* A request is dealt with: SOCKET_MSG_SEND comes to the Wi-Fi task, which has
\* the mutex while it handles events; socket.c drops the event of an earlier
\* session.
SendEvent ==
    /\ out # <<>> /\ tp[Wifi].at = "idle" /\ mtx = "none"
    /\ out' = Tail(out) /\ room' = room + 1
    /\ IF Head(out) = opened /\ ws_type = "stream"
         THEN mtx' = Wifi /\ tp' = [tp EXCEPT ![Wifi] = At("loop", <<>>, <<>>, "0")]
         ELSE UNCHANGED <<mtx, tp>>
    /\ UNCHANGED <<ws_tx, sends, again, given, put, sent, freed, spoilt>>

\* Other sockets' requests.
OthersTake ==
    /\ room > 0 /\ room' = room - 1
    /\ UNCHANGED <<ws_tx, mtx, tp, out, sends, again, given, put, sent, freed, spoilt>>
OthersGive ==
    /\ room + Len(out) < ChipRoom /\ room' = room + 1
    /\ UNCHANGED <<ws_tx, mtx, tp, out, sends, again, given, put, sent, freed, spoilt>>

-----------------------------------------------------------------------------
(* Creating and closing, under the mutex *)

\* winc1500_sock_create: what a late sendto hung on the closed socket stays.
SockCreate ==
    /\ mtx = "none" /\ Opens(kind)
    /\ put' = ws_tx /\ sent' = <<>> /\ again' = FALSE
    /\ UNCHANGED <<kind, ws_tx, mtx, tp, room, out, sends, given, freed, spoilt>>

\* winc1500_sock_close; what has been received is not modelled here.
SockClose ==
    /\ mtx = "none" /\ Closes
    /\ ws_tx' = <<>> /\ freed' = freed \cup Mbufs(ws_tx)
    /\ put' = <<>> /\ sent' = <<>>
    /\ UNCHANGED <<kind, mtx, tp, room, out, sends, again, given, spoilt>>

-----------------------------------------------------------------------------

TxStep(t) ==
    \/ SetTx(t) \/ TxPend(t) \/ TxSend(t) \/ TxNext(t) \/ TxReturns(t)
    \/ DgramSend(t) \/ DgramReturns(t)

Next ==
    \/ SockCreate \/ SockClose
    \/ (\E t \in Senders : SendTo(t)) /\ UNCHANGED <<kind, ws_type, opened>>
    \/ (\E t \in TxTasks : TxStep(t)) /\ UNCHANGED <<kind, ws_type, opened>>
    \/ (SendEvent \/ OthersTake \/ OthersGive) /\ UNCHANGED <<kind, ws_type, opened>>

Spec == Init /\ [][Next]_vars

\* A task that sends goes on, with the mutex when that is free again and
\* again; the chip deals with what it has taken, and its event is handled.
FairSpec ==
    /\ Spec
    /\ \A t \in TxTasks : SF_vars(TxStep(t) /\ UNCHANGED <<kind, ws_type, opened>>)
    /\ SF_vars(SendEvent /\ UNCHANGED <<kind, ws_type, opened>>)

-----------------------------------------------------------------------------
(* Properties *)

\* The head of ws_tx has been taken by the chip and is about to be freed.
Midway == \E t \in TxTasks : tp[t].at = "next"

\* What the chip has taken and what is still to be sent make up what the calls
\* of sendto handed over, once and in order, whoever of the tasks sent it;
\* nothing on ws_tx has been freed; and when the tasks rest every mbuf handed
\* over hangs there or has been freed.  The code's races end this: two tasks
\* setting ws_tx at once, a caller freeing a chain it was told had not been
\* sent, a datagram's socket closed before its sender looks at it again.
InOrderOnce ==
    /\ "raced" \notin spoilt =>
         sent \o (IF Midway /\ ws_tx # <<>> THEN Tail(ws_tx) ELSE ws_tx) = put
    /\ spoilt = {} => Mbufs(ws_tx) \cap freed = {}
    /\ spoilt = {} /\ (\A t \in TxTasks : tp[t] = Idle) => given = freed \cup Mbufs(ws_tx)

\* What hangs on ws_tx of an open socket is sent in the end, the event of each
\* request that was taken sending the next, and a caller who was told to try
\* again hears when it can; unless the chip refused when none of this socket's
\* requests was left to bring an event: full of other sockets' data, or asked
\* after the socket had been closed.
SentInTheEnd ==
    ws_type = "stream" /\ (ws_tx # <<>> \/ again)
        ~> ws_type = "none" \/ "stranded" \in spoilt \/ (ws_tx = <<>> /\ ~again)
=============================================================================
