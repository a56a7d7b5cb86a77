-------------------------- MODULE WincSocketProofs --------------------------
(***************************************************************************)
(* Two results about a socket of the WINC1500, each about a specification  *)
(* of its own: what hangs on ws_tx of a stream socket and who owns the     *)
(* mbufs (WincSocketTx), for any number of tasks, calls, sockets and       *)
(* buffers; and whose answer a call that waits returns (WincSocketSync),   *)
(* for any number of calls and uses of the socket.                         *)
(***************************************************************************)
EXTENDS WincSocketTx, WincSocketSync, TLAPS

-----------------------------------------------------------------------------
(* Sending: the inductive invariant *)

Mbuf == Nat \X Nat

\* No mbuf is twice in a chain.
Distinct(s) == \A i, j \in DOMAIN s : i # j => s[i] # s[j]

Place == {"idle", "stream", "dgram", "dpost", "pend", "loop", "next", "post"}
Codes == {"0", "SOCK_ERR_INVALID_ARG", "SOCK_ERR_BUFFER_FULL", "MN_EINVAL"}

\* The ranges of the socket's and the tasks' variables.
TxTypeOK ==
    /\ kind \in {"stream", "dgram"} /\ ws_type \in {"none", "stream", "dgram"}
    /\ sends \in Nat
    /\ ws_tx \in Seq(Mbuf) /\ put \in Seq(Mbuf) /\ sent \in Seq(Mbuf)
    /\ tp \in [TxTasks -> [at : Place, chain : Seq(Mbuf), rest : Seq(Mbuf), rc : Codes]]

\* winc1500_stream_tx sends with the mutex.
Locked == \A t \in TxTasks : tp[t].at \in {"loop", "next"} => mtx = t

\* Between send and the end of its turn of the loop a task has sent the head.
Halfway ==
    "raced" \notin spoilt =>
        \A t \in TxTasks : tp[t].at = "next" =>
            /\ ws_tx # <<>> /\ tp[t].rest = Tail(ws_tx)
            /\ sent # <<>> /\ sent[Len(sent)] = Head(ws_tx)

\* The first part of InOrderOnce.
Ordered ==
    "raced" \notin spoilt =>
        sent \o (IF Midway /\ ws_tx # <<>> THEN Tail(ws_tx) ELSE ws_tx) = put

\* A call has its chain to itself while it has not hung it on ws_tx.
Own(t) == Mbufs(tp[t].chain)
Holding(t) == tp[t].at \in {"stream", "dgram", "dpost"}

\* The chains of the calls are made of different mbufs.
Chains ==
    /\ given \subseteq (1 .. sends) \X Nat
    /\ \A t \in TxTasks : Own(t) \subseteq given /\ Distinct(tp[t].chain)
    /\ \A t, u \in TxTasks : t # u => Own(t) \cap Own(u) = {}

\* Every mbuf handed over is in one place: freed, on ws_tx or with its call.
Books ==
    spoilt = {} =>
        /\ Distinct(ws_tx)
        /\ freed \subseteq given /\ Mbufs(ws_tx) \subseteq given
        /\ Mbufs(ws_tx) \cap freed = {}
        /\ \A t \in TxTasks : Holding(t) => Own(t) \cap (freed \cup Mbufs(ws_tx)) = {}
        /\ \A m \in given : m \in freed \cup Mbufs(ws_tx)
                              \/ \E t \in TxTasks : Holding(t) /\ m \in Own(t)

TxInv == TxTypeOK /\ Locked /\ Halfway /\ Ordered /\ Chains /\ Books

-----------------------------------------------------------------------------
(* Chains *)

\* The head of a chain and the rest of it.
LEMMA HeadAndTail ==
    ASSUME NEW s \in Seq(Mbuf), s # <<>>
    PROVE  /\ Head(s) \in Mbuf /\ Tail(s) \in Seq(Mbuf)
           /\ Mbufs(s) = {Head(s)} \cup Mbufs(Tail(s))
           /\ Distinct(s) => Distinct(Tail(s)) /\ Head(s) \notin Mbufs(Tail(s))
<1> DEFINE t == Tail(s)
<1>1. /\ Len(s) \in Nat /\ Len(s) > 0 /\ DOMAIN s = 1 .. Len(s)
      /\ t \in Seq(Mbuf) /\ DOMAIN t = 1 .. Len(s) - 1
      /\ Head(s) = s[1] /\ s[1] \in Mbuf
      /\ \A i \in 1 .. Len(s) - 1 : t[i] = s[i + 1]
  OBVIOUS
<1> HIDE DEF t
<1>2. Mbufs(s) = {s[1]} \cup Mbufs(t)
  <2>1. \A i \in 1 .. Len(s) : i = 1 \/ (i - 1 \in 1 .. Len(s) - 1 /\ t[i - 1] = s[i])
    BY <1>1
  <2>2. \A i \in 1 .. Len(s) - 1 : i + 1 \in 1 .. Len(s) /\ t[i] = s[i + 1]
    BY <1>1
  <2>3. 1 \in 1 .. Len(s)
    BY <1>1
  <2>4. Mbufs(s) = {s[i] : i \in 1 .. Len(s)} /\ Mbufs(t) = {t[i] : i \in 1 .. Len(s) - 1}
    BY <1>1 DEF Mbufs
  <2>5. \A i \in 1 .. Len(s) : s[i] \in {s[1]} \cup Mbufs(t)
    BY <2>1, <2>4
  <2>6. \A i \in 1 .. Len(s) - 1 : t[i] \in Mbufs(s)
    BY <2>2, <2>4
  <2>7. s[1] \in Mbufs(s)
    BY <2>3, <2>4
  <2>8. Mbufs(s) \subseteq {s[1]} \cup Mbufs(t) /\ Mbufs(t) \subseteq Mbufs(s)
    BY <2>4, <2>5, <2>6
  <2>9. QED
    BY <2>7, <2>8
<1>3. ASSUME Distinct(s) PROVE Distinct(t) /\ s[1] \notin Mbufs(t)
  <2>1. \A i, j \in 1 .. Len(s) : i # j => s[i] # s[j]
    BY <1>1, <1>3 DEF Distinct
  <2>2. Distinct(t)
    BY <1>1, <2>1 DEF Distinct
  <2>3. s[1] \notin Mbufs(t)
    BY <1>1, <2>1 DEF Mbufs
  <2>4. QED
    BY <2>2, <2>3
<1>4. QED
  BY <1>1, <1>2, <1>3 DEF t

\* A new call brings new mbufs.
LEMMA NewChain ==
    ASSUME NEW k \in Nat, NEW n \in Nat, NEW c, c = [i \in 1 .. n |-> <<k, i>>]
    PROVE  c \in Seq(Mbuf) /\ Distinct(c) /\ Mbufs(c) \subseteq {k} \X Nat
<1>1. DOMAIN c = 1 .. n /\ \A i \in 1 .. n : c[i] = <<k, i>>
  OBVIOUS
<1>2. c \in Seq(Mbuf)
  BY DEF Mbuf
<1>3. Distinct(c)
  BY <1>1 DEF Distinct
<1>4. Mbufs(c) \subseteq {k} \X Nat
  <2>1. \A i \in 1 .. n : c[i] \in {k} \X Nat
    BY <1>1
  <2>2. QED
    BY <1>1, <2>1 DEF Mbufs
<1>5. QED
  BY <1>2, <1>3, <1>4

LEMMA NoMbufs == Mbufs(<<>>) = {} /\ Distinct(<<>>) /\ <<>> \in Seq(Mbuf)
  BY DEF Mbufs, Distinct

-----------------------------------------------------------------------------
(* Types and the mutex *)

LEMMA TxStart == Init => TxInv
<1> SUFFICES ASSUME Init PROVE TxInv
  OBVIOUS
<1> USE TxAssumption DEF Init, Unused, Idle, At
<1>0. \A t \in TxTasks : tp[t] = Idle
  OBVIOUS
<1>1. TxTypeOK
  BY DEF TxTypeOK, Place, Codes
<1>2. Locked /\ Halfway
  BY <1>0 DEF Locked, Halfway
<1>3. Ordered
  BY <1>0 DEF Ordered, Midway
<1>4. Chains
  BY <1>0, NoMbufs DEF Chains, Own
<1>5. Books
  BY <1>0, NoMbufs DEF Books, Holding
<1>6. QED
  BY <1>1, <1>2, <1>3, <1>4, <1>5 DEF TxInv

\* What an action does to the tasks: u moves to a place, with chain and rest.
Moves(u, at, chain, rest) ==
    /\ tp' \in [TxTasks -> [at : Place, chain : Seq(Mbuf), rest : Seq(Mbuf), rc : Codes]]
    /\ tp'[u].at = at /\ tp'[u].chain = chain /\ tp'[u].rest = rest
    /\ \A t \in TxTasks \ {u} : tp'[t] = tp[t]

LEMMA Goes ==
    ASSUME TxTypeOK, NEW u \in TxTasks, NEW at \in Place, Go(u, at)
    PROVE  Moves(u, at, tp[u].chain, tp[u].rest)
  BY DEF TxTypeOK, Go, Moves

LEMMA GoesWith ==
    ASSUME TxTypeOK, NEW u \in TxTasks, NEW at \in Place, NEW r \in Codes, NEW rest \in Seq(Mbuf)
    PROVE  /\ tp' = [tp EXCEPT ![u].at = at, ![u].rc = r] => Moves(u, at, tp[u].chain, tp[u].rest)
           /\ tp' = [tp EXCEPT ![u].at = at, ![u].rest = rest] => Moves(u, at, tp[u].chain, rest)
<1> DEFINE q == [tp EXCEPT ![u].at = at]
<1>1. /\ q \in [TxTasks -> [at : Place, chain : Seq(Mbuf), rest : Seq(Mbuf), rc : Codes]]
      /\ q[u].at = at /\ q[u].chain = tp[u].chain /\ q[u].rest = tp[u].rest
      /\ \A t \in TxTasks \ {u} : q[t] = tp[t]
  BY DEF TxTypeOK
<1>2. /\ [tp EXCEPT ![u].at = at, ![u].rc = r] = [q EXCEPT ![u].rc = r]
      /\ [tp EXCEPT ![u].at = at, ![u].rest = rest] = [q EXCEPT ![u].rest = rest]
  BY DEF TxTypeOK
<1> HIDE DEF q
<1>3. tp' = [q EXCEPT ![u].rc = r] => Moves(u, at, tp[u].chain, tp[u].rest)
  BY <1>1 DEF Moves
<1>4. tp' = [q EXCEPT ![u].rest = rest] => Moves(u, at, tp[u].chain, rest)
  BY <1>1 DEF Moves
<1>5. QED
  BY <1>2, <1>3, <1>4

LEMMA Becomes ==
    ASSUME TxTypeOK, NEW u \in TxTasks, NEW at \in Place, NEW chain \in Seq(Mbuf),
           tp' = [tp EXCEPT ![u] = At(at, chain, <<>>, "0")]
    PROVE  Moves(u, at, chain, <<>>)
<1>1. At(at, chain, <<>>, "0") \in [at : Place, chain : Seq(Mbuf), rest : Seq(Mbuf), rc : Codes]
  BY DEF At, Codes
<1>2. QED
  BY <1>1 DEF TxTypeOK, Moves, At

-----------------------------------------------------------------------------
(* The actions *)

\* The invariants are about these.
hung == <<ws_tx, put, sent, freed, given, sends, kind, ws_type>>

\* A step of a task that moves nothing but itself.
LEMMA OnlyMoves ==
    ASSUME TxInv, NEW u \in TxTasks, NEW at \in Place, NEW rest \in Seq(Mbuf), NEW chain,
           Moves(u, at, chain, rest), chain = tp[u].chain \/ (chain = <<>> /\ ~Holding(u)),
           UNCHANGED hung, spoilt \subseteq spoilt',
           at # "next" /\ tp[u].at # "next",
           Holding(u) <=> at \in {"stream", "dgram", "dpost"},
           Locked'
    PROVE  TxInv'
<1> USE DEF TxInv
<1>1. TxTypeOK'
  BY DEF TxTypeOK, Moves, hung
<1>2. \A t \in TxTasks : tp[t].at = "next" <=> tp'[t].at = "next"
  BY DEF Moves
<1>3. \A t \in TxTasks : tp[t].at = "next" => tp'[t].rest = tp[t].rest
  BY DEF Moves
<1>4. Halfway'
  BY <1>2, <1>3 DEF Halfway, hung
<1>5. Midway' <=> Midway
  BY <1>2 DEF Midway
<1>6. Ordered'
  BY <1>5 DEF Ordered, hung
<1>7. \A t \in TxTasks : tp'[t].chain = tp[t].chain \/ (tp'[t].chain = <<>> /\ ~Holding(t))
  BY DEF Moves
<1>8. \A t \in TxTasks : Own(t)' = Own(t) \/ (Own(t)' = {} /\ ~Holding(t))
  BY <1>7, NoMbufs DEF Own
<1>9. Chains'
  <2>1. \A t \in TxTasks : Distinct(tp'[t].chain) /\ Own(t)' \subseteq Own(t)
    BY <1>7, <1>8, NoMbufs DEF Chains
  <2>2. QED
    BY <2>1 DEF Chains, hung
<1>10. \A t \in TxTasks : Holding(t)' <=> Holding(t)
  BY DEF Holding, Moves
<1>11. Books'
  <2>1. spoilt' = {} => spoilt = {}
    OBVIOUS
  <2>2. UNCHANGED <<ws_tx, freed, given>>
    BY DEF hung
  <2>3. QED
    BY <1>8, <1>10, <2>1, <2>2 DEF Books
<1>12. QED
  BY <1>1, <1>4, <1>6, <1>9, <1>11

\* A step of nobody that the invariants are about.
LEMMA Quiet == TxInv /\ UNCHANGED <<hung, tp, mtx, spoilt>> => TxInv'
  BY DEF TxInv, hung, TxTypeOK, Locked, Halfway, Ordered, Midway, Chains, Books, Own, Holding

\* One task at a time is in winc1500_stream_tx.
LEMMA Alone ==
    ASSUME Locked, NEW u \in TxTasks, mtx \in {u, "none"}, NEW t \in TxTasks, t # u
    PROVE  tp[t].at \notin {"loop", "next"}
  BY TxAssumption DEF Locked, TxTasks, Wifi

LEMMA NoneSends ==
    ASSUME Locked, mtx = "none", NEW t \in TxTasks PROVE tp[t].at \notin {"loop", "next"}
  BY TxAssumption DEF Locked, TxTasks, Wifi

LEMMA SendToStep ==
    ASSUME TxInv, NEW u \in Senders, SendTo(u), UNCHANGED <<kind, ws_type, opened>>
    PROVE  TxInv'
<1> USE TxAssumption DEF TxInv
<1>0. u \in TxTasks
  BY DEF TxTasks
<1>1. CASE ws_type = "stream" /\ ws_tx # <<>>
  BY <1>1, Quiet DEF SendTo, hung
<1>2. CASE ~(ws_type = "stream" /\ ws_tx # <<>>)
  <2>1. PICK n \in 1 .. MaxChain :
          /\ tp' = [tp EXCEPT ![u] = At(ws_type, [i \in 1 .. n |-> <<sends + 1, i>>], <<>>, "0")]
          /\ given' = given \cup Mbufs([i \in 1 .. n |-> <<sends + 1, i>>])
    BY <1>2 DEF SendTo
  <2>2. PICK chain : chain = [i \in 1 .. n |-> <<sends + 1, i>>]
    OBVIOUS
  <2>3. chain \in Seq(Mbuf) /\ Distinct(chain) /\ Mbufs(chain) \subseteq {sends + 1} \X Nat
    <3>1. PICK k \in Nat : k = sends + 1
      BY DEF TxTypeOK
    <3>2. n \in Nat /\ chain = [i \in 1 .. n |-> <<k, i>>]
      BY <2>2, <3>1
    <3>3. QED
      BY <3>1, <3>2, NewChain
  <2>4. /\ tp[u].at = "idle" /\ ws_type \in {"stream", "dgram"} /\ sends' = sends + 1
        /\ UNCHANGED <<ws_tx, mtx, put, sent, freed, spoilt>>
    BY <1>2 DEF SendTo, TxTypeOK
  <2>5. ws_type \in Place
    BY <2>4 DEF Place
  <2>6. Moves(u, ws_type, chain, <<>>)
    BY <1>0, <2>1, <2>2, <2>3, <2>5, Becomes
  <2>7. TxTypeOK'
    BY <2>4, <2>6 DEF TxTypeOK, Moves
  <2>8. /\ \A t \in TxTasks : tp'[t].at = "next" => tp'[t] = tp[t]
        /\ \A t \in TxTasks : tp[t].at = "next" => tp'[t] = tp[t]
        /\ \A t \in TxTasks : tp'[t].at = "loop" => tp'[t] = tp[t]
    BY <1>0, <2>4, <2>6 DEF Moves
  <2>9. Locked' /\ Halfway'
    BY <2>4, <2>8 DEF Locked, Halfway
  <2>10. Ordered'
    <3>1. Midway' <=> Midway
      BY <2>8 DEF Midway
    <3>2. QED
      BY <2>4, <3>1 DEF Ordered
  <2>11. /\ Own(u)' = Mbufs(chain)
         /\ \A t \in TxTasks \ {u} : Own(t)' = Own(t) /\ tp'[t].chain = tp[t].chain
                                     /\ (Holding(t)' <=> Holding(t))
    BY <1>0, <2>6 DEF Own, Moves, Holding
  <2>12. Mbufs(chain) \cap given = {} /\ given' = given \cup Mbufs(chain)
    <3>1. \A m \in (1 .. sends) \X Nat : m \notin {sends + 1} \X Nat
      BY DEF TxTypeOK
    <3>2. QED
      BY <2>1, <2>2, <2>3, <3>1 DEF Chains
  <2>13. Chains'
    <3>1. given' \subseteq (1 .. sends') \X Nat
      <4>1. (1 .. sends) \X Nat \subseteq (1 .. sends') \X Nat
            /\ {sends + 1} \X Nat \subseteq (1 .. sends') \X Nat
        BY <2>4 DEF TxTypeOK
      <4>2. QED
        BY <2>3, <2>12, <4>1 DEF Chains
    <3>2. \A t \in TxTasks : Own(t)' \subseteq given' /\ Distinct(tp'[t].chain)
      BY <2>3, <2>6, <2>11, <2>12 DEF Chains, Moves
    <3>3. \A t \in TxTasks \ {u} : Own(t)' \cap Own(u)' = {}
      BY <1>0, <2>11, <2>12 DEF Chains
    <3>4. \A t, v \in TxTasks : t # v => Own(t)' \cap Own(v)' = {}
      BY <1>0, <2>11, <3>3 DEF Chains
    <3>5. QED
      BY <3>1, <3>2, <3>4 DEF Chains
  <2>14. Books'
    <3> SUFFICES ASSUME spoilt' = {} PROVE Books'
      BY DEF Books
    <3>0. /\ Distinct(ws_tx) /\ freed \subseteq given /\ Mbufs(ws_tx) \subseteq given
          /\ Mbufs(ws_tx) \cap freed = {}
          /\ \A t \in TxTasks : Holding(t) => Own(t) \cap (freed \cup Mbufs(ws_tx)) = {}
          /\ \A m \in given : m \in freed \cup Mbufs(ws_tx)
                               \/ \E t \in TxTasks : Holding(t) /\ m \in Own(t)
      BY <2>4 DEF Books
    <3>1. ~Holding(u) /\ Holding(u)'
      BY <2>4, <2>6 DEF Holding, Moves
    <3>2. \A t \in TxTasks : Holding(t)' => Own(t)' \cap (freed \cup Mbufs(ws_tx)) = {}
      BY <2>11, <2>12, <3>0
    <3>3. \A m \in given' : m \in freed \cup Mbufs(ws_tx)
                             \/ \E t \in TxTasks : Holding(t)' /\ m \in Own(t)'
      BY <1>0, <2>11, <2>12, <3>0, <3>1
    <3>4. freed \subseteq given' /\ Mbufs(ws_tx) \subseteq given'
      BY <2>12, <3>0
    <3>5. QED
      BY <2>4, <3>0, <3>2, <3>3, <3>4 DEF Books
  <2>15. QED
    BY <2>7, <2>9, <2>10, <2>13, <2>14
<1>3. QED
  BY <1>1, <1>2

\* A chain passes from its call to ws_tx.
LEMMA SetTxStep ==
    ASSUME TxInv, NEW u \in TxTasks, SetTx(u), UNCHANGED <<kind, ws_type, opened>>
    PROVE  TxInv'
<1> USE DEF TxInv
<1>1. PICK chain \in Seq(Mbuf) : chain = tp[u].chain
  BY DEF TxTypeOK
<1>2. /\ tp[u].at = "stream" /\ ws_tx' = chain /\ put' = put \o chain
      /\ UNCHANGED <<mtx, sends, given, sent, freed>>
      /\ spoilt \subseteq spoilt' /\ ("raced" \in spoilt' \/ ws_tx = <<>>)
  BY <1>1 DEF SetTx
<1>3. PICK rest \in Seq(Mbuf) : Moves(u, "pend", chain, rest)
  <2>1. "pend" \in Place /\ Go(u, "pend") /\ tp[u].rest \in Seq(Mbuf)
    BY DEF SetTx, Place, TxTypeOK
  <2>2. QED
    BY <1>1, <2>1, Goes
<1>4. TxTypeOK'
  BY <1>2, <1>3 DEF TxTypeOK, Moves
<1>5. \A t \in TxTasks : tp'[t].at \in {"loop", "next"} => tp'[t] = tp[t]
  BY <1>2, <1>3 DEF Moves
<1>6. Locked'
  BY <1>2, <1>5 DEF Locked
<1>7. "raced" \notin spoilt' => (\A t \in TxTasks : tp[t].at # "next" /\ tp'[t].at # "next")
  BY <1>2, <1>5 DEF Halfway
<1>8. Halfway'
  BY <1>7 DEF Halfway
<1>9. Ordered'
  <2> SUFFICES ASSUME "raced" \notin spoilt' PROVE sent' \o ws_tx' = put' /\ ~Midway'
    BY DEF Ordered
  <2>1. ~Midway /\ ~Midway' /\ ws_tx = <<>> /\ "raced" \notin spoilt
    BY <1>2, <1>7 DEF Midway
  <2>2. sent \o <<>> = put
    BY <2>1 DEF Ordered
  <2>3. sent = put
    BY <2>2 DEF TxTypeOK
  <2>4. QED
    BY <1>2, <2>1, <2>3
<1>10. \A t \in TxTasks : Own(t)' = Own(t) /\ tp'[t].chain = tp[t].chain
  BY <1>1, <1>3 DEF Own, Moves
<1>11. Chains'
  BY <1>2, <1>10 DEF Chains
<1>12. Holding(u) /\ ~Holding(u)' /\ \A t \in TxTasks \ {u} : Holding(t)' <=> Holding(t)
  BY <1>2, <1>3 DEF Holding, Moves
<1>13. Books'
  <2> SUFFICES ASSUME spoilt' = {} PROVE Books'
    BY DEF Books
  <2>0. /\ ws_tx = <<>> /\ freed \subseteq given /\ Mbufs(ws_tx) = {}
        /\ \A t \in TxTasks : Holding(t) => Own(t) \cap freed = {}
        /\ \A m \in given : m \in freed \/ \E t \in TxTasks : Holding(t) /\ m \in Own(t)
    BY <1>2, NoMbufs DEF Books
  <2>1. Mbufs(ws_tx') = Own(u) /\ Distinct(ws_tx') /\ Own(u) \subseteq given
    BY <1>1, <1>2 DEF Own, Chains
  <2>2. Own(u) \cap freed = {}
    BY <1>12, <2>0
  <2>3. \A t \in TxTasks : Holding(t)' => Own(t)' \cap (freed \cup Own(u)) = {}
    BY <1>10, <1>12, <2>0 DEF Chains
  <2>4. \A m \in given : m \in freed \cup Own(u) \/ \E t \in TxTasks : Holding(t)' /\ m \in Own(t)'
    BY <1>10, <1>12, <2>0
  <2>5. QED
    BY <1>2, <2>0, <2>1, <2>2, <2>3, <2>4 DEF Books
<1>14. QED
  BY <1>4, <1>6, <1>8, <1>9, <1>11, <1>13

LEMMA TxPendStep ==
    ASSUME TxInv, NEW u \in TxTasks, TxPend(u), UNCHANGED <<kind, ws_type, opened>>
    PROVE  TxInv'
<1>1. "loop" \in Place /\ Go(u, "loop") /\ tp[u].at = "pend" /\ tp[u].rest \in Seq(Mbuf)
      /\ mtx = "none" /\ mtx' = u /\ UNCHANGED <<hung, spoilt>>
  BY DEF TxPend, Place, TxInv, TxTypeOK, hung
<1>2. Moves(u, "loop", tp[u].chain, tp[u].rest)
  BY <1>1, Goes DEF TxInv
<1>3. Locked'
  <2>1. \A t \in TxTasks \ {u} : tp'[t].at \notin {"loop", "next"}
    BY <1>1, <1>2, NoneSends DEF Moves, TxInv
  <2>2. QED
    BY <1>1, <2>1 DEF Locked
<1>4. ~Holding(u)
  BY <1>1 DEF Holding
<1>5. QED
  BY <1>1, <1>2, <1>3, <1>4, OnlyMoves

\* The chip takes the head of ws_tx, or winc1500_stream_tx ends.
LEMMA TxSendStep ==
    ASSUME TxInv, NEW u \in TxTasks, TxSend(u), UNCHANGED <<kind, ws_type, opened>>
    PROVE  TxInv'
<1>1. /\ tp[u].at = "loop" /\ mtx = u /\ ~Holding(u)
      /\ UNCHANGED <<ws_tx, sends, given, put, freed>> /\ spoilt \subseteq spoilt'
  BY DEF TxSend, TxInv, Locked, Holding
<1>2. \A t \in TxTasks \ {u} : tp[t].at \notin {"loop", "next"}
  BY <1>1, Alone DEF TxInv
<1>3. ~Midway /\ ws_tx \in Seq(Mbuf) /\ sent \in Seq(Mbuf) /\ put \in Seq(Mbuf)
      /\ tp[u].rest \in Seq(Mbuf)
  BY <1>1, <1>2 DEF Midway, TxInv, TxTypeOK
<1>4. CASE ws_tx = <<>> \/ Code # "0"
  <2>1. PICK r \in Codes : tp' = [tp EXCEPT ![u].at = "post", ![u].rc = r]
    BY <1>4 DEF TxSend, Code, Codes
  <2>2. "post" \in Place /\ mtx' = "none" /\ UNCHANGED hung
    BY <1>1, <1>4 DEF TxSend, Place, hung
  <2>3. Moves(u, "post", tp[u].chain, tp[u].rest)
    BY <1>3, <2>1, <2>2, GoesWith DEF TxInv
  <2>4. Locked'
    BY <1>2, <2>3 DEF Locked, Moves
  <2>5. QED
    BY <1>1, <1>3, <2>2, <2>3, <2>4, OnlyMoves
<1>5. CASE ~(ws_tx = <<>> \/ Code # "0")
  <2>1. /\ tp' = [tp EXCEPT ![u].at = "next", ![u].rest = Tail(ws_tx)] /\ ws_tx # <<>>
        /\ sent' = Append(sent, Head(ws_tx)) /\ mtx' = mtx
    BY <1>5 DEF TxSend
  <2>2. Head(ws_tx) \in Mbuf /\ Tail(ws_tx) \in Seq(Mbuf) /\ "next" \in Place /\ "0" \in Codes
    BY <1>3, <2>1, HeadAndTail DEF Place, Codes
  <2>3. Moves(u, "next", tp[u].chain, Tail(ws_tx))
    BY <2>1, <2>2, GoesWith DEF TxInv
  <2>4. TxTypeOK'
    BY <1>1, <1>3, <2>1, <2>2, <2>3 DEF TxInv, TxTypeOK, Moves
  <2>5. Locked'
    BY <1>1, <1>2, <2>1, <2>3 DEF Locked, Moves
  <2>6. Halfway'
    <3>1. sent' # <<>> /\ sent'[Len(sent')] = Head(ws_tx)
      BY <1>3, <2>1, <2>2
    <3>2. \A t \in TxTasks : tp'[t].at = "next" => t = u
      BY <1>2, <2>3 DEF Moves
    <3>3. QED
      BY <1>1, <2>1, <2>3, <3>1, <3>2 DEF Halfway, Moves
  <2>7. Ordered'
    <3> SUFFICES ASSUME "raced" \notin spoilt' PROVE Ordered'
      BY DEF Ordered
    <3>1. Midway'
      BY <2>3 DEF Midway, Moves
    <3>2. sent \o ws_tx = put
      BY <1>1, <1>3 DEF TxInv, Ordered
    <3>3. sent' \o Tail(ws_tx) = sent \o ws_tx
      BY <1>3, <2>1, <2>2
    <3>4. QED
      BY <1>1, <2>1, <3>1, <3>2, <3>3 DEF Ordered
  <2>8. \A t \in TxTasks : /\ Own(t)' = Own(t) /\ tp'[t].chain = tp[t].chain
                           /\ (Holding(t)' <=> Holding(t))
    BY <1>1, <2>3 DEF Own, Moves, Holding
  <2>9. Chains'
    BY <1>1, <2>8 DEF TxInv, Chains
  <2>10. Books'
    <3>1. spoilt' = {} => spoilt = {}
      BY <1>1
    <3>2. UNCHANGED <<ws_tx, freed, given>>
      BY <1>1
    <3>3. QED
      BY <2>8, <3>1, <3>2 DEF TxInv, Books
  <2>11. QED
    BY <2>4, <2>5, <2>6, <2>7, <2>9, <2>10 DEF TxInv
<1>6. QED
  BY <1>4, <1>5

\* The head leaves ws_tx and is freed.
LEMMA TxNextStep ==
    ASSUME TxInv, NEW u \in TxTasks, TxNext(u), UNCHANGED <<kind, ws_type, opened>>
    PROVE  TxInv'
<1>1. /\ tp[u].at = "next" /\ mtx = u /\ ws_tx' = tp[u].rest
      /\ freed' = freed \cup {sent[Len(sent)]} /\ Go(u, "loop") /\ "loop" \in Place
      /\ UNCHANGED <<mtx, sends, given, put, sent>> /\ spoilt \subseteq spoilt'
  BY DEF TxNext, TxInv, Locked, Place
<1>2. \A t \in TxTasks \ {u} : tp[t].at \notin {"loop", "next"}
  BY <1>1, Alone DEF TxInv
<1>3. Moves(u, "loop", tp[u].chain, tp[u].rest)
  BY <1>1, Goes DEF TxInv
<1>4. TxTypeOK'
  BY <1>1, <1>3 DEF TxInv, TxTypeOK, Moves
<1>5. Locked'
  BY <1>1, <1>2, <1>3 DEF Locked, Moves
<1>6. \A t \in TxTasks : tp'[t].at # "next"
  BY <1>2, <1>3 DEF Moves
<1>7. Halfway'
  BY <1>6 DEF Halfway
<1>8. "raced" \notin spoilt => /\ ws_tx # <<>> /\ tp[u].rest = Tail(ws_tx)
                               /\ sent[Len(sent)] = Head(ws_tx)
  BY <1>1 DEF TxInv, Halfway
<1>9. Ordered'
  <2> SUFFICES ASSUME "raced" \notin spoilt' PROVE Ordered'
    BY DEF Ordered
  <2>1. ~Midway' /\ Midway
    BY <1>1, <1>6 DEF Midway
  <2>2. sent \o Tail(ws_tx) = put
    BY <1>1, <1>8, <2>1 DEF TxInv, Ordered
  <2>3. QED
    BY <1>1, <1>8, <2>1, <2>2 DEF Ordered
<1>10. \A t \in TxTasks : /\ Own(t)' = Own(t) /\ tp'[t].chain = tp[t].chain
                          /\ (Holding(t)' <=> Holding(t))
  BY <1>1, <1>3 DEF Own, Moves, Holding
<1>11. Chains'
  BY <1>1, <1>10 DEF TxInv, Chains
<1>12. Books'
  <2> SUFFICES ASSUME spoilt' = {} PROVE Books'
    BY DEF Books
  <2>1. spoilt = {} /\ ws_tx # <<>> /\ ws_tx' = Tail(ws_tx) /\ freed' = freed \cup {Head(ws_tx)}
    BY <1>1, <1>8
  <2>2. /\ Distinct(ws_tx) /\ freed \subseteq given /\ Mbufs(ws_tx) \subseteq given
        /\ Mbufs(ws_tx) \cap freed = {}
        /\ \A t \in TxTasks : Holding(t) => Own(t) \cap (freed \cup Mbufs(ws_tx)) = {}
        /\ \A m \in given : m \in freed \cup Mbufs(ws_tx)
                             \/ \E t \in TxTasks : Holding(t) /\ m \in Own(t)
    BY <2>1 DEF TxInv, Books
  <2>3. /\ Mbufs(ws_tx) = {Head(ws_tx)} \cup Mbufs(ws_tx')
        /\ Distinct(ws_tx') /\ Head(ws_tx) \notin Mbufs(ws_tx')
    BY <2>1, <2>2, HeadAndTail DEF TxInv, TxTypeOK
  <2>4. freed' \cup Mbufs(ws_tx') = freed \cup Mbufs(ws_tx)
    BY <2>1, <2>3
  <2>5. freed' \subseteq given /\ Mbufs(ws_tx') \subseteq given /\ Mbufs(ws_tx') \cap freed' = {}
    BY <2>1, <2>2, <2>3
  <2>6. QED
    BY <1>1, <1>10, <2>2, <2>3, <2>4, <2>5 DEF Books
<1>13. QED
  BY <1>4, <1>5, <1>7, <1>9, <1>11, <1>12 DEF TxInv

\* The caller frees a chain it was told had not been sent.
LEMMA TxReturnsStep ==
    ASSUME TxInv, NEW u \in TxTasks, TxReturns(u), UNCHANGED <<kind, ws_type, opened>>
    PROVE  TxInv'
<1>1. /\ tp[u].at = "post" /\ tp' = [tp EXCEPT ![u] = Idle] /\ ~Holding(u)
      /\ UNCHANGED <<ws_tx, mtx, sends, given, put, sent>>
  BY DEF TxReturns, Holding
<1>2. Moves(u, "idle", <<>>, <<>>)
  <2>1. "idle" \in Place /\ <<>> \in Seq(Mbuf) /\ TxTypeOK
    BY NoMbufs DEF Place, TxInv
  <2>2. QED
    BY <1>1, <2>1, Becomes DEF Idle
<1>3. Locked'
  BY <1>1, <1>2 DEF TxInv, Locked, Moves
<1>4. CASE UNCHANGED <<freed, spoilt>>
  <2>1. UNCHANGED hung
    BY <1>1, <1>4 DEF hung
  <2>2. "idle" \in Place /\ <<>> \in Seq(Mbuf)
    BY NoMbufs DEF Place
  <2>3. QED
    BY <1>1, <1>2, <1>3, <1>4, <2>1, <2>2, OnlyMoves
<1>5. CASE /\ freed' = freed \cup Own(u)
           /\ spoilt' = IF Own(u) \cap Mbufs(ws_tx) # {} THEN spoilt \cup {"doubled"} ELSE spoilt
  <2>1. TxTypeOK'
    BY <1>1, <1>2 DEF TxInv, TxTypeOK, Moves
  <2>2. \A t \in TxTasks : /\ tp[t].at = "next" <=> tp'[t].at = "next"
                           /\ tp[t].at = "next" => tp'[t] = tp[t]
    BY <1>1, <1>2 DEF Moves
  <2>3. Halfway'
    BY <1>1, <1>5, <2>2 DEF TxInv, Halfway
  <2>4. Ordered'
    <3>1. Midway' <=> Midway
      BY <2>2 DEF Midway
    <3>2. QED
      BY <1>1, <1>5, <3>1 DEF TxInv, Ordered
  <2>5. /\ Own(u)' = {} /\ Distinct(tp'[u].chain) /\ ~Holding(u)'
        /\ \A t \in TxTasks \ {u} : /\ Own(t)' = Own(t) /\ tp'[t].chain = tp[t].chain
                                    /\ (Holding(t)' <=> Holding(t))
    BY <1>2, NoMbufs DEF Own, Moves, Holding
  <2>6. Chains'
    BY <1>1, <2>5 DEF TxInv, Chains
  <2>7. Books'
    <3> SUFFICES ASSUME spoilt' = {} PROVE Books'
      BY DEF Books
    <3>1. spoilt = {} /\ Own(u) \cap Mbufs(ws_tx) = {}
      BY <1>5
    <3>2. /\ Distinct(ws_tx) /\ freed \subseteq given /\ Mbufs(ws_tx) \subseteq given
          /\ Mbufs(ws_tx) \cap freed = {}
          /\ \A t \in TxTasks : Holding(t) => Own(t) \cap (freed \cup Mbufs(ws_tx)) = {}
          /\ \A m \in given : m \in freed \cup Mbufs(ws_tx)
                               \/ \E t \in TxTasks : Holding(t) /\ m \in Own(t)
      BY <3>1 DEF TxInv, Books
    <3>3. freed' \subseteq given /\ Mbufs(ws_tx) \cap freed' = {}
      BY <1>5, <3>1, <3>2 DEF TxInv, Chains
    <3>4. \A t \in TxTasks : Holding(t)' => Own(t)' \cap (freed' \cup Mbufs(ws_tx)) = {}
      BY <1>5, <2>5, <3>2 DEF TxInv, Chains
    <3>5. \A m \in given : m \in freed' \cup Mbufs(ws_tx)
                            \/ \E t \in TxTasks : Holding(t)' /\ m \in Own(t)'
      BY <1>1, <1>5, <2>5, <3>2
    <3>6. QED
      BY <1>1, <3>2, <3>3, <3>4, <3>5 DEF Books
  <2>8. QED
    BY <1>3, <2>1, <2>3, <2>4, <2>6, <2>7 DEF TxInv
<1>6. QED
  BY <1>4, <1>5 DEF TxReturns, Own

LEMMA DgramSendStep ==
    ASSUME TxInv, NEW u \in TxTasks, DgramSend(u), UNCHANGED <<kind, ws_type, opened>>
    PROVE  TxInv'
<1>1. tp[u].at = "dgram" /\ Holding(u) /\ UNCHANGED <<hung, mtx, spoilt>> /\ "dpost" \in Place
      /\ tp[u].rest \in Seq(Mbuf) /\ tp[u].chain \in Seq(Mbuf)
  BY DEF DgramSend, Holding, hung, Place, TxInv, TxTypeOK
<1>2. PICK r \in Codes : tp' = [tp EXCEPT ![u].at = "dpost", ![u].rc = r]
  BY DEF DgramSend, Code, Codes
<1>3. Moves(u, "dpost", tp[u].chain, tp[u].rest)
  BY <1>1, <1>2, GoesWith DEF TxInv
<1>4. Locked'
  BY <1>1, <1>3 DEF TxInv, Locked, Moves
<1>5. QED
  BY <1>1, <1>3, <1>4, OnlyMoves

\* A datagram's chain is freed, or forgotten.
LEMMA DgramReturnsStep ==
    ASSUME TxInv, NEW u \in TxTasks, DgramReturns(u), UNCHANGED <<kind, ws_type, opened>>
    PROVE  TxInv'
<1>1. /\ tp[u].at = "dpost" /\ tp' = [tp EXCEPT ![u] = Idle] /\ Holding(u)
      /\ UNCHANGED <<ws_tx, mtx, sends, given, put, sent>>
      /\ spoilt \subseteq spoilt' /\ (spoilt' = {} => freed' = freed \cup Own(u))
  BY DEF DgramReturns, Holding, Own
<1>2. Moves(u, "idle", <<>>, <<>>)
  <2>1. "idle" \in Place /\ <<>> \in Seq(Mbuf) /\ TxTypeOK
    BY NoMbufs DEF Place, TxInv
  <2>2. QED
    BY <1>1, <2>1, Becomes DEF Idle
<1>3. Locked'
  BY <1>1, <1>2 DEF TxInv, Locked, Moves
<1>4. TxTypeOK'
  BY <1>1, <1>2 DEF TxInv, TxTypeOK, Moves
<1>5. \A t \in TxTasks : /\ tp[t].at = "next" <=> tp'[t].at = "next"
                         /\ tp[t].at = "next" => tp'[t] = tp[t]
  BY <1>1, <1>2 DEF Moves
<1>6. Halfway'
  BY <1>1, <1>5 DEF TxInv, Halfway
<1>7. Ordered'
  <2>1. Midway' <=> Midway
    BY <1>5 DEF Midway
  <2>2. QED
    BY <1>1, <2>1 DEF TxInv, Ordered
<1>8. /\ Own(u)' = {} /\ Distinct(tp'[u].chain) /\ ~Holding(u)'
      /\ \A t \in TxTasks \ {u} : /\ Own(t)' = Own(t) /\ tp'[t].chain = tp[t].chain
                                  /\ (Holding(t)' <=> Holding(t))
  BY <1>2, NoMbufs DEF Own, Moves, Holding
<1>9. Chains'
  BY <1>1, <1>8 DEF TxInv, Chains
<1>10. Books'
  <2> SUFFICES ASSUME spoilt' = {} PROVE Books'
    BY DEF Books
  <2>1. spoilt = {} /\ freed' = freed \cup Own(u)
    BY <1>1
  <2>2. /\ Distinct(ws_tx) /\ freed \subseteq given /\ Mbufs(ws_tx) \subseteq given
        /\ Mbufs(ws_tx) \cap freed = {}
        /\ \A t \in TxTasks : Holding(t) => Own(t) \cap (freed \cup Mbufs(ws_tx)) = {}
        /\ \A m \in given : m \in freed \cup Mbufs(ws_tx)
                             \/ \E t \in TxTasks : Holding(t) /\ m \in Own(t)
    BY <2>1 DEF TxInv, Books
  <2>3. freed' \subseteq given /\ Mbufs(ws_tx) \cap freed' = {}
    BY <1>1, <2>1, <2>2 DEF TxInv, Chains
  <2>4. \A t \in TxTasks : Holding(t)' => Own(t)' \cap (freed' \cup Mbufs(ws_tx)) = {}
    BY <1>8, <2>1, <2>2 DEF TxInv, Chains
  <2>5. \A m \in given : m \in freed' \cup Mbufs(ws_tx)
                          \/ \E t \in TxTasks : Holding(t)' /\ m \in Own(t)'
    BY <1>8, <2>1, <2>2
  <2>6. QED
    BY <1>1, <2>2, <2>3, <2>4, <2>5 DEF Books
<1>11. QED
  BY <1>3, <1>4, <1>6, <1>7, <1>9, <1>10 DEF TxInv

LEMMA SendEventStep ==
    ASSUME TxInv, SendEvent, UNCHANGED <<kind, ws_type, opened>>
    PROVE  TxInv'
<1>1. /\ tp[Wifi].at = "idle" /\ mtx = "none" /\ UNCHANGED <<hung, spoilt>> /\ ~Holding(Wifi)
      /\ Wifi \in TxTasks
  BY DEF SendEvent, hung, Holding, TxTasks
<1>2. CASE UNCHANGED <<mtx, tp>>
  BY <1>1, <1>2, Quiet
<1>3. CASE mtx' = Wifi /\ tp' = [tp EXCEPT ![Wifi] = At("loop", <<>>, <<>>, "0")]
  <2>1. "loop" \in Place /\ <<>> \in Seq(Mbuf)
    BY NoMbufs DEF Place
  <2>2. Moves(Wifi, "loop", <<>>, <<>>)
    BY <1>1, <1>3, <2>1, Becomes DEF TxInv
  <2>3. Locked'
    <3>1. \A t \in TxTasks \ {Wifi} : tp'[t].at \notin {"loop", "next"}
      BY <1>1, <2>2, NoneSends DEF Moves, TxInv
    <3>2. QED
      BY <1>3, <3>1 DEF Locked
  <2>4. QED
    BY <1>1, <2>1, <2>2, <2>3, OnlyMoves
<1>4. QED
  BY <1>2, <1>3 DEF SendEvent

\* Creating and closing, with the mutex free: nobody is part way.
LEMMA SocketStep ==
    ASSUME TxInv, SockCreate \/ SockClose
    PROVE  TxInv'
<1>1. \A t \in TxTasks : tp[t].at \notin {"loop", "next"}
  BY NoneSends DEF SockCreate, SockClose, Opens, Closes, TxInv
<1>2. tp' = tp /\ UNCHANGED <<mtx, sends, given, spoilt, kind>>
  BY DEF SockCreate, SockClose, Opens, Closes
<1>3. TxTypeOK'
  BY <1>2, NoMbufs DEF SockCreate, SockClose, Opens, Closes, TxInv, TxTypeOK
<1>4. Locked' /\ Halfway' /\ ~Midway'
  BY <1>1, <1>2 DEF Locked, Halfway, Midway
<1>5. sent' \o ws_tx' = put'
  <2>1. sent' = <<>> /\ ws_tx' \in Seq(Mbuf) /\ put' = ws_tx'
    BY NoMbufs DEF SockCreate, SockClose, Opens, Closes, TxInv, TxTypeOK
  <2>2. QED
    BY <2>1
<1>6. Ordered'
  BY <1>4, <1>5 DEF Ordered
<1>7. \A t \in TxTasks : Own(t)' = Own(t) /\ (Holding(t)' <=> Holding(t))
  BY <1>2 DEF Own, Holding
<1>8. Chains'
  BY <1>2, <1>7 DEF TxInv, Chains
<1>9. Books'
  <2>1. CASE SockCreate
    <3>1. UNCHANGED <<ws_tx, freed>>
      BY <2>1 DEF SockCreate, Opens
    <3>2. QED
      BY <1>2, <1>7, <3>1 DEF TxInv, Books
  <2>2. CASE SockClose
    <3>1. ws_tx' = <<>> /\ freed' = freed \cup Mbufs(ws_tx)
      BY <2>2 DEF SockClose, Closes
    <3>2. freed' \cup Mbufs(ws_tx') = freed \cup Mbufs(ws_tx) /\ Mbufs(ws_tx') = {} /\ Distinct(ws_tx')
      BY <3>1, NoMbufs
    <3>3. QED
      BY <1>2, <1>7, <3>1, <3>2 DEF TxInv, Books
  <2>3. QED
    BY <2>1, <2>2
<1>10. QED
  BY <1>3, <1>4, <1>6, <1>8, <1>9 DEF TxInv

LEMMA TxInvStep == TxInv /\ [Next]_vars => TxInv'
<1> SUFFICES ASSUME TxInv, [Next]_vars PROVE TxInv'
  OBVIOUS
<1>1. CASE (\E t \in TxTasks : TxStep(t)) /\ UNCHANGED <<kind, ws_type, opened>>
  BY <1>1, SetTxStep, TxPendStep, TxSendStep, TxNextStep, TxReturnsStep, DgramSendStep,
     DgramReturnsStep DEF TxStep
<1>2. CASE (SendEvent \/ OthersTake \/ OthersGive) /\ UNCHANGED <<kind, ws_type, opened>>
  <2>1. CASE OthersTake \/ OthersGive
    BY <1>2, <2>1, Quiet DEF OthersTake, OthersGive, hung
  <2>2. QED
    BY <1>2, <2>1, SendEventStep
<1>3. CASE UNCHANGED vars
  BY <1>3, Quiet DEF vars, hung
<1>4. QED
  BY <1>1, <1>2, <1>3, SendToStep, SocketStep DEF Next

\* For any number of tasks, calls, sockets and chip buffers, the chip gets
\* what the calls of sendto hung on ws_tx, once and in order, whichever task
\* sends it; nothing on ws_tx has been freed, and at rest every mbuf handed over
\* hangs there or has been freed: until two tasks race for ws_tx, a caller frees
\* what hangs there, or a datagram is forgotten.
THEOREM TxInOrderOnce == Spec => []InOrderOnce
<1>1. TxInv => InOrderOnce
  <2> SUFFICES ASSUME TxInv PROVE InOrderOnce
    OBVIOUS
  <2>1. ASSUME spoilt = {}, \A t \in TxTasks : tp[t] = Idle PROVE given = freed \cup Mbufs(ws_tx)
    <3>1. \A t \in TxTasks : ~Holding(t)
      BY <2>1 DEF Holding, Idle, At
    <3>2. QED
      BY <2>1, <3>1 DEF TxInv, Books
  <2>2. QED
    BY <2>1 DEF TxInv, Books, Ordered, InOrderOnce
<1>2. QED
  BY <1>1, TxStart, TxInvStep, PTL DEF Spec

-----------------------------------------------------------------------------
(* Waiting: the inductive invariant *)

SyncTypeOK ==
    /\ ws_type \in Types \cup {"none"}
    /\ ws_waiting \in BOOLEAN /\ ws_poll \in BOOLEAN
    /\ clean \in BOOLEAN /\ disturbed \in BOOLEAN
    /\ ws_err \in Nat /\ ws_sem \in Nat
    /\ pc \in {"idle", "pending", "woken", "timeout"}
    /\ calls \in 0 .. MaxCalls /\ opened \in Nat
    /\ status \in [1 .. MaxCalls -> Statuses]
    /\ source \in 0 .. calls /\ result \in 0 .. calls
    /\ asked \subseteq [call : 1 .. calls, op : {"bind", "listen"}]

\* The chip owes one answer to a call at most.
AskedOnce == \A q, r \in asked : q.call = r.call => q = r

\* ws_waiting is set from the request until the task has the mutex back.
Waiting == /\ ws_waiting <=> pc # "idle"
           /\ pc # "idle" => calls > 0

\* The call that made the request numbered c has not been answered.
Owed(c) == \E q \in asked : q.call = c

\* On an undisturbed socket the semaphore has no token but the one of the
\* call's own answer, and no answer is on its way but that to the call.
Calm ==
    ~disturbed =>
        \/ /\ pc = "idle" /\ ws_sem = 0 /\ asked = {}
        \/ /\ pc = "pending" /\ ws_sem = 0
           /\ \A q \in asked : q.call = calls
           /\ asked # {}
        \/ /\ pc = "pending" /\ ws_sem = 1 /\ asked = {} /\ source = calls
        \/ /\ pc = "woken" /\ ws_sem = 0 /\ asked = {} /\ source = calls

\* ws_err comes from an answer that has been given, and holds what is left of
\* it as long as the call waits.
Fresh ==
    /\ source # 0 => ~Owed(source)
    /\ pc # "idle" /\ source = calls => ws_err = status[calls] % 256

\* An answer that a call has returned as its own is final, and was told apart.
Returned ==
    pc = "idle" /\ calls > 0 /\ result = calls /\ rc # "MN_ETIMEDOUT" =>
        /\ ~Owed(calls)
        /\ (rc = "0") = (status[calls] = 0)

SyncInv == SyncTypeOK /\ AskedOnce /\ Waiting /\ Calm /\ Fresh /\ Returned

-----------------------------------------------------------------------------
(* Waiting: the steps *)


\* What is left of a code in a uint8_t is zero for success only, and
\* winc1500_err_to_mn_err calls only zero a success.
LEMMA SuccessSurvives ==
    ASSUME NEW err \in Statuses
    PROVE  /\ err % 256 \in Nat
           /\ (ErrToMnErr(err % 256) = "0") = (err = 0)
           /\ ErrToMnErr(err % 256) # "MN_ETIMEDOUT"
<1>1. err % 256 \in {0, 254, 247} /\ (err % 256 = 0) = (err = 0)
  BY DEF Statuses
<1>2. ErrToMnErr(0) = "0"
  <2>1. 0 # -2 /\ 0 # -9
    OBVIOUS
  <2>. QED
    BY <2>1, Zenon DEF ErrToMnErr
<1>3. ASSUME NEW n \in {254, 247}
      PROVE  ErrToMnErr(n) = "MN_EUNKNOWN"
  <2>1. n # 0 /\ n # -2 /\ n # -9
    BY <1>3
  <2>. QED
    BY <2>1, Zenon DEF ErrToMnErr
<1>. QED
  BY <1>1, <1>2, <1>3

\* A reply to nobody changes nothing; one to a task that waits leaves its code
\* and a token.
LEMMA WakeStep ==
    ASSUME SyncTypeOK, NEW err \in Int, NEW call, SockWake(err, call)
    PROVE  /\ ws_err' \in Nat /\ ws_sem' \in Nat
           /\ ws_waiting => ws_err' = err % 256 /\ ws_sem' = ws_sem + 1 /\ source' = call
           /\ ~ws_waiting => ws_err' = ws_err /\ ws_sem' = ws_sem /\ source' = source
  BY DEF SockWake, SyncTypeOK

\* winc1500_sock_create clears the semaphore, so that only an answer still on
\* its way disturbs the new socket.
LEMMA CreateStep ==
    ASSUME SyncInv, SyncCreate
    PROVE  SyncInv'
<1>. SUFFICES SyncTypeOK' /\ AskedOnce' /\ Waiting' /\ Calm' /\ Fresh' /\ Returned'
  BY DEF SyncInv
<1>. USE DEF SyncInv, SyncTypeOK, SyncCreate, Opens
<1>1. SyncTypeOK'
  <2>1. disturbed' \in BOOLEAN
    BY Zenon
  <2>2. ws_type' \in Types \cup {"none"} /\ ws_waiting' \in BOOLEAN
    BY Zenon
  <2>3. /\ ws_err' \in Nat /\ ws_sem' \in Nat
        /\ opened' = opened + 1 /\ opened \in Nat
        /\ UNCHANGED <<ws_poll, pc, asked, calls, status, source, result, clean>>
    OBVIOUS
  <2>. HIDE DEF SyncCreate, Opens
  <2>. QED
    BY <2>1, <2>2, <2>3
<1>2. AskedOnce' /\ Waiting'
  BY DEF AskedOnce, Waiting
<1>3. Calm'
  BY DEF Calm
<1>4. Fresh' /\ Returned'
  BY DEF Fresh, Returned, Owed
<1>. QED
  BY <1>1, <1>2, <1>3, <1>4

\* winc1500_sock_close leaves what the waiting calls use alone.
LEMMA CloseStep ==
    ASSUME SyncInv, SyncClose
    PROVE  SyncInv'
  BY DEF SyncInv, SyncTypeOK, AskedOnce, Waiting, Owed, Calm, Fresh, Returned, SyncClose, Closes

\* A new call has a number of its own, which no answer has had.
LEMMA CallStep ==
    ASSUME SyncInv, NEW op \in {"bind", "listen"}, SockCall(op)
    PROVE  SyncInv'
<1>. SUFFICES SyncTypeOK' /\ AskedOnce' /\ Waiting' /\ Calm' /\ Fresh' /\ Returned'
  BY DEF SyncInv
<1>. USE SyncAssumption DEF SyncInv, SyncTypeOK, SockCall
<1>1. SyncTypeOK'
  OBVIOUS
<1>2. AskedOnce' /\ Waiting'
  BY DEF AskedOnce, Waiting
<1>3. Calm'
  <2>1. ~disturbed => ws_sem = 0 /\ asked = {}
    BY DEF Calm
  <2>2. pc' = "pending" /\ ws_sem' = ws_sem /\ disturbed' = disturbed
    OBVIOUS
  <2>3. asked = {} => asked' # {} /\ \A q \in asked' : q.call = calls'
    OBVIOUS
  <2>. HIDE DEF SyncTypeOK, SockCall, SyncInv
  <2>. QED
    BY <2>1, <2>2, <2>3 DEF Calm
<1>4. Fresh' /\ Returned'
  BY DEF Fresh, Returned, Owed
<1>. QED
  BY <1>1, <1>2, <1>3, <1>4

\* The task takes the token of its own answer.
LEMMA WokenStep ==
    ASSUME SyncInv, Woken
    PROVE  SyncInv'
  BY DEF SyncInv, SyncTypeOK, AskedOnce, Waiting, Owed, Calm, Fresh, Returned, Woken

\* A time-out disturbs the socket.
LEMMA TimeOutStep ==
    ASSUME SyncInv, TimeOut
    PROVE  SyncInv'
  BY DEF SyncInv, SyncTypeOK, AskedOnce, Waiting, Owed, Calm, Fresh, Returned, TimeOut

\* The call returns the code of its answer, which ws_err still holds.
LEMMA ReturnStep ==
    ASSUME SyncInv, WaitReturns
    PROVE  SyncInv'
<1>. SUFFICES SyncTypeOK' /\ AskedOnce' /\ Waiting' /\ Calm' /\ Fresh' /\ Returned'
  BY DEF SyncInv
<1>. USE SyncAssumption DEF SyncInv, SyncTypeOK
<1>1. SyncTypeOK'
  <2>1. /\ UNCHANGED <<ws_type, ws_poll, ws_sem, asked, calls, opened, status, source,
                       clean, disturbed>>
        /\ ws_waiting' = FALSE /\ pc' = "idle"
    BY DEF WaitReturns
  <2>2. ws_err' \in Nat /\ result' \in 0 .. calls
    BY DEF WaitReturns
  <2>. QED
    BY <2>1, <2>2
<1>2. AskedOnce' /\ Waiting'
  BY DEF AskedOnce, Waiting, WaitReturns
<1>3. Calm'
  BY DEF Calm, WaitReturns
<1>4. Fresh'
  BY DEF Fresh, Owed, WaitReturns
<1>5. Returned'
  <2>1. CASE pc = "timeout"
    <3>1. rc' = "MN_ETIMEDOUT"
      BY <2>1 DEF WaitReturns
    <3>. QED
      BY <3>1 DEF Returned
  <2>2. CASE pc = "woken" /\ source = calls
    <3>1. rc' = ErrToMnErr(ws_err) /\ UNCHANGED <<calls, status, asked>>
      BY <2>2 DEF WaitReturns
    <3>2. calls \in 1 .. MaxCalls /\ ~Owed(calls) /\ ws_err = status[calls] % 256
      BY <2>2 DEF Waiting, Fresh
    <3>3. (rc' = "0") = (status[calls] = 0)
      BY <3>1, <3>2, SuccessSurvives
    <3>. QED
      BY <3>1, <3>2, <3>3 DEF Returned, Owed
  <2>3. CASE pc = "woken" /\ source # calls
    BY <2>3 DEF Returned, WaitReturns
  <2>. QED
    BY <2>1, <2>2, <2>3 DEF WaitReturns
<1>. QED
  BY <1>1, <1>2, <1>3, <1>4, <1>5

\* winc1500_sock_cb with the answer to bind or listen.
LEMMA ReplyStep ==
    ASSUME SyncInv, Reply
    PROVE  SyncInv'
<1>1. PICK q \in asked, err \in Statuses :
        /\ asked' = asked \ {q}
        /\ status' = [status EXCEPT ![q.call] = err]
        /\ SockWake(err, q.call)
        /\ ws_poll' = (ws_poll \/ (q.op = "bind" /\ ws_type = "dgram"))
  BY DEF Reply
<1>2. UNCHANGED <<ws_type, ws_waiting, pc, rc, calls, opened, result, clean, disturbed>>
  BY DEF Reply
<1>3. /\ q.call \in 1 .. calls /\ q.op \in {"bind", "listen"} /\ err \in Int
      /\ calls \in 0 .. MaxCalls
  BY DEF SyncInv, SyncTypeOK, Statuses
<1>4. /\ ws_err' \in Nat /\ ws_sem' \in Nat
      /\ ws_waiting => ws_err' = err % 256 /\ ws_sem' = ws_sem + 1 /\ source' = q.call
      /\ ~ws_waiting => ws_err' = ws_err /\ ws_sem' = ws_sem /\ source' = source
  BY <1>1, <1>3, WakeStep DEF SyncInv
<1>5. ~Owed(q.call)'
  BY <1>1 DEF SyncInv, AskedOnce, Owed
<1>6. ASSUME NEW c, ~Owed(c)
      PROVE  ~Owed(c)' /\ c # q.call
  BY <1>1, <1>6 DEF Owed
<1>. USE SyncAssumption, <1>2, <1>3, <1>4 DEF SyncInv, SyncTypeOK
<1>7. SyncTypeOK'
  BY <1>1
<1>8. AskedOnce' /\ Waiting'
  BY <1>1 DEF AskedOnce, Waiting
<1>9. Calm'
  <2>1. ~disturbed => /\ pc = "pending" /\ ws_sem = 0 /\ ws_waiting
                      /\ \A r \in asked : r.call = calls
    BY <1>1 DEF Calm, Waiting
  <2>2. ~disturbed => asked' = {}
    BY <2>1, <1>1 DEF AskedOnce
  <2>. QED
    BY <2>1, <2>2, <1>1 DEF Calm
<1>10. Fresh'
  <2>1. CASE ws_waiting
    <3>1. source' = calls' => status'[calls] = err
      BY <2>1, <1>1
    <3>. QED
      BY <2>1, <3>1, <1>5 DEF Fresh
  <2>2. CASE ~ws_waiting
    BY <2>2, <1>6 DEF Fresh, Waiting
  <2>. QED
    BY <2>1, <2>2
<1>11. Returned'
  <2>. SUFFICES ASSUME pc = "idle", calls > 0, result = calls, rc # "MN_ETIMEDOUT"
                PROVE  ~Owed(calls)' /\ (rc = "0") = (status'[calls] = 0)
    BY DEF Returned, Owed
  <2>1. ~Owed(calls) /\ (rc = "0") = (status[calls] = 0)
    BY DEF Returned
  <2>2. ~Owed(calls)' /\ calls # q.call
    BY <2>1, <1>6
  <2>3. status'[calls] = status[calls]
    BY <2>2, <1>1
  <2>. QED
    BY <2>1, <2>2, <2>3
<1>. QED
  BY <1>7, <1>8, <1>9, <1>10, <1>11

\* A poll that fails wakes a call with a code that is the answer to none.
LEMMA RecvErrorStep ==
    ASSUME SyncInv, RecvError
    PROVE  SyncInv'
<1>1. UNCHANGED <<ws_type, ws_waiting, pc, rc, asked, calls, opened, status, result, clean>>
  BY DEF RecvError
<1>2. ws_poll' = FALSE /\ disturbed' = TRUE /\ SockWake(-9, 0)
  BY DEF RecvError
<1>3. /\ ws_err' \in Nat /\ ws_sem' \in Nat
      /\ ws_waiting => source' = 0
      /\ ~ws_waiting => ws_err' = ws_err /\ ws_sem' = ws_sem /\ source' = source
  BY <1>2, WakeStep DEF SyncInv
<1>. USE <1>1, <1>3 DEF SyncInv
<1>4. SyncTypeOK'
  <2>1. source' \in 0 .. calls
    BY DEF SyncTypeOK
  <2>2. ws_poll' \in BOOLEAN /\ disturbed' \in BOOLEAN
    BY <1>2
  <2>. QED
    BY <2>1, <2>2 DEF SyncTypeOK
<1>5. AskedOnce' /\ Waiting' /\ Calm'
  BY <1>2 DEF AskedOnce, Waiting, Calm
<1>6. Fresh'
  BY DEF Fresh, Waiting, Owed, SyncTypeOK
<1>7. Returned'
  BY DEF Returned, Owed
<1>. QED
  BY <1>4, <1>5, <1>6, <1>7

\* A call that is woken is about to return the answer to its own request on a
\* socket that no time-out and no failed poll has disturbed, and an answer that
\* a call returns as its own tells success from failure: winc1500_sock_wait
\* and winc1500_sock_wake, for any number of calls and uses of the socket.
THEOREM SyncOwnAnswer == SyncSpec => []OwnAnswer
<1>1. SyncInit => SyncInv
  <2>. SUFFICES ASSUME SyncInit
                PROVE  SyncInv
    OBVIOUS
  <2>1. SyncTypeOK
    <3>1. status \in [1 .. MaxCalls -> Statuses]
      BY DEF SyncInit, Unused, Statuses
    <3>2. asked = {} /\ calls \in 0 .. MaxCalls /\ source \in 0 .. calls /\ result \in 0 .. calls
      BY SyncAssumption DEF SyncInit, Unused
    <3>3. /\ ws_waiting \in BOOLEAN /\ ws_poll \in BOOLEAN
          /\ clean \in BOOLEAN /\ disturbed \in BOOLEAN
      BY DEF SyncInit, Unused
    <3>4. /\ ws_type = "none" /\ ws_err \in Nat /\ ws_sem \in Nat /\ pc = "idle"
          /\ opened \in Nat
      BY DEF SyncInit, Unused
    <3>. QED
      BY <3>1, <3>2, <3>3, <3>4 DEF SyncTypeOK
  <2>2. AskedOnce /\ Waiting /\ Calm
    BY DEF SyncInit, Unused, AskedOnce, Waiting, Calm
  <2>3. Fresh /\ Returned
    BY DEF SyncInit, Unused, Fresh, Returned, Owed
  <2>. QED
    BY <2>1, <2>2, <2>3 DEF SyncInv
<1>2. SyncInv /\ [SyncNext]_syncVars => SyncInv'
  <2>. SUFFICES ASSUME SyncInv, [SyncNext]_syncVars
                PROVE  SyncInv'
    OBVIOUS
  <2>1. CASE SyncCreate
    BY <2>1, CreateStep
  <2>2. CASE SyncClose
    BY <2>2, CloseStep
  <2>3. CASE SockCall("bind") \/ SockCall("listen")
    BY <2>3, CallStep
  <2>4. CASE Woken
    BY <2>4, WokenStep
  <2>5. CASE TimeOut
    BY <2>5, TimeOutStep
  <2>6. CASE WaitReturns
    BY <2>6, ReturnStep
  <2>7. CASE Reply
    BY <2>7, ReplyStep
  <2>8. CASE RecvError
    BY <2>8, RecvErrorStep
  <2>9. CASE UNCHANGED syncVars
    BY <2>9 DEF syncVars, SyncInv, SyncTypeOK, AskedOnce, Waiting, Owed, Calm, Fresh, Returned
  <2>. QED
    BY <2>1, <2>2, <2>3, <2>4, <2>5, <2>6, <2>7, <2>8, <2>9 DEF SyncNext
<1>3. SyncInv => OwnAnswer
  BY DEF SyncInv, Calm, Returned, OwnAnswer, SuccessKept
<1>. QED
  BY <1>1, <1>2, <1>3, PTL DEF SyncSpec
=============================================================================
