---------------------------- MODULE HalUartProofs ----------------------------
(***************************************************************************)
(* The ring buffer of ringbuf.c by itself, for every size and every set of *)
(* bytes: its fields keep their ranges, the fill count agrees with the     *)
(* pointers, and the whole implements a bounded FIFO queue.                *)
(*                                                                         *)
(* The serial port uses it as it is meant to be used: every step of        *)
(* HalUart is one call of the ring buffer or leaves it alone.  The same    *)
(* therefore holds in the composition, for every size of e_tx and of       *)
(* txdata; and no character is lost on its way from e_tx to the wire.      *)
(***************************************************************************)
EXTENDS HalUart, SequenceTheorems, TLAPS

-----------------------------------------------------------------------------
(* The ring buffer *)

\* RINGBUF_Init establishes the invariant.
LEMMA RingInit == RINGBUF_Init => RingInv
  BY RingAssumption
     DEF RINGBUF_Init, RingInv, TypeOK, Index, Slot

\* RINGBUF_Put and RINGBUF_Get preserve it, refused calls included.
LEMMA RingStep == RingInv /\ [Next]_vars => RingInv'
<1> SUFFICES ASSUME RingInv, [Next]_vars PROVE RingInv'
  OBVIOUS
<1> USE RingAssumption DEF RingInv, TypeOK, Index, Slot
<1>1. ASSUME NEW c \in Byte, PutOk(c) PROVE RingInv'
  BY <1>1 DEF PutOk, Rollback
<1>2. ASSUME NEW c \in Byte, PutFull(c) PROVE RingInv'
  BY <1>2 DEF PutFull
<1>3. CASE GetOk
  BY <1>3 DEF GetOk, Rollback
<1>4. CASE GetEmpty
  BY <1>4 DEF GetEmpty
<1>5. CASE UNCHANGED vars
  BY <1>5 DEF vars
<1>6. QED
  BY <1>1, <1>2, <1>3, <1>4, <1>5 DEF Next, RINGBUF_Put, RINGBUF_Get

\* Whatever the calls, the fields of a RINGBUF stay in their ranges and the
\* fill count is the distance from the read to the write pointer.
THEOREM RingCorrect == Spec => []RingInv
  BY RingInit, RingStep, PTL DEF Spec

\* The stored bytes form a sequence of length fill_cnt.
LEMMA ContentsType ==
    RingInv => /\ Contents \in Seq(Byte \cup {0})
               /\ Len(Contents) = fill_cnt
  BY RingAssumption
     DEF RingInv, TypeOK, Contents, Index, Slot

\* A byte put goes to their end.
LEMMA PutContents ==
    ASSUME RingInv, RingInv', NEW c \in Byte, PutOk(c)
    PROVE  Contents' = Append(Contents, c)
<1> USE RingAssumption
<1>1. Contents \in Seq(Byte \cup {0}) /\ Len(Contents) = fill_cnt
  BY ContentsType
<1>2. (Contents \in Seq(Byte \cup {0}) /\ Len(Contents) = fill_cnt)'
  BY ContentsType, PTL
<1>3. \A i \in 1 .. fill_cnt : Contents'[i] = Contents[i]
  BY DEF PutOk, RingInv, TypeOK, Contents, Index, Slot
<1>4. Contents'[fill_cnt + 1] = c
  BY DEF PutOk, RingInv, TypeOK, Contents, Index, Slot
<1>5. QED
  BY <1>1, <1>2, <1>3, <1>4 DEF PutOk, RingInv, TypeOK

\* The byte got is the first of them.
LEMMA GetContents ==
    ASSUME RingInv, RingInv', GetOk
    PROVE  Contents # <<>> /\ Head(Contents) = buf[p_r] /\ Contents' = Tail(Contents)
<1> USE RingAssumption
<1>1. Contents \in Seq(Byte \cup {0}) /\ Len(Contents) = fill_cnt
  BY ContentsType
<1>2. (Contents \in Seq(Byte \cup {0}) /\ Len(Contents) = fill_cnt)'
  BY ContentsType, PTL
<1>3. fill_cnt > 0 /\ Contents # <<>> /\ Head(Contents) = buf[p_r]
  BY <1>1 DEF GetOk, RingInv, TypeOK, Contents, Index, Slot
<1>4. \A i \in 1 .. fill_cnt' : Contents'[i] = Contents[i + 1]
  BY DEF GetOk, Rollback, RingInv, TypeOK, Contents, Index, Slot
<1>5. Contents' = Tail(Contents)
  BY <1>1, <1>2, <1>3, <1>4 DEF GetOk, RingInv, TypeOK
<1>6. QED
  BY <1>3, <1>5

\* A step of the ring buffer is a step of the FIFO queue.
LEMMA RingRefines == RingInv /\ RingInv' /\ [Next]_vars => [Fifo!Next]_(Fifo!vars)
<1> SUFFICES ASSUME RingInv, RingInv', [Next]_vars
             PROVE  [Fifo!Next]_(Fifo!vars)
  OBVIOUS
<1> USE RingAssumption
<1>a. Contents \in Seq(Byte \cup {0}) /\ Len(Contents) = fill_cnt
  BY ContentsType
<1>1. ASSUME NEW c \in Byte, PutOk(c) PROVE Fifo!Put(c)
  <2>1. Contents' = Append(Contents, c)
    BY <1>1, PutContents
  <2>2. QED
    BY <1>1, <1>a, <2>1 DEF PutOk, Fifo!Put, RingInv, TypeOK
<1>2. ASSUME NEW c \in Byte, PutFull(c) PROVE Fifo!Put(c)
  <2>1. Contents' = Contents
    BY <1>2 DEF PutFull, Contents, Index
  <2>2. QED
    BY <1>2, <1>a, <2>1 DEF PutFull, Fifo!Put, RingInv, TypeOK
<1>3. ASSUME GetOk PROVE Fifo!Get
  <2>1. Contents # <<>> /\ Head(Contents) = buf[p_r] /\ Contents' = Tail(Contents)
    BY <1>3, GetContents
  <2>2. QED
    BY <1>3, <2>1 DEF GetOk, Fifo!Get
<1>4. ASSUME GetEmpty PROVE Fifo!Get
  <2>1. Contents' = Contents /\ Contents = <<>>
    BY <1>4, <1>a DEF GetEmpty, Contents, Index, RingInv, TypeOK
  <2>2. QED
    BY <1>4, <2>1 DEF GetEmpty, Fifo!Get
<1>5. ASSUME UNCHANGED vars PROVE UNCHANGED Fifo!vars
  BY <1>5 DEF vars, Fifo!vars, Contents, Index
<1>6. QED
  BY <1>1, <1>2, <1>3, <1>4, <1>5
     DEF Next, RINGBUF_Put, RINGBUF_Get, Fifo!Next

\* ringbuf.c implements a bounded FIFO queue, for every size and alphabet.
THEOREM RingImplementsFifo == Spec => ImplementsFifo
<1>1. RINGBUF_Init => Fifo!Init
  BY RingAssumption DEF RINGBUF_Init, Fifo!Init, Contents, Index
<1>2. QED
  BY RingInit, RingStep, RingRefines, <1>1, PTL DEF Spec, ImplementsFifo, Fifo!Spec

-----------------------------------------------------------------------------
(* Its use by the serial port *)

\* The number of the last character written.
QueuedOK == queued \in 0 .. MaxChars

LEMMA QueuedInit == UartInit => QueuedOK
  BY UartAssumption DEF UartInit, QueuedOK

\* The ring is touched by Put and by the two loops of fill_tx_buf only.
LEMMA UartStep ==
    ASSUME QueuedOK, [UartNext]_uartVars
    PROVE  QueuedOK' /\ [Next]_vars
<1> USE UartAssumption DEF QueuedOK
<1>1. CASE Opening
  BY <1>1 DEF Opening, hal_uart_init, hal_uart_init_cbs, hal_uart_config, hal_uart_close
<1>2. CASE Put
  BY <1>2 DEF Put, Next, RINGBUF_Put
<1>3. CASE BlockingTx
  BY <1>3 DEF BlockingTx
<1>4. CASE Task
  <2>1. CASE Fill
    BY <2>1 DEF Fill, Fetch, Next, RINGBUF_Get
  <2>2. CASE StartTx \/ SetOn \/ WriteJob \/ WriteWait \/ BlockingEnds
    BY <2>2 DEF StartTx, SetOn, WriteJob, WriteWait, BlockingEnds
  <2>3. QED
    BY <1>4, <2>1, <2>2 DEF Task
<1>5. CASE Load \/ ShiftOut
  BY <1>5 DEF Load, ShiftOut
<1>6. CASE TxInterrupt
  <2>1. CASE TxDoneFill
    BY <2>1 DEF TxDoneFill, Fetch, Next, RINGBUF_Get
  <2>2. CASE DataEmpty \/ TxDone \/ TxDoneEnd
    BY <2>2 DEF DataEmpty, TxDone, TxDoneEnd
  <2>3. QED
    BY <1>6, <2>1, <2>2 DEF TxInterrupt
<1>7. CASE Arrives \/ RxDone \/ hal_uart_start_rx
  BY <1>7 DEF Arrives, RxDone, hal_uart_start_rx
<1>8. CASE UNCHANGED uartVars
  BY <1>8 DEF uartVars
<1>9. QED
  BY <1>1, <1>2, <1>3, <1>4, <1>5, <1>6, <1>7, <1>8 DEF UartNext

\* Whatever the task, the interrupts and the hardware do, e_tx behaves as the
\* ring buffer of RingBuf: the serial port implements its specification.
THEOREM UartUsesRing == UartSpec => Spec
<1>1. UartInit => RINGBUF_Init
  BY DEF UartInit
<1>2. QED
  BY <1>1, QueuedInit, UartStep, PTL DEF UartSpec, Spec

\* Hence e_tx keeps its fill count equal to the distance of its pointers when
\* the task puts and the task or the interrupt gets.
THEOREM UartRingCorrect == UartSpec => []RingInv
  BY UartUsesRing, RingCorrect, PTL

\* And it stays a bounded FIFO queue between esp_uart_write and fill_tx_buf.
THEOREM UartImplementsFifo == UartSpec => ImplementsFifo
  BY UartUsesRing, RingImplementsFifo, PTL

-----------------------------------------------------------------------------
(* Sequences of characters *)

\* Concatenation, at three given sequences: with more of them in sight the
\* provers are lost in the instances of the law.
Assoc(s, t, u) == (s \o t) \o u = s \o (t \o u)

LEMMA ConcatAssoc ==
    ASSUME NEW s \in Seq(Nat), NEW t \in Seq(Nat), NEW u \in Seq(Nat) PROVE Assoc(s, t, u)
  BY DEF Assoc

LEMMA Empty == /\ <<>> \in Seq(Nat) /\ \A x \in Nat : <<x>> \in Seq(Nat)
               /\ \A s, t \in Seq(Nat) : s \o t \in Seq(Nat)
               /\ \A s \in Seq(Nat) : s \o <<>> = s /\ <<>> \o s = s
  OBVIOUS

\* The elements of a concatenation.
Joined(u, s, t) ==
    /\ Len(s) \in Nat /\ Len(t) \in Nat /\ Len(u) = Len(s) + Len(t)
    /\ \A i \in 1 .. Len(s) : u[i] = s[i] /\ u[i] \in Nat
    /\ \A i \in 1 .. Len(t) : u[Len(s) + i] = t[i] /\ t[i] \in Nat

LEMMA Join ==
    ASSUME NEW s \in Seq(Nat), NEW t \in Seq(Nat) PROVE s \o t \in Seq(Nat) /\ Joined(s \o t, s, t)
<1>1. \A i \in 1 .. Len(s) : (s \o t)[i] = s[i] /\ s[i] \in Nat
  BY ElementOfSeq
<1>2. \A i \in 1 .. Len(t) : (s \o t)[Len(s) + i] = t[i] /\ t[i] \in Nat
  BY ElementOfSeq
<1>3. QED
  BY <1>1, <1>2 DEF Joined

\* s is the numbers up to n in their order, without those of gone.
Holds(s, n, gone) ==
    /\ \A i, j \in 1 .. Len(s) : i < j => s[i] < s[j]
    /\ {s[i] : i \in 1 .. Len(s)} = (1 .. n) \ gone

\* The next number goes to the end.
LEMMA HoldsNext ==
    ASSUME NEW s \in Seq(Nat), NEW n \in Nat, NEW gone \in SUBSET (1 .. n), Holds(s, n, gone)
    PROVE  Holds(s \o <<n + 1>>, n + 1, gone)
<1> DEFINE t == s \o <<n + 1>>
<1>1. /\ Len(t) = Len(s) + 1 /\ Len(s) \in Nat
      /\ \A i \in 1 .. Len(s) : t[i] = s[i]
      /\ t[Len(s) + 1] = n + 1
  BY ConcatProperties
<1> HIDE DEF t
<1>2. \A i \in 1 .. Len(s) : s[i] \in 1 .. n
  BY DEF Holds
<1>3. ASSUME NEW i \in 1 .. Len(t), NEW j \in 1 .. Len(t), i < j PROVE t[i] < t[j]
  <2>1. CASE j = Len(s) + 1
    BY <1>1, <1>2, <1>3, <2>1
  <2>2. CASE j \in 1 .. Len(s)
    BY <1>1, <1>3, <2>2 DEF Holds
  <2>3. QED
    BY <1>1, <2>1, <2>2
<1>4. {t[i] : i \in 1 .. Len(t)} = {s[i] : i \in 1 .. Len(s)} \cup {n + 1}
  BY <1>1
<1>5. ((1 .. n) \ gone) \cup {n + 1} = (1 .. (n + 1)) \ gone
  OBVIOUS
<1>6. QED
  BY <1>3, <1>4, <1>5 DEF Holds, t

\* The first m places of s ascend.
Ascends(s, m) == \A i, j \in 1 .. m : i < j => s[i] < s[j]
First(s, m) == {s[i] : i \in 1 .. m}

\* v is u without place k + 1.
Without(u, v, k, m) ==
    /\ k <= m
    /\ \A i \in 1 .. m + 1 : u[i] \in Nat
    /\ \A i \in 1 .. k : v[i] = u[i]
    /\ \A i \in k + 1 .. m : v[i] = u[i + 1]

Squeezed(u, v, k, m) == Ascends(v, m) /\ First(v, m) = First(u, m + 1) \ {u[k + 1]}

LEMMA Squeeze ==
    ASSUME NEW u, NEW v, NEW k \in Nat, NEW m \in Nat, Without(u, v, k, m), Ascends(u, m + 1)
    PROVE  Squeezed(u, v, k, m)
<1> USE DEF Without, Ascends, First, Squeezed
<1> DEFINE Old(i) == IF i <= k THEN i ELSE i + 1
           New(i) == IF i <= k THEN i ELSE i - 1
<1>1. \A i \in 1 .. m : Old(i) \in 1 .. m + 1 /\ Old(i) # k + 1 /\ v[i] = u[Old(i)]
  OBVIOUS
<1>2. \A i, j \in 1 .. m : i < j => Old(i) < Old(j)
  OBVIOUS
<1>3. \A i \in 1 .. m + 1 : i # k + 1 => New(i) \in 1 .. m /\ Old(New(i)) = i
  OBVIOUS
<1>4. k + 1 \in 1 .. m + 1
  OBVIOUS
<1> HIDE DEF Old, New
<1>5. \A i, j \in 1 .. m : i < j => v[i] < v[j]
  BY <1>1, <1>2
<1>6. \A i, j \in 1 .. m + 1 : i # j => u[i] # u[j]
  OBVIOUS
<1>7. \A i \in 1 .. m : v[i] \in {u[j] : j \in 1 .. m + 1} \ {u[k + 1]}
  BY <1>1, <1>4, <1>6
<1>8. \A i \in 1 .. m + 1 : u[i] # u[k + 1] => u[i] \in {v[j] : j \in 1 .. m}
  BY <1>1, <1>3
<1>9. QED
  BY <1>5, <1>7, <1>8

\* One that is lost is missing from its place.
LEMMA HoldsLess ==
    ASSUME NEW s \in Seq(Nat), NEW t \in Seq(Nat), NEW x \in Nat, NEW n \in Nat, NEW gone,
           Holds((s \o <<x>>) \o t, n, gone)
    PROVE  x \in 1 .. n /\ Holds(s \o t, n, gone \cup {x})
<1>1. PICK w : w = s \o <<x>> /\ w \in Seq(Nat) /\ Joined(w, s, <<x>>)
  <2>1. <<x>> \in Seq(Nat)
    BY Empty
  <2>2. QED
    BY <2>1, Join
<1>2. PICK u : u = w \o t /\ u \in Seq(Nat) /\ Joined(u, w, t)
  BY <1>1, Join
<1>3. PICK v : v = s \o t /\ Joined(v, s, t)
  BY Join
<1>4. PICK k \in Nat, m \in Nat : k = Len(s) /\ m = Len(v)
  BY <1>3 DEF Joined
<1>5. k <= m /\ Len(w) = k + 1 /\ Len(u) = m + 1 /\ Len(t) = m - k
  BY <1>1, <1>2, <1>3, <1>4 DEF Joined
<1>6. u[k + 1] = x
  BY <1>1, <1>2, <1>4, <1>5 DEF Joined
<1>7. \A i \in 1 .. k : v[i] = u[i]
  BY <1>1, <1>2, <1>3, <1>4, <1>5 DEF Joined
<1>8. \A i \in k + 1 .. m : v[i] = u[i + 1]
  <2> SUFFICES ASSUME NEW i \in k + 1 .. m PROVE v[i] = u[i + 1]
    OBVIOUS
  <2>0. i - k \in 1 .. Len(t) /\ i = Len(s) + (i - k) /\ i + 1 = Len(w) + (i - k)
    BY <1>4, <1>5
  <2>1. PICK j : j = i - k /\ j \in 1 .. Len(t) /\ i = Len(s) + j /\ i + 1 = Len(w) + j
    BY <2>0
  <2>2. v[Len(s) + j] = t[j] /\ u[Len(w) + j] = t[j]
    BY <1>2, <1>3, <2>1 DEF Joined
  <2>3. QED
    BY <2>1, <2>2
<1>9. \A i \in 1 .. m + 1 : u[i] \in Nat
  BY <1>2, <1>5, ElementOfSeq
<1>10. Holds(u, n, gone)
  BY <1>1, <1>2
<1>11. Ascends(u, m + 1) /\ First(u, m + 1) = (1 .. n) \ gone
  BY <1>5, <1>10 DEF Holds, Ascends, First
<1>12. Without(u, v, k, m)
  BY <1>5, <1>7, <1>8, <1>9 DEF Without
<1>13. Ascends(v, m) /\ First(v, m) = ((1 .. n) \ gone) \ {x}
  <2>1. Squeezed(u, v, k, m)
    BY <1>11, <1>12, Squeeze, Zenon
  <2>2. QED
    BY <1>6, <1>11, <2>1 DEF Squeezed
<1>14. ((1 .. n) \ gone) \ {x} = (1 .. n) \ (gone \cup {x})
  OBVIOUS
<1>15. Holds(v, n, gone \cup {x})
  BY <1>4, <1>13, <1>14 DEF Holds, Ascends, First
<1>16. x \in 1 .. n
  BY <1>4, <1>5, <1>6, <1>11 DEF First
<1>17. QED
  BY <1>3, <1>15, <1>16

\* The six places of Way one after the other.
Six(a, b, c, d, e, f) == a \o b \o c \o d \o e \o f

\* What is in one place goes on to the place before it.
SixMoved(a, b, c, d, e, f, x) ==
    /\ Six(a, b, c, d, e, f) \in Seq(Nat)
    /\ Six(a, <<>>, c, d, e, f) = Six(a, c, <<>>, d, e, f)
    /\ Six(a, b, c, d, e, f) = Six(a \o b, <<>>, c, d, e, f)
    /\ Six(a, b, <<>>, <<x>> \o d, e, f) = Six(a, b, <<x>>, d, e, f)
    /\ Six(a, b, c, <<>>, e, f) = Six(a, b, c, e, <<>>, f)
    /\ Six(a, b, c, d, e, <<x>> \o f) = Six(a, b, c, d, e \o <<x>>, f)
    /\ Six(a, b, c, d, e, f \o <<x>>) = Six(a, b, c, d, e, f) \o <<x>>

LEMMA SixMoves ==
    ASSUME NEW a \in Seq(Nat), NEW b \in Seq(Nat), NEW c \in Seq(Nat), NEW d \in Seq(Nat),
           NEW e \in Seq(Nat), NEW f \in Seq(Nat), NEW x \in Nat
    PROVE  SixMoved(a, b, c, d, e, f, x)
<1>1. Six(a, b, c, d, e, f) \in Seq(Nat)
  BY Empty DEF Six
<1>2. Six(a, <<>>, c, d, e, f) = Six(a, c, <<>>, d, e, f)
  BY Empty DEF Six
<1>3. Six(a, b, c, d, e, f) = Six(a \o b, <<>>, c, d, e, f)
  BY Empty DEF Six
<1>4. Six(a, b, <<>>, <<x>> \o d, e, f) = Six(a, b, <<x>>, d, e, f)
  <2>1. a \o b \in Seq(Nat) /\ <<x>> \in Seq(Nat) /\ (a \o b) \o <<>> = a \o b
    BY Empty
  <2>2. Assoc(a \o b, <<x>>, d)
    BY <2>1, ConcatAssoc
  <2>3. QED
    BY <2>1, <2>2 DEF Six, Assoc
<1>5. Six(a, b, c, <<>>, e, f) = Six(a, b, c, e, <<>>, f)
  BY Empty DEF Six
<1>6. Six(a, b, c, d, e, <<x>> \o f) = Six(a, b, c, d, e \o <<x>>, f)
  <2>1. PICK p : p = a \o b \o c \o d /\ p \in Seq(Nat) /\ p \o e \in Seq(Nat) /\ <<x>> \in Seq(Nat)
    BY Empty
  <2>2. Assoc(p \o e, <<x>>, f) /\ Assoc(p, e, <<x>>)
    BY <2>1, ConcatAssoc
  <2>3. QED
    BY <2>1, <2>2 DEF Six, Assoc
<1>7. Six(a, b, c, d, e, f \o <<x>>) = Six(a, b, c, d, e, f) \o <<x>>
  <2>1. PICK p : p = a \o b \o c \o d \o e /\ p \in Seq(Nat) /\ <<x>> \in Seq(Nat)
    BY Empty
  <2>2. Assoc(p, f, <<x>>)
    BY <2>1, ConcatAssoc
  <2>3. QED
    BY <2>1, <2>2 DEF Six, Assoc
<1>8. QED
  BY <1>1, <1>2, <1>3, <1>4, <1>5, <1>6, <1>7 DEF SixMoved

\* A character disappears from the second or the third place.
LEMMA SixLess ==
    ASSUME NEW a \in Seq(Nat), NEW b \in Seq(Nat), NEW c \in Seq(Nat), NEW d \in Seq(Nat),
           NEW e \in Seq(Nat), NEW f \in Seq(Nat), NEW x \in Nat, NEW n \in Nat, NEW gone
    PROVE  /\ Holds(Six(a, <<x>>, c, d, e, f), n, gone) =>
                x \in 1 .. n /\ Holds(Six(a, <<>>, c, d, e, f), n, gone \cup {x})
           /\ Holds(Six(a, b, <<x>>, d, e, f), n, gone) =>
                x \in 1 .. n /\ Holds(Six(a, b, <<>>, d, e, f), n, gone \cup {x})
<1>1. PICK g : g = e \o f /\ g \in Seq(Nat)
  BY Empty
<1>2. PICK h : h = d \o g /\ h \in Seq(Nat)
  BY <1>1, Empty
<1>3. PICK r : r = c \o h /\ r \in Seq(Nat)
  BY <1>2, Empty
<1>4. ASSUME NEW p \in Seq(Nat) PROVE ((p \o d) \o e) \o f = p \o h
  <2>1. p \o d \in Seq(Nat)
    BY Empty
  <2>2. Assoc(p \o d, e, f) /\ Assoc(p, d, g)
    BY <1>1, <2>1, ConcatAssoc
  <2>3. QED
    BY <1>1, <1>2, <2>2 DEF Assoc
<1>5. ASSUME NEW p \in Seq(Nat) PROVE (((p \o c) \o d) \o e) \o f = p \o r
  <2>1. p \o c \in Seq(Nat) /\ Assoc(p, c, h)
    BY <1>2, Empty, ConcatAssoc
  <2>2. (((p \o c) \o d) \o e) \o f = (p \o c) \o h
    BY <1>4, <2>1
  <2>3. QED
    BY <1>3, <2>1, <2>2 DEF Assoc
<1>6. ASSUME Holds(Six(a, <<x>>, c, d, e, f), n, gone)
      PROVE  x \in 1 .. n /\ Holds(Six(a, <<>>, c, d, e, f), n, gone \cup {x})
  <2>1. a \o <<x>> \in Seq(Nat) /\ a \o <<>> = a
    BY Empty
  <2>2. Six(a, <<x>>, c, d, e, f) = (a \o <<x>>) \o r /\ Six(a, <<>>, c, d, e, f) = a \o r
    BY <1>5, <2>1 DEF Six
  <2>3. Holds((a \o <<x>>) \o r, n, gone)
    BY <1>6, <2>2
  <2>4. x \in 1 .. n /\ Holds(a \o r, n, gone \cup {x})
    BY <1>3, <2>3, HoldsLess
  <2>5. QED
    BY <2>2, <2>4
<1>7. ASSUME Holds(Six(a, b, <<x>>, d, e, f), n, gone)
      PROVE  x \in 1 .. n /\ Holds(Six(a, b, <<>>, d, e, f), n, gone \cup {x})
  <2>1. PICK p : p = a \o b /\ p \in Seq(Nat)
    BY Empty
  <2>2. p \o <<x>> \in Seq(Nat) /\ p \o <<>> = p
    BY <2>1, Empty
  <2>3. Six(a, b, <<x>>, d, e, f) = (p \o <<x>>) \o h /\ Six(a, b, <<>>, d, e, f) = p \o h
    BY <1>4, <2>1, <2>2 DEF Six
  <2>4. Holds((p \o <<x>>) \o h, n, gone)
    BY <1>7, <2>3
  <2>5. x \in 1 .. n /\ Holds(p \o h, n, gone \cup {x})
    BY <1>2, <2>1, <2>4, HoldsLess
  <2>6. QED
    BY <2>3, <2>5
<1>8. QED
  BY <1>6, <1>7

-----------------------------------------------------------------------------
(* The way of a character *)

\* The ranges of the fields, of the registers and of fill_tx_buf's count.
UartTypeOK ==
    /\ pc \in {"idle", "retry", "start", "fill", "on", "job", "write", "poll", "enable"}
    /\ isr \in {"none", "fill", "end"}
    /\ txdata \in [TxSlot -> 0 .. MaxChars]
    /\ sz \in 0 .. TxBufferSize /\ remaining_tx \in 0 .. TxBufferSize
    /\ tx_ptr \in 1 .. TxBufferSize + 1 /\ tx_ptr + remaining_tx <= TxBufferSize + 1
    /\ data \in 0 .. Blocking /\ shift \in 0 .. Blocking
    /\ wire \in Seq(Nat)
    /\ queued \in 0 .. MaxChars

\* txdata belongs to the job, to the task or to the interrupt handler.  The two
\* interrupts follow each other: one while there is something to write, the
\* other after it; and none comes while the port is off or fetches.
Jobs ==
    /\ dre <=> remaining_tx > 0
    /\ txc => remaining_tx = 0
    /\ ~tx_on \/ Fetching \/ isr # "none" => remaining_tx = 0 /\ ~txc
    /\ Fetching => isr = "none"
    /\ pc = "fill" \/ isr = "fill" => sz < TxBufferSize
    /\ pc \in {"on", "job"} => sz > 0
    /\ pc = "job" => tx_on
    /\ ~enabled => data = None /\ shift = None

LEMMA UartStart == UartInit => UartTypeOK /\ Jobs
<1> SUFFICES ASSUME UartInit PROVE UartTypeOK /\ Jobs
  OBVIOUS
<1> USE UartAssumption DEF UartInit, Blocking, None
<1>1. UartTypeOK
  BY DEF UartTypeOK, TxSlot
<1>2. Jobs
  BY DEF Jobs, Fetching
<1>3. QED
  BY <1>1, <1>2

\* fill_tx_buf stays within txdata.
LEMMA FetchType ==
    ASSUME UartTypeOK, NEW more \in BOOLEAN, Fetch(more), buf[p_r] \in 0 .. MaxChars
    PROVE  /\ txdata' \in [TxSlot -> 0 .. MaxChars] /\ sz' \in 0 .. TxBufferSize
           /\ more => sz' < TxBufferSize
<1> USE UartAssumption DEF UartTypeOK
<1>1. CASE GetOk /\ txdata' = [txdata EXCEPT ![sz + 1] = buf[p_r]] /\ sz' = sz + 1
           /\ more = (sz + 1 < TxBufferSize)
  <2>1. txdata' \in [TxSlot -> 0 .. MaxChars]
    BY <1>1
  <2>2. sz' \in 0 .. TxBufferSize
    BY <1>1 DEF Fetch
  <2>3. more => sz' < TxBufferSize
    BY <1>1
  <2>4. QED
    BY <2>1, <2>2, <2>3
<1>2. CASE GetEmpty /\ ~more /\ UNCHANGED fetch
  BY <1>2 DEF fetch
<1>3. QED
  BY <1>1, <1>2 DEF Fetch

\* Who has txdata, step by step.
LEMMA JobsStep ==
    ASSUME RingInv, UartTypeOK, Jobs, [UartNext]_uartVars
    PROVE  UartTypeOK' /\ Jobs'
<1> USE UartAssumption, RingAssumption DEF UartTypeOK, Jobs, Fetching, None, Blocking, At, Taken
<1>0. buf[p_r] \in 0 .. MaxChars
  BY DEF RingInv, TypeOK, Slot
<1>1. CASE Opening
  <2>1. CASE hal_uart_init \/ hal_uart_init_cbs
    <3>1. UNCHANGED <<enabled, fetch, driver, line, tx_on, pc, isr, queued>>
      BY <2>1 DEF hal_uart_init, hal_uart_init_cbs
    <3>2. QED
      BY <3>1 DEF fetch, driver, line
  <2>2. CASE hal_uart_config
    BY <2>2 DEF hal_uart_config, fetch, driver, line
  <2>3. CASE hal_uart_close
    <3>1. UartTypeOK'
      BY <2>3 DEF hal_uart_close, fetch, driver
    <3>2. Jobs'
      BY <2>3 DEF hal_uart_close, fetch, driver
    <3>3. QED
      BY <3>1, <3>2
  <2>4. QED
    BY <1>1, <2>1, <2>2, <2>3 DEF Opening
<1>2. CASE Put
  <2>1. UartTypeOK'
    BY <1>2 DEF Put, PutOk, port, fetch, driver, line
  <2>2. Jobs'
    BY <1>2 DEF Put, PutOk, port, fetch, driver, line
  <2>3. QED
    BY <2>1, <2>2
<1>3. CASE BlockingTx
  BY <1>3 DEF BlockingTx, port, fetch, driver, line
<1>4. CASE StartTx
  BY <1>4 DEF StartTx, port, driver, line
<1>5. CASE Fill
  <2>1. PICK more \in BOOLEAN :
          /\ Fetch(more)
          /\ pc' = CASE more -> "fill" [] ~more /\ sz' > 0 -> "on" [] OTHER -> "idle"
    BY <1>5 DEF Fill
  <2>2. UNCHANGED <<port, driver, line, tx_on, isr, queued>> /\ pc = "fill" /\ isr = "none"
    BY <1>5 DEF Fill
  <2>3. /\ txdata' \in [TxSlot -> 0 .. MaxChars] /\ sz' \in 0 .. TxBufferSize
        /\ more => sz' < TxBufferSize
    BY <1>0, <2>1, FetchType
  <2>4. pc' \in {"fill", "on", "idle"} /\ (pc' = "fill" => more) /\ (pc' = "on" => sz' > 0)
    BY <2>1
  <2>5. QED
    BY <2>2, <2>3, <2>4 DEF port, driver, line
<1>6. CASE SetOn
  BY <1>6 DEF SetOn, port, fetch, driver, line
<1>7. CASE WriteJob
  <2>1. UartTypeOK'
    BY <1>7 DEF WriteJob, usart_write_buffer_job, port, fetch, driver, line
  <2>2. /\ pc = "job" /\ isr = "none" /\ pc' = "idle" /\ remaining_tx = 0 /\ sz > 0 /\ ~txc
        /\ UNCHANGED <<vars, port, fetch, line, tx_on, isr>>
    BY <1>7 DEF WriteJob
  <2>3. remaining_tx' = sz /\ dre' = TRUE /\ txc' = txc /\ tx_on'
    <3>1. tx_on
      BY <2>2
    <3>2. QED
      BY <1>7, <2>2, <3>1 DEF WriteJob, usart_write_buffer_job
  <2>4. Jobs'
    BY <2>2, <2>3 DEF port, fetch, line
  <2>5. QED
    BY <2>1, <2>4
<1>8. CASE WriteWait
  <2>1. UartTypeOK'
    BY <1>8 DEF WriteWait, port, fetch, driver, line
  <2>2. Jobs'
    BY <1>8 DEF WriteWait, port, fetch, driver, line
  <2>3. QED
    BY <2>1, <2>2
<1>9. CASE BlockingEnds
  BY <1>9 DEF BlockingEnds, port, fetch, driver, line
<1>10. CASE Load
  <2>1. UartTypeOK'
    BY <1>10 DEF Load, port, fetch, driver
  <2>2. Jobs'
    BY <1>10 DEF Load, port, fetch, driver
  <2>3. QED
    BY <2>1, <2>2
<1>11. CASE ShiftOut
  <2>1. UartTypeOK'
    BY <1>11 DEF ShiftOut, port, fetch, driver
  <2>2. Jobs'
    BY <1>11 DEF ShiftOut, port, fetch, driver
  <2>3. QED
    BY <2>1, <2>2
<1>12. CASE DataEmpty
  <2>1. remaining_tx > 0 /\ tx_ptr \in TxSlot /\ txdata[tx_ptr] \in 0 .. MaxChars
    BY <1>12 DEF DataEmpty, TxSlot
  <2>2. QED
    <3>1. UartTypeOK'
      BY <1>12, <2>1 DEF DataEmpty, port, fetch
    <3>2. /\ remaining_tx' = remaining_tx - 1
          /\ dre' <=> remaining_tx > 1
          /\ txc' => txc \/ remaining_tx = 1
          /\ isr = "none" /\ enabled /\ dre
          /\ UNCHANGED <<port, fetch, shift, tx_on, pc, isr>>
      BY <1>12, <2>1 DEF DataEmpty
    <3>3. Jobs'
      BY <2>1, <3>2 DEF port, fetch
    <3>4. QED
      BY <3>1, <3>3
<1>13. CASE TxDone
  <2>1. UartTypeOK'
    BY <1>13 DEF TxDone, port, line
  <2>2. Jobs'
    BY <1>13 DEF TxDone, port, line
  <2>3. QED
    BY <2>1, <2>2
<1>14. CASE TxDoneFill
  <2>1. PICK more \in BOOLEAN : Fetch(more) /\ isr' = IF more THEN "fill" ELSE "end"
    BY <1>14 DEF TxDoneFill
  <2>2. UNCHANGED <<port, driver, line, tx_on, pc, queued>> /\ isr = "fill"
    BY <1>14 DEF TxDoneFill
  <2>3. /\ txdata' \in [TxSlot -> 0 .. MaxChars] /\ sz' \in 0 .. TxBufferSize
        /\ more => sz' < TxBufferSize
    BY <1>0, <2>1, FetchType
  <2>4. isr' \in {"fill", "end"} /\ (isr' = "fill" => more)
    BY <2>1
  <2>5. QED
    BY <2>2, <2>3, <2>4 DEF port, driver, line
<1>15. CASE TxDoneEnd
  <2>1. UartTypeOK'
    BY <1>15 DEF TxDoneEnd, usart_write_buffer_job, port, fetch, driver, line
  <2>2. Jobs'
    BY <1>15 DEF TxDoneEnd, usart_write_buffer_job, port, fetch, driver, line
  <2>3. QED
    BY <2>1, <2>2
<1>16. CASE Arrives \/ RxDone \/ hal_uart_start_rx
  <2>1. UNCHANGED <<port, fetch, driver, line, tx_on, pc, isr, queued>>
    BY <1>16 DEF Arrives, RxDone, hal_uart_start_rx
  <2>2. QED
    BY <2>1 DEF port, fetch, driver, line
<1>17. CASE UNCHANGED uartVars
  BY <1>17 DEF uartVars, port, fetch, driver, line
<1>18. QED
  BY <1>1, <1>2, <1>3, <1>4, <1>5, <1>6, <1>7, <1>8, <1>9, <1>10, <1>11, <1>12, <1>13, <1>14,
     <1>15, <1>16, <1>17 DEF UartNext, Task, TxInterrupt

-----------------------------------------------------------------------------
(* No character is lost *)

\* A piece of txdata.
LEMMA Piece ==
    ASSUME NEW n \in Nat, NEW s \in [1 .. n -> Nat], NEW i \in 1 .. n + 1, NEW k \in Nat,
           i + k <= n + 1
    PROVE  /\ SubSeq(s, i, i + k - 1) \in Seq(Nat)
           /\ k = 0 => SubSeq(s, i, i + k - 1) = <<>>
           /\ k > 0 => SubSeq(s, i, i + k - 1) = <<s[i]>> \o SubSeq(s, i + 1, i + k - 1)
<1>1. s \in Seq(Nat) /\ Len(s) = n
  OBVIOUS
<1>2. SubSeq(s, i, i + k - 1) \in Seq(Nat)
  BY SubSeqProperties
<1>3. k = 0 => SubSeq(s, i, i + k - 1) = <<>>
  BY SubSeqEmpty
<1>4. k > 0 => SubSeq(s, i, i + k - 1) = <<s[i]>> \o SubSeq(s, i + 1, i + k - 1)
  BY <1>1, SubSeqRecursiveFirst
<1>5. QED
  BY <1>2, <1>3, <1>4

\* One more character behind the first k.
LEMMA PieceGrows ==
    ASSUME NEW n \in Nat, NEW s \in [1 .. n -> Nat], NEW k \in 0 .. n - 1, NEW x \in Nat
    PROVE  SubSeq([s EXCEPT ![k + 1] = x], 1, k + 1) = SubSeq(s, 1, k) \o <<x>>
<1> DEFINE t == [s EXCEPT ![k + 1] = x]
<1>1. t \in [1 .. n -> Nat] /\ t[k + 1] = x /\ \A i \in 1 .. k : t[i] = s[i]
  OBVIOUS
<1> HIDE DEF t
<1>2. t \in Seq(Nat) /\ Len(t) = n
  BY <1>1
<1>3. SubSeq(t, 1, k + 1) = SubSeq(t, 1, k) \o <<x>>
  <2>1. SubSeq(t, 1, k + 1) = SubSeq(t, 1, (k + 1) - 1) \o <<t[k + 1]>>
    BY <1>2, SubSeqRecursiveSecond
  <2>2. (k + 1) - 1 = k
    OBVIOUS
  <2>3. QED
    BY <1>1, <2>1, <2>2
<1>4. SubSeq(t, 1, k) = SubSeq(s, 1, k)
  <2>1. \A i \in 1 .. k : s[i] \in Nat /\ t[i] \in Nat
    BY <1>1
  <2>2. /\ SubSeq(s, 1, k) \in Seq(Nat) /\ Len(SubSeq(s, 1, k)) = k
        /\ \A i \in 1 .. k : SubSeq(s, 1, k)[i] = s[i]
    BY <2>1, SubSeqProperties
  <2>3. /\ SubSeq(t, 1, k) \in Seq(Nat) /\ Len(SubSeq(t, 1, k)) = k
        /\ \A i \in 1 .. k : SubSeq(t, 1, k)[i] = t[i]
    BY <2>1, SubSeqProperties
  <2>4. QED
    BY <1>1, <2>2, <2>3, SeqEqual
<1>5. QED
  BY <1>3, <1>4 DEF t

\* A register is cleared, and what was in it is lost.
RegGone(a, c, d, e, f, r, n, gone) ==
    /\ Holds(Six(a, InReg(r), c, d, e, f), n, gone) =>
         /\ gone \cup ({r} \cap Byte) \subseteq 1 .. n
         /\ Holds(Six(a, <<>>, c, d, e, f), n, gone \cup ({r} \cap Byte))
    /\ Holds(Six(a, c, InReg(r), d, e, f), n, gone) =>
         /\ gone \cup ({r} \cap Byte) \subseteq 1 .. n
         /\ Holds(Six(a, c, <<>>, d, e, f), n, gone \cup ({r} \cap Byte))

LEMMA RegLost ==
    ASSUME NEW a \in Seq(Nat), NEW c \in Seq(Nat), NEW d \in Seq(Nat), NEW e \in Seq(Nat),
           NEW f \in Seq(Nat), NEW r \in Nat, NEW n \in Nat, NEW gone \in SUBSET (1 .. n)
    PROVE  RegGone(a, c, d, e, f, r, n, gone)
<1>1. CASE r \in Byte
  <2>1. InReg(r) = <<r>> /\ gone \cup ({r} \cap Byte) = gone \cup {r}
    BY <1>1 DEF InReg
  <2>2. Holds(Six(a, <<r>>, c, d, e, f), n, gone) =>
          r \in 1 .. n /\ Holds(Six(a, <<>>, c, d, e, f), n, gone \cup {r})
    BY SixLess
  <2>3. Holds(Six(a, c, <<r>>, d, e, f), n, gone) =>
          r \in 1 .. n /\ Holds(Six(a, c, <<>>, d, e, f), n, gone \cup {r})
    BY SixLess
  <2>4. r \in 1 .. n => gone \cup {r} \subseteq 1 .. n
    OBVIOUS
  <2>5. QED
    BY <2>1, <2>2, <2>3, <2>4, Zenon DEF RegGone
<1>2. CASE r \notin Byte
  <2>1. InReg(r) = <<>> /\ gone \cup ({r} \cap Byte) = gone
    BY <1>2 DEF InReg
  <2>2. QED
    BY <2>1, Zenon DEF RegGone
<1>3. QED
  BY <1>1, <1>2

\* Way by its places.
LEMMA Places ==
    ASSUME RingInv, UartTypeOK
    PROVE  /\ Way = Six(wire, InReg(shift), InReg(data), Job, InHand, Contents)
           /\ \A s : AllWritten(s) <=> Holds(s, queued, lost)
           /\ wire \in Seq(Nat) /\ InReg(shift) \in Seq(Nat) /\ InReg(data) \in Seq(Nat)
           /\ Job \in Seq(Nat) /\ InHand \in Seq(Nat) /\ Contents \in Seq(Nat)
           /\ shift \in Nat /\ data \in Nat /\ queued \in Nat
           /\ remaining_tx = 0 => Job = <<>>
           /\ txdata \in [1 .. TxBufferSize -> Nat]
<1> USE UartAssumption, RingAssumption
<1>1. /\ Way = Six(wire, InReg(shift), InReg(data), Job, InHand, Contents)
      /\ \A s : AllWritten(s) <=> Holds(s, queued, lost)
  BY Zenon DEF Way, Six, AllWritten, Holds
<1>2. wire \in Seq(Nat) /\ shift \in Nat /\ data \in Nat /\ queued \in Nat
  BY DEF UartTypeOK, Blocking
<1>3. InReg(shift) \in Seq(Nat) /\ InReg(data) \in Seq(Nat)
  BY <1>2, Empty DEF InReg
<1>4. Contents \in Seq(Nat)
  <2>1. \A i \in 1 .. fill_cnt : buf[Index(i - 1)] \in Nat
    BY DEF RingInv, TypeOK, Index, Slot
  <2>2. QED
    BY <2>1 DEF Contents, RingInv, TypeOK
<1>5. txdata \in [1 .. TxBufferSize -> Nat]
  BY DEF UartTypeOK, TxSlot
<1>6. Job \in Seq(Nat) /\ (remaining_tx = 0 => Job = <<>>)
  BY <1>5, Piece DEF Job, UartTypeOK
<1>7. InHand \in Seq(Nat)
  <2>1. SubSeq(txdata, 1, 1 + sz - 1) \in Seq(Nat)
    BY <1>5, Piece DEF UartTypeOK
  <2>2. 1 + sz - 1 = sz
    BY DEF UartTypeOK
  <2>3. QED
    BY <2>1, <2>2, Empty DEF InHand
<1>8. QED
  BY <1>1, <1>2, <1>3, <1>4, <1>5, <1>6, <1>7

\* A turn of fill_tx_buf takes the first character of e_tx.
LEMMA FetchMoves ==
    ASSUME RingInv, RingInv', UartTypeOK, NEW more \in BOOLEAN, Fetch(more)
    PROVE  LET old == SubSeq(txdata, 1, sz)
               new == SubSeq(txdata', 1, sz')
           IN  \/ new = old /\ Contents' = Contents /\ sz' = sz
               \/ \E x \in Nat : /\ new = old \o <<x>> /\ Contents = <<x>> \o Contents'
                                 /\ sz' = sz + 1
<1> USE UartAssumption, RingAssumption
<1>1. CASE GetOk /\ txdata' = [txdata EXCEPT ![sz + 1] = buf[p_r]] /\ sz' = sz + 1
  <2>1. Contents # <<>> /\ Head(Contents) = buf[p_r] /\ Contents' = Tail(Contents)
    BY <1>1, GetContents
  <2>2. Contents \in Seq(Nat) /\ txdata \in [1 .. TxBufferSize -> Nat]
    BY Places
  <2>3. buf[p_r] \in Nat
    BY DEF RingInv, TypeOK, Slot
  <2>4. Contents = <<buf[p_r]>> \o Contents'
    BY <2>1, <2>2
  <2>5. sz \in 0 .. TxBufferSize - 1
    BY DEF Fetch, UartTypeOK
  <2>6. SubSeq(txdata', 1, sz') = SubSeq(txdata, 1, sz) \o <<buf[p_r]>>
    BY <1>1, <2>2, <2>3, <2>5, PieceGrows
  <2>7. QED
    BY <1>1, <2>3, <2>4, <2>6
<1>2. CASE GetEmpty /\ UNCHANGED fetch
  <2>1. Contents' = Contents
    BY <1>2 DEF GetEmpty, Contents, Index
  <2>2. QED
    BY <1>2, <2>1 DEF fetch
<1>3. QED
  BY <1>1, <1>2 DEF Fetch

\* Nothing is lost: the inductive invariant.
UartInv ==
    /\ RingInv /\ UartTypeOK /\ Jobs
    /\ lost \subseteq 1 .. queued
    /\ AllWritten(Way)

LEMMA UartInvStart == UartInit => UartInv
<1> SUFFICES ASSUME UartInit PROVE UartInv
  OBVIOUS
<1>1. RingInv /\ UartTypeOK /\ Jobs
  BY UartStart, RingInit DEF UartInit
<1>2. lost \subseteq 1 .. queued
  BY DEF UartInit
<1>3. /\ Contents = <<>> /\ InReg(shift) = <<>> /\ InReg(data) = <<>> /\ Job = <<>>
      /\ InHand = <<>> /\ wire = <<>>
  <2>1. Contents = <<>>
    BY DEF UartInit, RINGBUF_Init, Contents
  <2>2. InReg(shift) = <<>> /\ InReg(data) = <<>>
    BY UartAssumption DEF UartInit, InReg, None
  <2>3. Job = <<>>
    BY <1>1, Places DEF UartInit
  <2>4. InHand = <<>> /\ wire = <<>>
    BY DEF UartInit, InHand, Fetching
  <2>5. QED
    BY <2>1, <2>2, <2>3, <2>4
<1>4. Way = <<>>
  BY <1>3, Empty DEF Way
<1>5. AllWritten(<<>>)
  BY DEF AllWritten, UartInit
<1>6. QED
  BY <1>1, <1>2, <1>4, <1>5 DEF UartInv

\* Every action takes characters on by one place, adds the next at the end, or
\* counts what it destroys as lost.
LEMMA WayStep ==
    ASSUME UartInv, RingInv', UartTypeOK', Jobs', [UartNext]_uartVars
    PROVE  lost' \subseteq 1 .. queued' /\ AllWritten(Way)'
<1> USE UartAssumption, RingAssumption
<1>i. RingInv /\ UartTypeOK /\ Jobs /\ lost \in SUBSET (1 .. queued) /\ AllWritten(Way)
  BY DEF UartInv
<1>p. (/\ Way = Six(wire, InReg(shift), InReg(data), Job, InHand, Contents)
       /\ \A s : AllWritten(s) <=> Holds(s, queued, lost)
       /\ wire \in Seq(Nat) /\ InReg(shift) \in Seq(Nat) /\ InReg(data) \in Seq(Nat)
       /\ Job \in Seq(Nat) /\ InHand \in Seq(Nat) /\ Contents \in Seq(Nat)
       /\ remaining_tx = 0 => Job = <<>>)'
  BY Places, PTL
<1>a. PICK a, b, c, d, e, f :
        /\ a = wire /\ b = InReg(shift) /\ c = InReg(data)
        /\ d = Job /\ e = InHand /\ f = Contents
        /\ a \in Seq(Nat) /\ b \in Seq(Nat) /\ c \in Seq(Nat)
        /\ d \in Seq(Nat) /\ e \in Seq(Nat) /\ f \in Seq(Nat)
        /\ Holds(Six(a, b, c, d, e, f), queued, lost)
  BY <1>i, Places
<1>n. shift \in Nat /\ data \in Nat /\ queued \in Nat
  BY <1>i, Places
<1>g. ASSUME lost' \subseteq 1 .. queued',
             Holds(Six(wire', InReg(shift'), InReg(data'), Job', InHand', Contents'), queued', lost')
      PROVE  lost' \subseteq 1 .. queued' /\ AllWritten(Way)'
  BY <1>p, <1>g DEF InReg
<1>k. /\ UNCHANGED vars => Contents' = f
      /\ UNCHANGED wire => wire' = a
      /\ UNCHANGED shift => InReg(shift') = b
      /\ UNCHANGED data => InReg(data') = c
      /\ UNCHANGED <<txdata, tx_ptr, remaining_tx>> => Job' = d
      /\ UNCHANGED <<txdata, sz, pc, isr>> => InHand' = e
  <2>1. UNCHANGED vars => Contents' = f
    BY <1>a DEF vars, Contents, Index
  <2>2. UNCHANGED <<txdata, tx_ptr, remaining_tx>> => Job' = d
    BY <1>a DEF Job
  <2>3. UNCHANGED <<txdata, sz, pc, isr>> => InHand' = e
    BY <1>a DEF InHand, Fetching
  <2>4. QED
    BY <1>a, <2>1, <2>2, <2>3
<1>s. ASSUME wire' = a, InReg(shift') = b, InReg(data') = c, Job' = d, InHand' = e, Contents' = f,
             queued' = queued, lost' = lost
      PROVE  lost' \subseteq 1 .. queued' /\ AllWritten(Way)'
  BY <1>a, <1>g, <1>i, <1>s
<1>1. CASE hal_uart_init \/ hal_uart_init_cbs \/ hal_uart_config \/ Arrives \/ RxDone
           \/ hal_uart_start_rx
  <2>1. UNCHANGED <<vars, fetch, driver, line, pc, isr, queued>>
    BY <1>1 DEF hal_uart_init, hal_uart_init_cbs, hal_uart_config, Arrives, RxDone,
                hal_uart_start_rx
  <2>2. QED
    BY <1>k, <1>s, <2>1 DEF fetch, driver, line
<1>2. CASE hal_uart_close
  <2>1. /\ UNCHANGED <<vars, fetch, driver, wire, pc, isr, queued>>
        /\ data' = None /\ shift' = None /\ lost' = lost \cup ({data, shift} \cap Byte)
    BY <1>2 DEF hal_uart_close
  <2>2. InReg(shift') = <<>> /\ InReg(data') = <<>>
    BY <2>1 DEF InReg, None
  <2>3. PICK gone \in SUBSET (1 .. queued) :
          /\ gone = lost \cup ({data} \cap Byte)
          /\ Holds(Six(a, b, <<>>, d, e, f), queued, gone)
    <3>1. RegGone(a, b, d, e, f, data, queued, lost)
      BY <1>a, <1>i, <1>n, RegLost
    <3>2. QED
      BY <1>a, <3>1 DEF RegGone
  <2>4. /\ gone \cup ({shift} \cap Byte) \subseteq 1 .. queued
        /\ Holds(Six(a, <<>>, <<>>, d, e, f), queued, gone \cup ({shift} \cap Byte))
    <3>1. RegGone(a, <<>>, d, e, f, shift, queued, gone)
      BY <1>a, <1>n, Empty, RegLost
    <3>2. QED
      BY <1>a, <2>3, <3>1 DEF RegGone
  <2>5. lost' = gone \cup ({shift} \cap Byte)
    BY <2>1, <2>3
  <2>6. QED
    BY <1>g, <1>k, <2>1, <2>2, <2>4, <2>5 DEF fetch, driver
<1>3. CASE Put
  <2>1. UNCHANGED <<fetch, driver, line, isr>> /\ pc \in {"idle", "retry"} /\ isr = "none"
    BY <1>3 DEF Put, At
  <2>2. pc' \in {"start", "retry"}
    BY <1>3 DEF Put
  <2>3. e = <<>> /\ InHand' = <<>>
    BY <1>a, <2>1, <2>2 DEF InHand, Fetching
  <2>4. wire' = a /\ InReg(shift') = b /\ InReg(data') = c /\ Job' = d
    BY <1>k, <2>1 DEF fetch, driver, line
  <2>5. CASE PutOk(queued + 1) /\ queued' = queued + 1
    <3>1. queued + 1 \in Byte
      BY <1>3, <1>n DEF Put
    <3>2. Contents' = Append(f, queued + 1)
      BY <1>a, <1>i, <2>5, <3>1, PutContents
    <3>3. Append(f, queued + 1) = f \o <<queued + 1>>
      BY <1>a, <1>n
    <3>4. /\ Six(a, b, c, d, e, f) \in Seq(Nat)
          /\ Six(a, b, c, d, e, f \o <<queued + 1>>) = Six(a, b, c, d, e, f) \o <<queued + 1>>
      <4>1. PICK x \in Nat : x = queued + 1
        BY <1>n
      <4>2. SixMoved(a, b, c, d, e, f, x)
        BY <1>a, SixMoves
      <4>3. QED
        BY <4>1, <4>2 DEF SixMoved
    <3>5. Holds(Six(a, b, c, d, e, f) \o <<queued + 1>>, queued + 1, lost)
      BY <1>a, <1>i, <1>n, <3>4, HoldsNext
    <3>6. lost' \subseteq 1 .. queued'
      BY <1>i, <1>n, <2>1, <2>5 DEF line
    <3>7. lost' = lost
      BY <2>1 DEF line
    <3>8. QED
      BY <1>g, <2>3, <2>4, <2>5, <3>2, <3>3, <3>4, <3>5, <3>6, <3>7
  <2>6. CASE PutFull(queued + 1) /\ UNCHANGED queued
    <3>1. Contents' = f
      BY <1>a, <2>6 DEF PutFull, Contents, Index
    <3>2. QED
      BY <1>s, <2>1, <2>3, <2>4, <2>6, <3>1 DEF line
  <2>7. QED
    BY <1>3, <2>5, <2>6 DEF Put
<1>4. CASE BlockingTx \/ BlockingEnds
  <2>1. UNCHANGED <<vars, fetch, driver, line, isr, queued>> /\ isr = "none" /\ ~Fetching
    BY <1>4 DEF BlockingTx, BlockingEnds, At, Fetching
  <2>2. ~Fetching'
    BY <1>4 DEF BlockingTx, BlockingEnds, Fetching
  <2>3. InHand' = e
    BY <1>a, <2>1, <2>2 DEF InHand
  <2>4. QED
    BY <1>k, <1>s, <2>1, <2>3 DEF fetch, driver, line
<1>5. CASE StartTx
  <2>1. /\ UNCHANGED <<vars, txdata, driver, line, isr, queued>> /\ isr = "none" /\ pc = "start"
        /\ sz' = 0
    BY <1>5 DEF StartTx, At
  <2>2. e = <<>>
    BY <1>a, <2>1 DEF InHand, Fetching
  <2>3. InHand' = <<>>
    BY <2>1, SubSeqEmpty DEF InHand
  <2>4. QED
    BY <1>k, <1>s, <2>1, <2>2, <2>3 DEF driver, line
<1>6. CASE Fill \/ TxDoneFill
  <2>1. PICK more \in BOOLEAN :
          /\ Fetch(more) /\ UNCHANGED <<driver, line, queued>>
          /\ Fetching \/ isr # "none"
          /\ (Fetching \/ isr # "none")' \/ (~more /\ sz' = 0)
    <3>1. CASE Fill
      <4>1. PICK more \in BOOLEAN :
              /\ Fetch(more)
              /\ pc' = CASE more -> "fill" [] ~more /\ sz' > 0 -> "on" [] OTHER -> "idle"
        BY <3>1 DEF Fill
      <4>2. sz' \in Nat
        BY DEF UartTypeOK
      <4>3. pc' \in {"fill", "on"} \/ (~more /\ sz' = 0)
        BY <4>1, <4>2
      <4>4. UNCHANGED <<driver, line, queued>> /\ pc = "fill"
        BY <3>1 DEF Fill, At
      <4>5. QED
        BY <4>1, <4>3, <4>4 DEF Fetching
    <3>2. CASE TxDoneFill
      BY <3>2 DEF TxDoneFill
    <3>3. QED
      BY <1>6, <3>1, <3>2
  <2>2. UNCHANGED <<txdata, sz>> => UNCHANGED txdata
    OBVIOUS
  <2>3. e = SubSeq(txdata, 1, sz)
    BY <1>a, <2>1 DEF InHand
  <2>4. remaining_tx = 0 /\ remaining_tx' = 0
    BY <1>i, <2>1 DEF Jobs, driver
  <2>5. d = <<>> /\ Job' = <<>>
    BY <1>a, <1>i, <1>p, <2>4, Places
  <2>6. wire' = a /\ InReg(shift') = b /\ InReg(data') = c /\ lost' = lost
    BY <1>k, <2>1 DEF line
  <2>7. CASE /\ SubSeq(txdata', 1, sz') = SubSeq(txdata, 1, sz) /\ Contents' = Contents
             /\ sz' = sz
    <3>1. InHand' = e
      <4>1. CASE (Fetching \/ isr # "none")'
        BY <2>3, <2>7, <4>1 DEF InHand
      <4>2. CASE sz' = 0
        <5>1. e = <<>>
          BY <2>3, <2>7, <4>2, SubSeqEmpty
        <5>2. SubSeq(txdata', 1, sz') = <<>>
          BY <4>2, SubSeqEmpty
        <5>3. QED
          BY <5>1, <5>2 DEF InHand
      <4>3. QED
        BY <2>1, <4>1, <4>2
    <3>2. QED
      BY <1>a, <1>s, <2>1, <2>5, <2>6, <2>7, <3>1
  <2>8. ASSUME NEW x \in Nat, SubSeq(txdata', 1, sz') = SubSeq(txdata, 1, sz) \o <<x>>,
               Contents = <<x>> \o Contents', sz' = sz + 1
        PROVE  lost' \subseteq 1 .. queued' /\ AllWritten(Way)'
    <3>1. (Fetching \/ isr # "none")'
      BY <1>i, <2>1, <2>8 DEF UartTypeOK
    <3>2. InHand' = e \o <<x>>
      BY <2>3, <2>8, <3>1 DEF InHand
    <3>3. PICK g : g = Contents' /\ g \in Seq(Nat) /\ f = <<x>> \o g
      BY <1>a, <1>p, <2>8
    <3>4. Six(a, b, c, d, e, <<x>> \o g) = Six(a, b, c, d, e \o <<x>>, g)
      <4>1. SixMoved(a, b, c, d, e, g, x)
        BY <1>a, <3>3, SixMoves
      <4>2. QED
        BY <4>1 DEF SixMoved
    <3>5. Holds(Six(a, b, c, d, e \o <<x>>, g), queued, lost)
      BY <1>a, <3>3, <3>4
    <3>6. QED
      BY <1>g, <1>i, <2>1, <2>5, <2>6, <3>2, <3>3, <3>5
  <2>9. QED
    BY <1>i, <2>1, <2>7, <2>8, FetchMoves
<1>7. CASE SetOn
  <2>1. UNCHANGED <<vars, fetch, driver, line, isr, queued>> /\ pc = "on" /\ pc' = "job"
    BY <1>7 DEF SetOn, At
  <2>2. InHand' = e
    BY <1>a, <2>1 DEF InHand, Fetching, fetch
  <2>3. QED
    BY <1>k, <1>s, <2>1, <2>2 DEF fetch, driver, line
<1>8. CASE WriteJob \/ TxDoneEnd
  <2>1. /\ UNCHANGED <<vars, fetch, line, queued>>
        /\ Fetching \/ isr # "none"
        /\ ~(Fetching \/ isr # "none")'
    <3>1. CASE WriteJob
      BY <3>1 DEF WriteJob, At, Fetching
    <3>2. CASE TxDoneEnd
      <4>1. ~Fetching /\ isr = "end" /\ pc' = pc /\ isr' = "none"
        BY <1>i, <3>2 DEF TxDoneEnd, Jobs
      <4>2. QED
        BY <3>2, <4>1 DEF TxDoneEnd, Fetching
    <3>3. QED
      BY <1>8, <3>1, <3>2
  <2>2. remaining_tx = 0 /\ d = <<>>
    BY <1>a, <1>i, <2>1, Places DEF Jobs
  <2>3. e = SubSeq(txdata, 1, sz) /\ InHand' = <<>> /\ sz \in Nat
    BY <1>a, <1>i, <2>1 DEF InHand, UartTypeOK
  <2>4. Job' = e
    <3>1. CASE remaining_tx' = sz /\ tx_ptr' = 1
      <4>1. 1 + sz - 1 = sz
        BY <2>3
      <4>2. QED
        BY <2>1, <2>3, <3>1, <4>1 DEF Job, fetch
    <3>2. CASE sz = 0 /\ UNCHANGED driver
      <4>1. Job' = <<>>
        BY <1>p, <2>2, <3>2 DEF driver
      <4>2. e = <<>>
        BY <2>3, <3>2, SubSeqEmpty
      <4>3. QED
        BY <4>1, <4>2
    <3>3. QED
      BY <1>8, <2>2, <2>3, <3>1, <3>2 DEF WriteJob, TxDoneEnd, usart_write_buffer_job
  <2>5. Six(a, b, c, <<>>, e, f) = Six(a, b, c, e, <<>>, f)
    <3>1. SixMoved(a, b, c, d, e, f, 0)
      BY <1>a, SixMoves
    <3>2. QED
      BY <3>1 DEF SixMoved
  <2>6. wire' = a /\ InReg(shift') = b /\ InReg(data') = c /\ Contents' = f /\ lost' = lost
    BY <1>k, <2>1 DEF line
  <2>7. QED
    BY <1>a, <1>g, <1>i, <2>1, <2>2, <2>3, <2>4, <2>5, <2>6
<1>9. CASE WriteWait
  <2>1. UNCHANGED <<vars, fetch, driver, isr, queued>> /\ isr = "none" /\ ~Fetching /\ ~Fetching'
    BY <1>9 DEF WriteWait, At, Fetching
  <2>2. InHand' = e /\ Job' = d /\ Contents' = f
    <3>1. InHand' = e
      BY <1>a, <2>1 DEF InHand
    <3>2. QED
      BY <1>k, <2>1, <3>1 DEF fetch, driver
  <2>3. CASE UNCHANGED line
    BY <1>k, <1>s, <2>1, <2>2, <2>3 DEF line
  <2>4. CASE /\ data' = IF enabled THEN Blocking ELSE data
             /\ lost' = lost \cup ({data} \cap Byte) /\ UNCHANGED <<shift, wire>>
    <3>1. data' \in {Blocking, None}
      BY <1>i, <2>4 DEF Jobs
    <3>2. InReg(data') = <<>>
      BY <3>1 DEF InReg, Blocking, None
    <3>3. /\ lost \cup ({data} \cap Byte) \subseteq 1 .. queued
          /\ Holds(Six(a, b, <<>>, d, e, f), queued, lost \cup ({data} \cap Byte))
      <4>1. RegGone(a, b, d, e, f, data, queued, lost)
        BY <1>a, <1>i, <1>n, RegLost
      <4>2. QED
        BY <1>a, <4>1 DEF RegGone
    <3>4. QED
      BY <1>g, <1>k, <2>1, <2>2, <2>4, <3>2, <3>3
  <2>5. QED
    BY <1>9, <2>3, <2>4 DEF WriteWait
<1>10. CASE Load
  <2>1. /\ UNCHANGED <<vars, fetch, driver, wire, lost, pc, isr, queued>>
        /\ shift = None /\ shift' = data /\ data' = None
    BY <1>10 DEF Load
  <2>2. b = <<>> /\ InReg(shift') = c /\ InReg(data') = <<>>
    BY <1>a, <2>1 DEF InReg, None
  <2>3. Six(a, <<>>, c, d, e, f) = Six(a, c, <<>>, d, e, f)
    <3>1. SixMoved(a, b, c, d, e, f, 0)
      BY <1>a, SixMoves
    <3>2. QED
      BY <3>1 DEF SixMoved
  <2>4. QED
    BY <1>a, <1>g, <1>i, <1>k, <2>1, <2>2, <2>3 DEF fetch, driver
<1>11. CASE ShiftOut
  <2>1. /\ UNCHANGED <<vars, fetch, driver, data, lost, pc, isr, queued>>
        /\ wire' = IF shift \in Byte THEN Append(wire, shift) ELSE wire
        /\ shift' = None
    BY <1>11 DEF ShiftOut
  <2>2. wire' = a \o b /\ InReg(shift') = <<>>
    <3>1. CASE shift \in Byte
      BY <1>a, <1>n, <2>1, <3>1 DEF InReg, None
    <3>2. CASE shift \notin Byte
      BY <1>a, <2>1, <3>2, Empty DEF InReg, None
    <3>3. QED
      BY <3>1, <3>2
  <2>3. Six(a, b, c, d, e, f) = Six(a \o b, <<>>, c, d, e, f)
    <3>1. SixMoved(a, b, c, d, e, f, 0)
      BY <1>a, SixMoves
    <3>2. QED
      BY <3>1 DEF SixMoved
  <2>4. QED
    BY <1>a, <1>g, <1>i, <1>k, <2>1, <2>2, <2>3 DEF fetch, driver
<1>12. CASE DataEmpty
  <2>1. /\ UNCHANGED <<vars, fetch, shift, wire, lost, pc, isr, queued>>
        /\ data = None /\ remaining_tx > 0
        /\ data' = txdata[tx_ptr] /\ tx_ptr' = tx_ptr + 1 /\ remaining_tx' = remaining_tx - 1
    BY <1>12, <1>i DEF DataEmpty, Taken, Jobs
  <2>2. c = <<>>
    BY <1>a, <2>1 DEF InReg, None
  <2>3. PICK x \in Nat : x = txdata[tx_ptr]
    BY <1>i, <2>1 DEF UartTypeOK, TxSlot
  <2>4. d = <<x>> \o Job'
    <3>1. txdata \in [1 .. TxBufferSize -> Nat]
      BY <1>i, Places
    <3>2. Job = <<txdata[tx_ptr]>> \o SubSeq(txdata, tx_ptr + 1, tx_ptr + remaining_tx - 1)
      BY <1>i, <2>1, <3>1, Piece DEF Job, UartTypeOK
    <3>3. tx_ptr' + remaining_tx' - 1 = tx_ptr + remaining_tx - 1
      BY <1>i, <2>1 DEF UartTypeOK
    <3>4. Job' = SubSeq(txdata, tx_ptr + 1, tx_ptr + remaining_tx - 1)
      BY <2>1, <3>3 DEF Job, fetch
    <3>5. QED
      BY <1>a, <2>3, <3>2, <3>4
  <2>5. PICK g : g = Job' /\ g \in Seq(Nat)
    BY <1>p
  <2>6. Six(a, b, <<>>, <<x>> \o g, e, f) = Six(a, b, <<x>>, g, e, f)
    <3>1. SixMoved(a, b, c, g, e, f, x)
      BY <1>a, <2>3, <2>5, SixMoves
    <3>2. QED
      BY <3>1 DEF SixMoved
  <2>7. Holds(Six(a, b, <<x>>, g, e, f), queued, lost)
    BY <1>a, <2>2, <2>4, <2>5, <2>6
  <2>8. x \in 1 .. queued
    BY <1>a, <1>n, <2>3, <2>5, <2>7, SixLess
  <2>9. InReg(data') = <<x>>
    BY <1>i, <2>1, <2>3, <2>8 DEF InReg, UartTypeOK
  <2>10. QED
    BY <1>g, <1>i, <1>k, <2>1, <2>5, <2>7, <2>9 DEF fetch
<1>13. CASE TxDone
  <2>1. /\ UNCHANGED <<vars, txdata, tx_ptr, remaining_tx, line, pc, queued>>
        /\ txc /\ isr = "none" /\ sz' = 0
    BY <1>13 DEF TxDone, Taken
  <2>2. ~Fetching
    BY <1>i, <2>1 DEF Jobs
  <2>3. e = <<>>
    BY <1>a, <2>1, <2>2 DEF InHand
  <2>4. InHand' = <<>>
    BY <2>1, SubSeqEmpty DEF InHand
  <2>5. QED
    BY <1>k, <1>s, <2>1, <2>3, <2>4 DEF line
<1>14. CASE UNCHANGED uartVars
  <2>1. UNCHANGED <<vars, fetch, driver, line, pc, isr, queued>>
    BY <1>14 DEF uartVars
  <2>2. QED
    BY <1>k, <1>s, <2>1 DEF fetch, driver, line
<1>15. QED
  BY <1>1, <1>2, <1>3, <1>4, <1>5, <1>6, <1>7, <1>8, <1>9, <1>10, <1>11, <1>12, <1>13, <1>14
     DEF UartNext, Opening, Task, TxInterrupt

\* No character written by esp_uart_write is lost, doubled or overtaken between
\* e_tx and the wire, except those that hal_uart_blocking_tx overwrites or a
\* close catches; and the task and the interrupt never both run fill_tx_buf:
\* for every size of e_tx and of txdata.
THEOREM UartNothingLost == UartSpec => []NothingLost
<1>1. UartInv /\ [UartNext]_uartVars => UartInv'
  <2> SUFFICES ASSUME UartInv, [UartNext]_uartVars PROVE UartInv'
    OBVIOUS
  <2>1. RingInv /\ UartTypeOK /\ Jobs
    BY DEF UartInv
  <2>2. QueuedOK
    BY <2>1 DEF UartTypeOK, QueuedOK
  <2>3. RingInv'
    BY <2>1, <2>2, UartStep, RingStep
  <2>4. UartTypeOK' /\ Jobs'
    BY <2>1, JobsStep
  <2>5. lost' \subseteq 1 .. queued' /\ AllWritten(Way)'
    BY <2>3, <2>4, WayStep
  <2>6. QED
    BY <2>3, <2>4, <2>5 DEF UartInv
<1>2. UartInv => NothingLost
  BY DEF UartInv, Jobs, NothingLost
<1>3. QED
  BY <1>1, <1>2, UartInvStart, PTL DEF UartSpec
=============================================================================
