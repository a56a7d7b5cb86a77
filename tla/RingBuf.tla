------------------------------- MODULE RingBuf -------------------------------
(***************************************************************************)
(* libs/espduino/src/ringbuf.c: a byte queue in a fixed array.  A RINGBUF  *)
(* holds a read pointer, a write pointer and a fill count; here the        *)
(* pointers are indices from p_o.  espduino.c calls Put inside             *)
(* OS_ENTER_CRITICAL or from the interrupt.  Get is called from the        *)
(* interrupt and from hal_uart_start_tx, never from both at a time         *)
(* (HalUart, NothingLost), so each call is one step.                       *)
(***************************************************************************)
EXTENDS Integers, Sequences

CONSTANTS
    Byte,   \* the bytes that can be stored
    Size    \* r->size, the length of the array

\* RINGBUF_Init refuses a buffer of fewer than two bytes.
ASSUME RingAssumption == Size \in Nat /\ Size >= 2 /\ Byte \subseteq Nat

VARIABLES
    buf,        \* the array at r->p_o
    p_r,        \* r->p_r - r->p_o
    p_w,        \* r->p_w - r->p_o
    fill_cnt,   \* r->fill_cnt
    last        \* the last call: operation, return code, byte moved

vars == <<buf, p_r, p_w, fill_cnt, last>>

Slot == 0 .. Size - 1

RINGBUF_Init ==
    /\ buf = [i \in Slot |-> 0]
    /\ p_r = 0
    /\ p_w = 0
    /\ fill_cnt = 0
    /\ last = [op |-> "init", rc |-> 0, byte |-> 0]

\* A pointer moved past the end goes back to p_o.
Rollback(p) == IF p >= Size THEN 0 ELSE p

\* Mutation of PutOk: a full buffer is not noticed.
PutOverwrites(c) ==
    /\ buf' = [buf EXCEPT ![p_w] = c]
    /\ p_w' = Rollback(p_w + 1)
    /\ fill_cnt' = IF fill_cnt < Size THEN fill_cnt + 1 ELSE fill_cnt
    /\ last' = [op |-> "put", rc |-> 0, byte |-> c]
    /\ UNCHANGED p_r

PutOk(c) ==
    /\ fill_cnt < Size
    /\ fill_cnt' = fill_cnt + 1
    /\ buf' = [buf EXCEPT ![p_w] = c]
    /\ p_w' = Rollback(p_w + 1)
    /\ last' = [op |-> "put", rc |-> 0, byte |-> c]
    /\ UNCHANGED p_r

PutFull(c) ==
    /\ fill_cnt >= Size
    /\ last' = [op |-> "put", rc |-> -1, byte |-> c]
    /\ UNCHANGED <<buf, p_r, p_w, fill_cnt>>

RINGBUF_Put(c) == PutOk(c) \/ PutFull(c)

GetOk ==
    /\ fill_cnt > 0
    /\ fill_cnt' = fill_cnt - 1
    /\ p_r' = Rollback(p_r + 1)
    /\ last' = [op |-> "get", rc |-> 0, byte |-> buf[p_r]]
    /\ UNCHANGED <<buf, p_w>>

GetEmpty ==
    /\ fill_cnt <= 0
    /\ last' = [op |-> "get", rc |-> -1, byte |-> 0]
    /\ UNCHANGED <<buf, p_r, p_w, fill_cnt>>

RINGBUF_Get == GetOk \/ GetEmpty

Next == (\E c \in Byte : RINGBUF_Put(c)) \/ RINGBUF_Get

Spec == RINGBUF_Init /\ [][Next]_vars

-----------------------------------------------------------------------------
(* Properties *)

\* The ranges of the fields of a RINGBUF.
TypeOK ==
    /\ buf \in [Slot -> Byte \cup {0}]
    /\ p_r \in Slot
    /\ p_w \in Slot
    /\ fill_cnt \in 0 .. Size
    /\ last \in [op : {"init", "put", "get"}, rc : {0, -1}, byte : Byte \cup {0}]

\* Slot number i counted from the read pointer.
Index(i) == IF p_r + i < Size THEN p_r + i ELSE p_r + i - Size

\* The fields keep their ranges, and the count kept separately from the
\* pointers always tells how far the write pointer is ahead of the read
\* pointer: it is what tells a full buffer from an empty one.
RingInv == TypeOK /\ p_w = Index(fill_cnt)

\* The bytes waiting, oldest first.
Contents == [i \in 1 .. fill_cnt |-> buf[Index(i - 1)]]

Fifo == INSTANCE BoundedFifo WITH queue <- Contents

\* The two pointers and the count implement a bounded first-in first-out
\* queue: no byte is lost, duplicated, reordered or overwritten, and a call
\* is refused only when the buffer is really full or really empty.
ImplementsFifo == Fifo!Spec
=============================================================================
