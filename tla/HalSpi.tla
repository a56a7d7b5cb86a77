------------------------------- MODULE HalSpi -------------------------------
(***************************************************************************)
(* An SPI port: hw/mcu/atmel/samd21xx/src/hal_spi.c over the driver the    *)
(* repository has changed for it, sam0/drivers/sercom/spi.  A transfer     *)
(* runs from the interrupt when a callback is set and in the calling task  *)
(* when none is; the callback may start the next transfer while the        *)
(* interrupt handler is still working on what it read at its entry.        *)
(*                                                                         *)
(* The SERCOM is external: a data register before a shift register, two    *)
(* received characters that wait, and the flags.  A master shifts whenever *)
(* it has a character, a slave whenever the other side clocks.  A          *)
(* character sent is <<transfer, index>>, one received is the place in     *)
(* "wire" of the character it was exchanged for; what a slave sends is not *)
(* told apart from the default character.                                  *)
(***************************************************************************)
EXTENDS Integers, Sequences

CONSTANTS
    MaxLen,     \* bound: characters of a transfer
    MaxXfers,   \* bound: transfers and single characters
    MaxWire,    \* bound: characters exchanged
    MaxDisturb  \* bound: calls that disable the port, abort, or set a default character

\* The driver counts what is left of a transfer in a uint16_t.
ASSUME SpiAssumption ==
    /\ MaxLen \in Nat \ {0} /\ MaxLen < 65536
    /\ MaxXfers \in Nat /\ MaxWire \in Nat /\ MaxDisturb \in Nat

VARIABLES
    hal,    \* struct samd21_hal_spi: the flags, and txrx_cb # NULL
    mod,    \* struct spi_module
    buf,    \* the buffers of the transfer: how far they are sent and filled
    hw,     \* the SERCOM
    irq,    \* _spi_interrupt_handler: where it is and the flags it read at entry
    pc,     \* the task
    \* history
    wire,   \* characters exchanged
    seen,   \* what has happened to the port that excuses what follows
    disturbs    \* calls counted by MaxDisturb

spiVars == <<hal, mod, buf, hw, irq, pc, wire, seen, disturbs>>

INTS == {"DRE", "RXC", "TXC"}
Dummy == <<0, 0>>
NoIrq == [at |-> "none", st |-> {}, next |-> "none"]

SpiInit ==
    /\ \E m \in BOOLEAN : hal = [master |-> m, xfer |-> FALSE, cb |-> FALSE]
    /\ mod = [receiver |-> FALSE, status |-> "OK", tx |-> FALSE, rx |-> FALSE,
              remTx |-> 0, remRx |-> 0, calls |-> FALSE, dummy |-> TRUE]
    /\ buf = [n |-> 0, len |-> 0, sent |-> 0, got |-> <<>>]
    /\ hw = [on |-> FALSE, inten |-> {}, data |-> <<>>, shift |-> <<>>, fifo |-> <<>>,
             txc |-> FALSE, ovf |-> FALSE, sel |-> FALSE]
    /\ irq = NoIrq /\ pc = "idle" /\ wire = <<>> /\ seen = {} /\ disturbs = 0

-----------------------------------------------------------------------------
(* The hardware *)

\* A character written to DATA goes on to the shift register if that is free.
Load(h, c) ==
    IF h.shift = <<>> THEN [h EXCEPT !.shift = <<c>>, !.txc = FALSE]
                      ELSE [h EXCEPT !.data = <<c>>, !.txc = FALSE]

\* A slave loses the end of a transaction when it writes DATA before it looks.
Erased == IF ~hal.master /\ hw.txc /\ "TXC" \in hw.inten \ irq.st THEN {"erased"} ELSE {}

\* One character each way; a third one that waits is lost.
Exchange ==
    /\ hw.on /\ Len(wire) < MaxWire
    /\ IF hal.master THEN hw.shift # <<>> ELSE hw.sel
    /\ wire' = Append(wire, IF hw.shift = <<>> THEN Dummy ELSE hw.shift[1])
    /\ hw' = [hw EXCEPT !.shift = hw.data, !.data = <<>>,
                        !.fifo = IF Len(@) < 2 THEN Append(@, Len(wire) + 1) ELSE @,
                        !.ovf = (@ \/ Len(hw.fifo) = 2),
                        !.txc = IF hal.master THEN hw.data = <<>> ELSE @]
    /\ UNCHANGED <<hal, mod, buf, irq, pc, seen>>

\* The other side selects the slave, and ends its transaction.
Select ==
    /\ ~hal.master /\ hw.on
    /\ hw' = [hw EXCEPT !.sel = ~@, !.txc = (@ \/ hw.sel)]
    /\ UNCHANGED <<hal, mod, buf, irq, pc, wire, seen>>

Flags == {f \in INTS : \/ f = "DRE" /\ hw.data = <<>>
                       \/ f = "RXC" /\ hw.fifo # <<>>
                       \/ f = "TXC" /\ hw.txc}

-----------------------------------------------------------------------------
(* The driver *)

\* Mutation of Without: nothing is disabled.
WithoutNone(h, flags) == h

\* spi_disable_ints.
Without(h, flags) ==
    [h EXCEPT !.inten = @ \ (IF mod.dummy THEN flags \ {"DRE"} ELSE flags)]

\* spi_call_cb: the callbacks are registered and enabled all together.
CallsUser == mod.calls /\ hal.xfer

\* Mutation of CallCb: the flag is left to the user.
CallCbKeeps(next) ==
    /\ hal' = hal
    /\ irq' = IF CallsUser THEN [irq EXCEPT !.at = "user", !.next = next] ELSE
              IF next = "none" THEN NoIrq ELSE [irq EXCEPT !.at = next]

\* samd21_hal_spi_cb: the user's callback runs, then the rest of the handler.
CallCb(next) ==
    IF CallsUser
      THEN /\ hal' = [hal EXCEPT !.xfer = FALSE]
           /\ irq' = [irq EXCEPT !.at = "user", !.next = next]
      ELSE /\ hal' = hal
           /\ irq' = IF next = "none" THEN NoIrq ELSE [irq EXCEPT !.at = next]

\* Entry.
HandlerEnters ==
    LET st == Flags \cap hw.inten
    IN  /\ irq.at = "none" /\ hw.on /\ st # {}
        /\ irq' = [at |-> "dre", st |-> st, next |-> "none"]
        /\ UNCHANGED <<hal, mod, buf, hw, pc, wire, seen>>

\* _spi_write: the module afterwards, and whether that was the last character.
Written == IF mod.tx THEN [mod EXCEPT !.remTx = (@ - 1) % 65536] ELSE mod
AllWritten == mod.tx /\ Written.remTx = 0

\* The data register empty interrupt.
HandlerDre ==
    /\ irq.at = "dre"
    /\ irq' = [irq EXCEPT !.at = "rxc"]
    /\ IF "DRE" \in irq.st
         THEN /\ mod' = Written
              /\ buf' = IF mod.tx THEN [buf EXCEPT !.sent = @ + 1] ELSE buf
              /\ hw' = Load(IF AllWritten THEN Without(hw, {"DRE"}) ELSE hw,
                            IF mod.tx /\ hal.master THEN <<buf.n, buf.sent + 1>> ELSE Dummy)
              /\ seen' = seen \cup Erased
         ELSE UNCHANGED <<mod, buf, hw, seen>>
    /\ UNCHANGED <<hal, pc, wire>>

\* Reading DATA.
Popped(h) == [h EXCEPT !.fifo = IF @ = <<>> THEN @ ELSE Tail(@)]

\* _spi_read: the module afterwards, and whether that was the last character.
Filled == IF mod.rx THEN [mod EXCEPT !.remRx = @ - 1] ELSE mod
AllFilled == mod.rx /\ Filled.remRx = 0

\* The receive complete interrupt.
HandlerRxc ==
    /\ irq.at = "rxc"
    /\ IF "RXC" \notin irq.st THEN
            /\ irq' = [irq EXCEPT !.at = "txc"]
            /\ UNCHANGED <<hal, mod, buf, hw, seen>>
       ELSE IF hw.ovf THEN
            /\ mod' = [mod EXCEPT !.status = "OVERFLOW"]
            /\ hw' = Without(hw, {"RXC", "DRE"})
            /\ CallCb("flush")
            /\ seen' = seen \cup {"overflow"}
            /\ UNCHANGED buf
       ELSE /\ mod' = IF AllFilled THEN [Filled EXCEPT !.status = "OK"] ELSE Filled
            /\ buf' = IF mod.rx THEN [buf EXCEPT !.got = Append(@, Head(hw.fifo))] ELSE buf
            /\ hw' = IF AllFilled THEN Without(Popped(hw), {"RXC"}) ELSE Popped(hw)
            /\ IF AllFilled THEN CallCb("txc")
                            ELSE hal' = hal /\ irq' = [irq EXCEPT !.at = "txc"]
            /\ UNCHANGED seen
    /\ UNCHANGED <<pc, wire>>

\* The rest of the overflow branch, after the callback.
HandlerFlush ==
    /\ irq.at = "flush"
    /\ hw' = [Popped(hw) EXCEPT !.ovf = FALSE]
    /\ irq' = [irq EXCEPT !.at = "txc"]
    /\ UNCHANGED <<hal, mod, buf, pc, wire, seen>>

\* The transmit complete interrupt: the other side has ended the transaction.
\* The flag is the one read at entry, the transfer whichever is going on now.
HandlerTxc ==
    /\ irq.at = "txc"
    /\ IF "TXC" \in irq.st /\ ~hal.master
         THEN /\ hw' = [Without(hw, INTS) EXCEPT !.txc = FALSE]
              /\ mod' = [mod EXCEPT !.remTx = 0, !.remRx = 0, !.status = "OK"]
              /\ CallCb("none")
         ELSE /\ irq' = NoIrq
              /\ UNCHANGED <<hal, mod, hw>>
    /\ UNCHANGED <<buf, pc, wire, seen>>

\* The user's callback returns.
UserReturns ==
    /\ irq.at = "user"
    /\ irq' = IF irq.next = "none" THEN NoIrq ELSE [irq EXCEPT !.at = irq.next]
    /\ UNCHANGED <<hal, mod, buf, hw, pc, wire, seen>>

Handler == HandlerEnters \/ HandlerDre \/ HandlerRxc \/ HandlerFlush \/ HandlerTxc \/ UserReturns

-----------------------------------------------------------------------------
(* The HAL *)

InTask == pc = "idle" /\ irq.at = "none"
CanCall == InTask \/ irq.at = "user"

\* spi_init: whatever callbacks were set are gone.
Configured ==
    [receiver |-> TRUE, status |-> "OK", tx |-> FALSE, rx |-> FALSE,
     remTx |-> 0, remRx |-> 0, calls |-> FALSE, dummy |-> FALSE]

\* With settings the port has; others are refused and change nothing.
hal_spi_config ==
    /\ InTask /\ ~hw.on
    /\ mod' = Configured
    /\ UNCHANGED <<hal, buf, hw, irq, pc, wire, seen>>

\* spi_enable, and spi_disable, after which what was received may be kept or not.
SpiOn(h) == [h EXCEPT !.on = TRUE]
SpiOff(h, f) ==
    [h EXCEPT !.on = FALSE, !.data = <<>>, !.shift = <<>>, !.fifo = f, !.sel = FALSE]

hal_spi_enable ==
    /\ InTask /\ ~hw.on
    /\ hw' = SpiOn(hw)
    /\ UNCHANGED <<hal, mod, buf, irq, pc, wire, seen>>

hal_spi_disable ==
    /\ InTask /\ hw.on
    /\ \E f \in {hw.fifo, <<>>} : hw' = SpiOff(hw, f)
    /\ seen' = IF hal.xfer \/ hw.shift # <<>> THEN seen \cup {"cut"} ELSE seen
    /\ UNCHANGED <<hal, mod, buf, irq, pc, wire>>

hal_spi_set_txrx_cb ==
    /\ InTask /\ ~hal.xfer
    /\ \E c \in BOOLEAN : /\ hal' = [hal EXCEPT !.cb = c]
                          /\ mod' = [mod EXCEPT !.calls = c]
    /\ UNCHANGED <<buf, hw, irq, pc, wire, seen>>

\* The checks of hal_spi_txrx.
Accepts(t, r) == ~hal.xfer /\ IF hal.master THEN t ELSE t \/ r

NewBuf(n) == [n |-> buf.n + 1, len |-> n, sent |-> 0, got |-> <<>>]

\* _spi_transceive_buffer: the first part, and the last one, for a slave.
Started(n, t, r) ==
    [mod EXCEPT !.tx = t, !.rx = r, !.status = "BUSY",
                !.remRx = IF r THEN n ELSE 0, !.remTx = IF t THEN n ELSE 0]
JobInts(h) ==
    IF hal.master THEN h ELSE [h EXCEPT !.txc = FALSE, !.inten = @ \cup {"TXC"}]

\* spi_transceive_buffer_job.
Refuses == ~mod.receiver \/ mod.status = "BUSY"

\* samd21_hal_spi_txrx_nonblocking: XFER stays set when the job is refused.
Nonblocking(n, t, r) ==
    /\ CanCall /\ hal.cb /\ Accepts(t, r) /\ buf.n < MaxXfers
    /\ hal' = [hal EXCEPT !.xfer = TRUE]
    /\ IF Refuses
         THEN UNCHANGED <<mod, buf, hw, pc>>
         ELSE /\ mod' = Started(n, t, r)
              /\ buf' = NewBuf(n)
              /\ hw' = LET h == [hw EXCEPT !.inten = @ \cup {"DRE", "RXC"}]
                       IN  IF InTask THEN h ELSE JobInts(h)
              /\ pc' = IF InTask THEN "job" ELSE pc
    /\ UNCHANGED <<irq, wire, seen>>

\* The last part of the job, when the interrupt may have come before it.
JobEnds ==
    /\ pc = "job" /\ irq.at = "none"
    /\ hw' = JobInts(hw) /\ pc' = "idle"
    /\ seen' = seen \cup Erased
    /\ UNCHANGED <<hal, mod, buf, irq, wire>>

\* Mutation of hal_spi_abort: the driver stays busy.
AbortBusy ==
    /\ CanCall
    /\ hw' = Without(hw, INTS)
    /\ mod' = [mod EXCEPT !.remTx = 0, !.remRx = 0]
    /\ hal' = [hal EXCEPT !.xfer = FALSE]
    /\ seen' = IF hal.xfer THEN seen \cup {"cut"} ELSE seen
    /\ UNCHANGED <<buf, irq, pc, wire>>

\* spi_abort_job, which leaves what has been received where it is.
Aborted == [mod EXCEPT !.status = "ABORTED", !.remTx = 0, !.remRx = 0]

hal_spi_abort ==
    /\ CanCall
    /\ hw' = Without(hw, INTS)
    /\ mod' = Aborted
    /\ hal' = [hal EXCEPT !.xfer = FALSE]
    /\ seen' = IF hal.xfer THEN seen \cup {"cut"} ELSE seen
    /\ UNCHANGED <<buf, irq, pc, wire>>

\* spi_set_dummy, other than to SPI_DUMMY_NONE.
Defaulted ==
    LET h == [hw EXCEPT !.inten = @ \cup {"DRE"}] IN IF hw.on THEN Load(h, Dummy) ELSE h

hal_spi_slave_set_def_tx_val ==
    /\ InTask /\ ~hal.master
    /\ \E d \in BOOLEAN :
         /\ mod' = [mod EXCEPT !.dummy = d]
         /\ hw' = IF d THEN Defaulted ELSE hw
         /\ seen' = IF d THEN seen \cup Erased ELSE seen
    /\ UNCHANGED <<hal, buf, irq, pc, wire>>

\* samd21_hal_spi_txrx_blocking by a master, with spi_transceive_buffer_wait.
Blocking(n) ==
    /\ InTask /\ hal.master /\ hw.on /\ mod.receiver
    /\ ~hal.cb /\ Accepts(TRUE, TRUE) /\ mod.status # "BUSY" /\ buf.n < MaxXfers
    /\ hal' = [hal EXCEPT !.xfer = TRUE]
    /\ buf' = NewBuf(n)
    /\ pc' = "write"
    /\ UNCHANGED <<mod, hw, irq, wire, seen>>

\* hal_spi_tx_val by a master, with spi_transceive_wait.
hal_spi_tx_val ==
    /\ InTask /\ hal.master /\ hw.on /\ mod.receiver
    /\ ~hal.xfer /\ mod.status # "BUSY" /\ buf.n < MaxXfers
    /\ buf' = NewBuf(1)
    /\ pc' = "write"
    /\ UNCHANGED <<hal, mod, hw, irq, wire, seen>>

WriteWait ==
    /\ pc = "write" /\ irq.at = "none" /\ "DRE" \in Flags
    /\ hw' = Load(hw, <<buf.n, buf.sent + 1>>)
    /\ buf' = [buf EXCEPT !.sent = @ + 1]
    /\ pc' = "read"
    /\ UNCHANGED <<hal, mod, irq, wire, seen>>

\* spi_read.
Taken(h) == [Popped(h) EXCEPT !.ovf = FALSE]

\* Mutation of ReadWait: what came back is not taken out.
ReadWaitLeaves ==
    /\ pc = "read" /\ irq.at = "none" /\ "RXC" \in Flags
    /\ buf' = [buf EXCEPT !.got = Append(@, Head(hw.fifo))]
    /\ pc' = IF buf.sent < buf.len THEN "write" ELSE
             IF hal.xfer THEN "complete" ELSE "idle"
    /\ UNCHANGED <<hal, mod, hw, irq, wire, seen>>

\* The transfer ends at an overflow; tx_val does not wait for TXC.
ReadWait ==
    /\ pc = "read" /\ irq.at = "none" /\ "RXC" \in Flags
    /\ hw' = Taken(hw)
    /\ buf' = IF hw.ovf THEN buf ELSE [buf EXCEPT !.got = Append(@, Head(hw.fifo))]
    /\ pc' = IF hw.ovf THEN "idle" ELSE
             IF buf.sent < buf.len THEN "write" ELSE
             IF hal.xfer THEN "complete" ELSE "idle"
    /\ hal' = IF hw.ovf THEN [hal EXCEPT !.xfer = FALSE] ELSE hal
    /\ UNCHANGED <<mod, irq, wire, seen>>

CompleteWait ==
    /\ pc = "complete" /\ irq.at = "none" /\ "TXC" \in Flags
    /\ hal' = [hal EXCEPT !.xfer = FALSE]
    /\ pc' = "idle"
    /\ UNCHANGED <<mod, buf, hw, irq, wire, seen>>

Waiting == WriteWait \/ ReadWait \/ CompleteWait \/ JobEnds

-----------------------------------------------------------------------------

Disturb ==
    /\ disturbs < MaxDisturb /\ disturbs' = disturbs + 1
    /\ hal_spi_disable \/ hal_spi_abort \/ hal_spi_slave_set_def_tx_val

Calls ==
    \/ hal_spi_config \/ hal_spi_enable \/ hal_spi_set_txrx_cb \/ hal_spi_tx_val
    \/ \E n \in 1 .. MaxLen : Blocking(n)
    \/ \E n \in 1 .. MaxLen, t, r \in BOOLEAN : Nonblocking(n, t, r)

SpiStep == Exchange \/ Select \/ Handler \/ Waiting \/ Calls

SpiNext == Disturb \/ (SpiStep /\ UNCHANGED disturbs)

SpiSpec == SpiInit /\ [][SpiNext]_spiVars

\* The hardware of a master shifts what it is given, the interrupt is served,
\* and a call goes on once begun; the other side of a slave does what it likes.
SpiFairSpec ==
    SpiSpec /\ WF_spiVars(hal.master /\ Exchange /\ UNCHANGED disturbs)
         /\ WF_spiVars(Handler /\ UNCHANGED disturbs) /\ WF_spiVars(Waiting /\ UNCHANGED disturbs)

-----------------------------------------------------------------------------
(* Properties *)

\* A master's buffer holds at each place what came back for the character
\* sent from that place, and a slave's holds what it was sent without a gap,
\* until a transfer has been cut short or characters have been lost.
OwnBytes ==
    seen \cap {"cut", "overflow"} = {} =>
        \A i \in 1 .. Len(buf.got) :
            IF hal.master THEN wire[buf.got[i]] = <<buf.n, i>>
                          ELSE i > 1 => buf.got[i] = buf.got[i - 1] + 1

\* A master's driver never reads past the end of the buffer it sends from, nor
\* from that buffer at all once it has told that the transfer is over.  A
\* slave's does both: with a default character set, spi_disable_ints keeps DRE
\* enabled; and characters that were waiting, or that the other side clocked
\* before there was one to send, fill the receive buffer first.
BuffersOwned ==
    [][hal.master /\ irq.at = "dre" /\ buf'.sent > buf.sent => hal.xfer /\ buf.sent < buf.len]_spiVars

\* What hal_spi_tx_val asserts: while no transfer is going on the driver has
\* no job.
FreeIsIdle == ~hal.xfer => mod.status # "BUSY"

\* A transfer is over in the end, and its owner told: not if its callbacks
\* have been lost to hal_spi_config, nor without a buffer to receive into.
XferEnds ==
    /\ hal.xfer /\ hal.master /\ hw.on /\ mod.status = "BUSY" /\ mod.rx /\ mod.calls
        ~> ~hal.xfer \/ ~hw.on \/ "cut" \in seen \/ Len(wire) = MaxWire
    /\ hal.xfer /\ "TXC" \in hw.inten /\ hw.txc /\ hw.on /\ mod.calls
        ~> ~hal.xfer \/ ~hw.on \/ "erased" \in seen
=============================================================================
