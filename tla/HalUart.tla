------------------------------- MODULE HalUart -------------------------------
(***************************************************************************)
(* A serial port of hw/mcu/atmel/samd21xx/src/hal_uart.c, with the USART   *)
(* driver under it (usart_interrupt.c) and, above it, the ring buffer e_tx *)
(* of libs/espduino/src/espduino.c, from which its characters come.        *)
(*                                                                         *)
(* esp_uart_write puts a character into e_tx and calls hal_uart_start_tx;  *)
(* from then on the "transmitted" callback fetches more with RINGBUF_Get   *)
(* until there are none.  The "received" callback hands a character to     *)
(* u_rx_func and starts the next read.                                     *)
(*                                                                         *)
(* There is one task, and its steps are those between which the interrupts *)
(* may come.  Every call of the ring buffer is a step of its own; while    *)
(* the interrupt handler runs (isr) the task does not.                     *)
(***************************************************************************)
EXTENDS RingBuf

CONSTANTS
    TxBufferSize,   \* TX_BUFFER_SIZE
    MaxChars,       \* bound: characters written by esp_uart_write
    MaxBlocking,    \* bound: characters sent by hal_uart_blocking_tx
    MaxRx           \* bound: characters received

\* The characters are numbered, in the order they are written.
ASSUME UartAssumption ==
    /\ TxBufferSize \in Nat \ {0}
    /\ MaxChars \in Nat /\ MaxBlocking \in Nat /\ MaxRx \in Nat
    /\ Byte = 1 .. MaxChars

VARIABLES
    u_open, tx_on, txdata,
    u_cfg, u_funcs, \* hal_uart_init and hal_uart_init_cbs have been called
    pc,         \* the task
    isr,        \* what the interrupt handler is in the middle of
    sz,         \* fill_tx_buf: characters fetched so far
    \* struct usart_module
    callback,   \* USART_CALLBACK_BUFFER_TRANSMITTED is enabled
    tx_ptr, remaining_tx,
    reading,    \* remaining_rx_buffer_length, and the RXC interrupt enabled
    \* the SERCOM
    enabled,    \* it is, and its interrupt too
    dre, txc,   \* the interrupts enabled in INTENSET
    data,       \* the DATA register; None when it is empty
    shift,      \* the character being sent
    done,       \* the TXC flag
    rxbuf,      \* received and not yet read
    err,        \* the error bits of STATUS
    \* history
    queued,     \* characters put into e_tx
    blocked,    \* calls of hal_uart_blocking_tx
    dropped,    \* an interrupt has come while the callback was disabled
    lost,       \* characters overwritten in DATA, or in the SERCOM at a close
    wire,       \* characters of e_tx that have been sent
    arrived,    \* characters received
    got         \* characters given to u_rx_func

port == <<u_open, u_cfg, u_funcs, enabled>>
fetch == <<txdata, sz>>
driver == <<tx_ptr, remaining_tx, dre, txc>>
line == <<data, shift, done, wire, lost>>
rx == <<reading, rxbuf, err, arrived, got>>
block == <<callback, blocked>>
uartVars == <<vars, port, fetch, driver, line, rx, block, tx_on, pc, isr, queued, dropped>>

None == 0
Blocking == MaxChars + 1    \* a character of hal_uart_blocking_tx
TxSlot == 1 .. TxBufferSize
Errors == {"FERR", "BUFOVF", "PERR"}

UartInit ==
    /\ RINGBUF_Init
    /\ u_open = FALSE /\ u_cfg = FALSE /\ u_funcs = FALSE /\ enabled = FALSE
    /\ tx_on = FALSE /\ txdata = [i \in TxSlot |-> None] /\ sz = 0
    /\ tx_ptr = 1 /\ remaining_tx = 0 /\ dre = FALSE /\ txc = FALSE
    /\ data = None /\ shift = None /\ done = FALSE /\ wire = <<>> /\ lost = {}
    /\ pc = "idle" /\ isr = "none" /\ callback = FALSE
    /\ reading = FALSE /\ rxbuf = <<>> /\ err = {} /\ arrived = 0 /\ got = <<>>
    /\ queued = 0 /\ blocked = 0 /\ dropped = FALSE

\* The task runs unless the interrupt handler does.
At(p) == pc = p /\ isr = "none"

\* An interrupt that the SERCOM raises is taken, unless one is being handled.
Taken(flag) == flag /\ enabled /\ isr = "none"

-----------------------------------------------------------------------------
(* Opening and closing *)

hal_uart_init ==
    /\ At("idle") /\ u_cfg' = TRUE
    /\ UNCHANGED <<vars, u_open, u_funcs, enabled, fetch, driver, line, rx, block, tx_on,
                   pc, isr, queued, dropped>>

hal_uart_init_cbs ==
    /\ At("idle") /\ ~u_open /\ u_funcs' = TRUE
    /\ UNCHANGED <<vars, u_open, u_cfg, enabled, fetch, driver, line, rx, block, tx_on,
                   pc, isr, queued, dropped>>

\* With settings the USART has; others are refused and change nothing.  With
\* nine data bits the driver takes two bytes of txdata for a character; that
\* setting is left out.
hal_uart_config ==
    /\ At("idle") /\ ~u_open /\ u_cfg
    /\ u_open' = TRUE /\ enabled' = TRUE
    /\ callback' = TRUE /\ reading' = TRUE
    /\ UNCHANGED <<vars, u_cfg, u_funcs, fetch, driver, line, rxbuf, err, arrived, got,
                   blocked, tx_on, pc, isr, queued, dropped>>

\* u_open stays set.  What is in the SERCOM is lost.
hal_uart_close ==
    /\ At("idle") /\ enabled
    /\ enabled' = FALSE /\ callback' = FALSE
    /\ lost' = lost \cup ({data, shift} \cap Byte)
    /\ data' = None /\ shift' = None
    /\ UNCHANGED <<vars, u_open, u_cfg, u_funcs, fetch, driver, done, wire, rx, blocked,
                   tx_on, pc, isr, queued, dropped>>

Closed == u_open /\ ~enabled

-----------------------------------------------------------------------------
(* Transmission: the task *)

\* esp_uart_write: one attempt of RINGBUF_Put.  A refused one is repeated.
Put ==
    /\ At("idle") \/ At("retry")
    /\ queued < MaxChars
    /\ \/ /\ PutOk(queued + 1)
          /\ queued' = queued + 1 /\ pc' = "start"
       \/ /\ PutFull(queued + 1)
          /\ pc' = "retry" /\ UNCHANGED queued
    /\ UNCHANGED <<port, fetch, driver, line, rx, block, tx_on, isr, dropped>>

\* Mutation of StartTx: a transmission that is going on is not noticed.
StartTxAlways ==
    /\ At("start")
    /\ pc' = IF u_open /\ u_funcs THEN "fill" ELSE "idle"
    /\ sz' = 0
    /\ UNCHANGED <<vars, port, txdata, driver, line, rx, block, tx_on, isr, queued, dropped>>

\* hal_uart_start_tx up to fill_tx_buf: the look at tx_on.
StartTx ==
    /\ At("start")
    /\ pc' = IF u_open /\ ~tx_on /\ u_funcs THEN "fill" ELSE "idle"
    /\ sz' = 0
    /\ UNCHANGED <<vars, port, txdata, driver, line, rx, block, tx_on, isr, queued, dropped>>

\* One turn of fill_tx_buf; more tells whether another follows.
Fetch(more) ==
    /\ sz < TxBufferSize
    /\ \/ /\ GetOk
          /\ txdata' = [txdata EXCEPT ![sz + 1] = buf[p_r]]
          /\ sz' = sz + 1
          /\ more = (sz + 1 < TxBufferSize)
       \/ /\ GetEmpty
          /\ ~more /\ UNCHANGED fetch

Fill ==
    /\ At("fill")
    /\ \E more \in BOOLEAN :
         /\ Fetch(more)
         /\ pc' = CASE more -> "fill" [] ~more /\ sz' > 0 -> "on" [] OTHER -> "idle"
    /\ UNCHANGED <<port, driver, line, rx, block, tx_on, isr, queued, dropped>>

SetOn ==
    /\ At("on")
    /\ tx_on' = TRUE /\ pc' = "job"
    /\ UNCHANGED <<vars, port, fetch, driver, line, rx, block, isr, queued, dropped>>

\* usart_write_buffer_job, which refuses while there is a job.
usart_write_buffer_job(length) ==
    IF remaining_tx > 0
      THEN UNCHANGED driver
      ELSE /\ remaining_tx' = length /\ tx_ptr' = 1 /\ dre' = TRUE
           /\ UNCHANGED txc

WriteJob ==
    /\ At("job")
    /\ usart_write_buffer_job(sz)
    /\ pc' = "idle"
    /\ UNCHANGED <<vars, port, fetch, line, rx, block, tx_on, isr, queued, dropped>>

\* hal_uart_blocking_tx disables the callback,
BlockingTx ==
    /\ At("idle") /\ u_open /\ blocked < MaxBlocking
    /\ blocked' = blocked + 1
    /\ callback' = FALSE /\ pc' = "write"
    /\ UNCHANGED <<vars, port, fetch, driver, line, rx, tx_on, isr, queued, dropped>>

\* calls usart_write_wait, which refuses when a job has characters to send but
\* does not ask whether DATA is empty,
WriteWait ==
    /\ At("write")
    /\ IF remaining_tx > 0
         THEN pc' = "enable" /\ UNCHANGED line
         ELSE /\ data' = IF enabled THEN Blocking ELSE data
              /\ lost' = lost \cup ({data} \cap Byte)
              /\ done' = FALSE /\ pc' = "poll"
              /\ UNCHANGED <<shift, wire>>
    /\ UNCHANGED <<vars, port, fetch, driver, rx, block, tx_on, isr, queued, dropped>>

\* and enables it again when the TXC flag is set.
BlockingEnds ==
    /\ At("enable") \/ (At("poll") /\ done)
    /\ callback' = TRUE /\ pc' = "idle"
    /\ UNCHANGED <<vars, port, fetch, driver, line, rx, blocked, tx_on, isr, queued, dropped>>

-----------------------------------------------------------------------------
(* Transmission: the SERCOM and its interrupts *)

\* A character goes from DATA to the wire.
Load ==
    /\ enabled /\ data # None /\ shift = None
    /\ shift' = data /\ data' = None
    /\ UNCHANGED <<vars, port, fetch, driver, done, wire, lost, rx, block, tx_on, pc, isr,
                   queued, dropped>>

ShiftOut ==
    /\ enabled /\ shift # None
    /\ wire' = IF shift \in Byte THEN Append(wire, shift) ELSE wire
    /\ shift' = None
    /\ done' = (done \/ data = None)
    /\ UNCHANGED <<vars, port, fetch, driver, data, lost, rx, block, tx_on, pc, isr, queued,
                   dropped>>

\* Data register empty: the next character of the job is written; the last one
\* exchanges the interrupt for "transmission complete".
DataEmpty ==
    /\ Taken(dre /\ data = None)
    /\ IF remaining_tx > 0
         THEN /\ data' = txdata[tx_ptr] /\ done' = FALSE
              /\ tx_ptr' = tx_ptr + 1 /\ remaining_tx' = remaining_tx - 1
              /\ dre' = (remaining_tx > 1) /\ txc' = (txc \/ remaining_tx = 1)
         ELSE /\ dre' = FALSE
              /\ UNCHANGED <<data, done, tx_ptr, remaining_tx, txc>>
    /\ UNCHANGED <<vars, port, fetch, shift, wire, lost, rx, block, tx_on, pc, isr, queued,
                   dropped>>

\* Mutation of TxDone: what is queued by now is left to the next start.
TxDoneStops ==
    /\ Taken(txc /\ done)
    /\ txc' = FALSE
    /\ tx_on' = (tx_on /\ ~callback)
    /\ dropped' = (dropped \/ ~callback)
    /\ UNCHANGED <<vars, port, fetch, tx_ptr, remaining_tx, dre, line, rx, block, pc, isr,
                   queued>>

\* Transmission complete: usart_callback_txdone begins, or is left out when
\* the callback is disabled.
TxDone ==
    /\ Taken(txc /\ done)
    /\ txc' = FALSE
    /\ isr' = IF callback THEN "fill" ELSE "none"
    /\ sz' = 0
    /\ dropped' = (dropped \/ ~callback)
    /\ UNCHANGED <<vars, port, txdata, tx_ptr, remaining_tx, dre, line, rx, block, tx_on,
                   pc, queued>>

\* usart_callback_txdone: fill_tx_buf, then the next job or the end.
TxDoneFill ==
    /\ isr = "fill"
    /\ \E more \in BOOLEAN :
         /\ Fetch(more)
         /\ isr' = IF more THEN "fill" ELSE "end"
    /\ UNCHANGED <<port, driver, line, rx, block, tx_on, pc, queued, dropped>>

TxDoneEnd ==
    /\ isr = "end"
    /\ tx_on' = (sz > 0)
    /\ IF sz > 0 THEN usart_write_buffer_job(sz) ELSE UNCHANGED driver
    /\ isr' = "none"
    /\ UNCHANGED <<vars, port, fetch, line, rx, block, pc, queued, dropped>>

-----------------------------------------------------------------------------
(* Reception *)

\* A character arrives, perhaps with an error.  The hardware keeps two; a
\* third is lost and leaves an error.
Arrives ==
    /\ enabled /\ arrived < MaxRx
    /\ arrived' = arrived + 1
    /\ IF Len(rxbuf) < 2
         THEN /\ rxbuf' = Append(rxbuf, arrived + 1)
              /\ \E e \in {{}, {"FERR"}, {"PERR"}} : err' = err \cup e
         ELSE rxbuf' = rxbuf /\ err' = err \cup {"BUFOVF"}
    /\ UNCHANGED <<vars, port, fetch, driver, line, reading, got, block, tx_on, pc, isr,
                   queued, dropped>>

\* An error is cleared, one at a time; the character stays for the next
\* interrupt.
ClearError ==
    err' = CASE "FERR" \in err -> err \ {"FERR"}
             [] "FERR" \notin err /\ "BUFOVF" \in err -> err \ {"BUFOVF"}
             [] OTHER -> {}

\* A read job for one character; refused, with the same result, when there is one.
usart_read_job == reading' = TRUE

\* Mutation of usart_callback_rx: without u_rx_func the next read is not started.
CallbackRxOnce(c) ==
    /\ got' = IF u_funcs THEN Append(got, c) ELSE got
    /\ reading' = u_funcs

usart_callback_rx(c) ==
    /\ got' = IF u_funcs THEN Append(got, c) ELSE got
    /\ usart_read_job

\* Receive complete: the character is read, the read job ends, and the
\* callback starts the next.
RxDone ==
    /\ Taken(reading /\ rxbuf # <<>>)
    /\ IF err # {}
         THEN ClearError /\ UNCHANGED <<rxbuf, got, reading>>
         ELSE /\ rxbuf' = Tail(rxbuf)
              /\ usart_callback_rx(Head(rxbuf))
              /\ UNCHANGED err
    /\ UNCHANGED <<vars, port, fetch, driver, line, arrived, block, tx_on, pc, isr, queued,
                   dropped>>

\* Called by the user of the port at any time.
hal_uart_start_rx ==
    /\ At("idle") /\ u_open
    /\ usart_read_job
    /\ UNCHANGED <<vars, port, fetch, driver, line, rxbuf, err, arrived, got, block, tx_on,
                   pc, isr, queued, dropped>>

-----------------------------------------------------------------------------

Task == StartTx \/ Fill \/ SetOn \/ WriteJob \/ WriteWait \/ BlockingEnds
Retry == pc = "retry" /\ Put
TxInterrupt == DataEmpty \/ TxDone \/ TxDoneFill \/ TxDoneEnd
Opening == hal_uart_init \/ hal_uart_init_cbs \/ hal_uart_config \/ hal_uart_close

UartNext ==
    \/ Opening \/ Put \/ BlockingTx \/ Task \/ Load \/ ShiftOut \/ TxInterrupt
    \/ Arrives \/ RxDone \/ hal_uart_start_rx

UartSpec == UartInit /\ [][UartNext]_uartVars

\* A call goes on once begun, the hardware shifts, and the interrupts come.
FairSpec ==
    /\ UartSpec
    /\ WF_uartVars(Task) /\ WF_uartVars(Retry)
    /\ WF_uartVars(Load) /\ WF_uartVars(ShiftOut)
    /\ WF_uartVars(TxInterrupt) /\ WF_uartVars(RxDone)

-----------------------------------------------------------------------------
(* Properties *)

\* The character in a register, and what the driver has still to write.
InReg(r) == IF r \in Byte THEN <<r>> ELSE <<>>
Job == SubSeq(txdata, tx_ptr, tx_ptr + remaining_tx - 1)

\* What fill_tx_buf has fetched and not yet given to the driver.
Fetching == pc \in {"fill", "on", "job"}
InHand == IF Fetching \/ isr # "none" THEN SubSeq(txdata, 1, sz) ELSE <<>>

\* s is the characters written so far in their order, without those overwritten
\* by hal_uart_blocking_tx or caught by a close.
AllWritten(s) ==
    /\ \A i, j \in 1 .. Len(s) : i < j => s[i] < s[j]
    /\ {s[i] : i \in 1 .. Len(s)} = (1 .. queued) \ lost

\* Where the characters are, from the wire back to e_tx.
Way == wire \o InReg(shift) \o InReg(data) \o Job \o InHand \o Contents

\* Every character written by esp_uart_write is on the wire, in the SERCOM, in
\* txdata or still in e_tx, once and in order; and the task and the
\* interrupt never both fetch, on which the ring buffer relies, since
\* hal_uart_start_tx calls RINGBUF_Get with interrupts enabled.
NothingLost ==
    /\ AllWritten(Way)
    /\ ~(Fetching /\ isr # "none")

\* Every character written to an open port is sent in the end, without another
\* call: the interrupt takes up what was queued while it was on its way.
AllSent ==
    u_open /\ u_funcs /\ pc = "start"
        ~> AllWritten(wire) \/ dropped \/ Closed

\* Every character that arrives is read, so that the next can follow, whatever
\* errors come with it; once the port has been closed none arrives.
AllRead == rxbuf # <<>> ~> rxbuf = <<>> \/ Closed
=============================================================================
