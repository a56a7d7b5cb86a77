------------------------------- MODULE WincHif -------------------------------
(***************************************************************************)
(* The host interface to the WINC1500: libs/winc1500/src/driver/m2m_hif.c  *)
(* with its interrupt pin (winc1500_bsp.c, hal_gpio.c).                    *)
(*                                                                         *)
(* The chip posts a message by setting bit 0 of WIFI_HOST_RCV_CTRL_0 and   *)
(* pulling the interrupt pin down.  The ISR counts it; the Wi-Fi task,     *)
(* with the interface mutex, clears the bit, reads the message and sets    *)
(* "RX done", after which the chip may post again.  A packet is sent in    *)
(* the other direction through a buffer the chip is asked for.  The        *)
(* application sends with the mutex, the poll of the sockets without.      *)
(* A step is one access to the chip; an access may fail.                   *)
(***************************************************************************)
EXTENDS Integers, Sequences, FiniteSets, SequencesExt

CONSTANTS
    PowerSave,  \* gu8ChipMode is M2M_PS_DEEP_AUTOMATIC or M2M_PS_MANUAL
    Polls,      \* a socket is open, so that the Wi-Fi task's poll sends
    OtherPins,  \* other pins of the MCU interrupt too
    MaxMsgs,    \* bound: messages the chip posts
    MaxSends,   \* bound: calls of hif_send
    MaxFails    \* bound: accesses that fail

ASSUME HifAssumption ==
    /\ PowerSave \in BOOLEAN /\ Polls \in BOOLEAN /\ OtherPins \in BOOLEAN
    /\ MaxMsgs \in Nat /\ MaxSends \in Nat /\ MaxFails \in Nat

Tasks == {"wifi", "app"}
Nobody == "nobody"

VARIABLES
    gu8Interrupt, gu8ChipSleep, gu8HifSizeDone, gu8FlowCtrl,
    pc,         \* what each task does next
    dec,        \* gu8Interrupt as the decrement has loaded it
    wi_mtx,     \* who holds the interface mutex
    sending,    \* the packet each task sends, 0 for none
    dma_addr,   \* hif_send's local
    back,       \* where a task goes on after hif_send
    \* the pin
    irqOn, detected,
    \* the chip
    posted,     \* bit 0 of WIFI_HOST_RCV_CTRL_0
    busy,       \* the host has not set RX done
    awake,
    request,    \* bit 1 of WIFI_HOST_RCV_CTRL_2
    buffer,     \* register 0x150400
    mem,        \* the packet in each buffer
    given,      \* buffers handed to the chip
    \* history
    msgs, sends, fails, allocs,
    leaked,     \* uses of the chip left counted by a call that has failed
    received,   \* messages given to a callback
    taken,      \* packets the chip has taken
    returned,   \* packets hif_send has reported as sent
    overlap     \* two tasks have been in hif_send at once

hif == <<gu8Interrupt, gu8ChipSleep, gu8HifSizeDone, gu8FlowCtrl>>
tasks == <<pc, dec, wi_mtx, sending, dma_addr, back>>
pin == <<irqOn, detected>>
chip == <<posted, busy, awake, request, buffer, mem, given>>
history == <<msgs, sends, allocs, received, taken, returned, overlap>>
failures == <<fails, leaked>>
vars == <<hif, tasks, pin, chip, failures, history>>

Init ==
    /\ gu8Interrupt = 0 /\ gu8ChipSleep = 0 /\ gu8HifSizeDone = FALSE
    /\ gu8FlowCtrl = FALSE
    /\ pc = [t \in Tasks |-> "idle"] /\ dec = 0 /\ wi_mtx = Nobody
    /\ sending = [t \in Tasks |-> 0] /\ dma_addr = [t \in Tasks |-> 0]
    /\ back = [t \in Tasks |-> "idle"]
    /\ irqOn = TRUE /\ detected = FALSE
    /\ posted = FALSE /\ busy = FALSE /\ awake = ~PowerSave /\ request = FALSE
    /\ buffer = 0 /\ mem = [a \in 1 .. MaxSends |-> 0] /\ given = {}
    /\ msgs = 0 /\ sends = 0 /\ fails = 0 /\ allocs = 0 /\ leaked = 0
    /\ received = <<>> /\ taken = <<>> /\ returned = {} /\ overlap = FALSE

-----------------------------------------------------------------------------

Goto(t, from, to) == pc[t] = from /\ pc' = [pc EXCEPT ![t] = to]

\* An access to the chip fails, and leaves as many uses of it counted.
Fails(uses) == fails < MaxFails /\ fails' = fails + 1 /\ leaked' = leaked + uses

(* hif_chip_wake and hif_chip_sleep, in two steps each *)

\* The chip is woken if nobody uses it.
Wake(t, from, to) ==
    /\ Goto(t, from, to)
    /\ awake' = (awake \/ gu8ChipSleep = 0)
    /\ UNCHANGED <<hif, dec, wi_mtx, sending, dma_addr, back, pin, posted, busy,
                   request, buffer, mem, given, failures, history>>

WakeCounted(t, from, to) ==
    /\ Goto(t, from, to)
    /\ gu8ChipSleep' = (gu8ChipSleep + 1) % 256
    /\ UNCHANGED <<gu8Interrupt, gu8HifSizeDone, gu8FlowCtrl, dec, wi_mtx, sending, dma_addr, back,
                   pin, chip, failures, history>>

\* Mutation of SleepCounted: the first call in a nest puts the chip to sleep.
SleepCountedOne(t, from, to) ==
    /\ Goto(t, from, to)
    /\ gu8ChipSleep' = 0
    /\ UNCHANGED <<gu8Interrupt, gu8HifSizeDone, gu8FlowCtrl, dec, wi_mtx, sending, dma_addr, back,
                   pin, chip, failures, history>>

SleepCounted(t, from, to) ==
    /\ Goto(t, from, to)
    /\ gu8ChipSleep' = IF gu8ChipSleep >= 1 THEN gu8ChipSleep - 1 ELSE gu8ChipSleep
    /\ UNCHANGED <<gu8Interrupt, gu8HifSizeDone, gu8FlowCtrl, dec, wi_mtx, sending, dma_addr, back,
                   pin, chip, failures, history>>

\* The chip may sleep if nobody uses it; what the caller does with it is in to.
MaySleep(t, from, to) ==
    /\ Goto(t, from, to)
    /\ awake' = (awake /\ ~(PowerSave /\ gu8ChipSleep = 0))
    /\ UNCHANGED <<hif, dec, wi_mtx, sending, dma_addr, back, pin, posted, busy,
                   request, buffer, mem, given, failures>>

-----------------------------------------------------------------------------
(* The interrupt: hal_gpio_irq and isr *)

\* Mutation of Isr: the interrupt is not counted.
IsrUncounted ==
    /\ detected /\ (irqOn \/ OtherPins)
    /\ detected' = FALSE /\ irqOn' = FALSE
    /\ UNCHANGED <<hif, tasks, chip, failures, history>>

\* hal_gpio_irq looks at every channel that has detected an edge, also one
\* whose interrupt is disabled when another pin has brought it here.
Isr ==
    /\ detected /\ (irqOn \/ OtherPins)
    /\ detected' = FALSE
    /\ gu8Interrupt' = (gu8Interrupt + 1) % 256
    /\ irqOn' = FALSE
    /\ UNCHANGED <<gu8ChipSleep, gu8HifSizeDone, gu8FlowCtrl, tasks, chip, failures, history>>

-----------------------------------------------------------------------------
(* winc1500_events: hif_handle_isr with the mutex, then the poll *)

Events ==
    /\ wi_mtx = Nobody /\ wi_mtx' = "wifi"
    /\ Goto("wifi", "idle", "loop")
    /\ UNCHANGED <<hif, dec, sending, dma_addr, back, pin, chip, failures, history>>

\* gu8Interrupt--, which the compiler makes a load and a store.
LoopLoads ==
    /\ gu8Interrupt > 0 /\ ~gu8FlowCtrl
    /\ Goto("wifi", "loop", "store")
    /\ dec' = gu8Interrupt
    /\ UNCHANGED <<hif, wi_mtx, sending, dma_addr, back, pin, chip, failures, history>>

LoopStores ==
    /\ Goto("wifi", "store", "wake")
    /\ gu8Interrupt' = dec - 1
    /\ dec' = 0
    /\ UNCHANGED <<gu8ChipSleep, gu8HifSizeDone, gu8FlowCtrl, wi_mtx, sending, dma_addr, back, pin,
                   chip, failures, history>>

InSend(t) == pc[t] \in {"s_wake", "s_waken", "s_ask", "s_wait", "s_write", "s_give",
                        "s_sleep", "s_asleep"}

\* A packet of task t: hif_send is entered, to come back to where.
StartsSend(t, where) ==
    /\ sends < MaxSends
    /\ sends' = sends + 1
    /\ sending' = [sending EXCEPT ![t] = sends + 1]
    /\ back' = [back EXCEPT ![t] = where]
    /\ overlap' = (overlap \/ \E u \in Tasks \ {t} : InSend(u))

\* Nothing left, or no buffers: the mutex is released, and the sockets are
\* polled, which asks for buffers again if they were missing.
LoopEnds ==
    /\ gu8Interrupt = 0 \/ gu8FlowCtrl
    /\ wi_mtx' = Nobody
    /\ \/ Goto("wifi", "loop", "idle") /\ gu8FlowCtrl' \in BOOLEAN
          /\ UNCHANGED <<sends, sending, back, overlap>>
       \/ /\ Polls /\ Goto("wifi", "loop", "s_wake") /\ gu8FlowCtrl' = FALSE
          /\ StartsSend("wifi", "idle")
    /\ UNCHANGED <<gu8Interrupt, gu8ChipSleep, gu8HifSizeDone, dec, dma_addr, pin, chip,
                   failures, msgs, allocs, received, taken, returned>>

\* The application, in a call that sends, with the mutex.
AppSends ==
    /\ wi_mtx = Nobody /\ wi_mtx' = "app"
    /\ Goto("app", "idle", "s_wake") /\ StartsSend("app", "release")
    /\ UNCHANGED <<hif, dec, dma_addr, pin, chip, failures, msgs, allocs, received, taken,
                   returned>>

AppReleases ==
    /\ Goto("app", "release", "idle") /\ wi_mtx' = Nobody
    /\ UNCHANGED <<hif, dec, sending, dma_addr, back, pin, chip, failures, history>>

-----------------------------------------------------------------------------
(* hif_isr; after an error hif_handle_isr calls it again *)

\* Bit 0 is set, and is cleared next; or this was no interrupt.
IsrReads ==
    /\ \/ posted /\ Goto("wifi", "ctrl0", "clear") /\ irqOn' = FALSE
       \/ ~posted /\ Goto("wifi", "ctrl0", "sleep") /\ UNCHANGED irqOn
    /\ UNCHANGED <<hif, dec, wi_mtx, sending, dma_addr, back, detected, chip, failures, history>>

\* Mutation of IsrClears: the bit stays set.
IsrClearsNot ==
    /\ Goto("wifi", "clear", "header")
    /\ gu8HifSizeDone' = FALSE
    /\ UNCHANGED <<gu8Interrupt, gu8ChipSleep, gu8FlowCtrl, dec, wi_mtx, sending, dma_addr,
                   back, pin, chip, failures, history>>

IsrClears ==
    /\ Goto("wifi", "clear", "header")
    /\ posted' = FALSE /\ gu8HifSizeDone' = FALSE
    /\ UNCHANGED <<gu8Interrupt, gu8ChipSleep, gu8FlowCtrl, dec, wi_mtx, sending, dma_addr, back, pin,
                   busy, awake, request, buffer, mem, given, failures, history>>

\* The address and the header are read, and the callback of the group runs.
IsrHeader ==
    /\ Goto("wifi", "header", "receive")
    /\ UNCHANGED <<hif, dec, wi_mtx, sending, dma_addr, back, pin, chip, failures, history>>

\* hif_receive takes the payload and goes on to set RX done; a callback that
\* is not registered, or does not read, leaves that to hif_isr.
Receive ==
    /\ \/ Goto("wifi", "receive", "rx_done") /\ gu8HifSizeDone' = TRUE
          /\ received' = Append(received, msgs)
       \/ Goto("wifi", "receive", "callback") /\ UNCHANGED <<gu8HifSizeDone, received>>
    /\ UNCHANGED <<gu8Interrupt, gu8ChipSleep, gu8FlowCtrl, dec, wi_mtx, sending, dma_addr, back, pin,
                   chip, failures, msgs, sends, allocs, taken, returned, overlap>>

\* Mutation of SetRxDone: the interrupt stays disabled.
SetRxDoneOnly(from, on, to) ==
    /\ Goto("wifi", from, to)
    /\ busy' = FALSE
    /\ UNCHANGED <<hif, dec, wi_mtx, sending, dma_addr, back, pin, posted, awake,
                   request, buffer, mem, given, failures, history>>

\* hif_set_rx_done: the chip may post at once, and only then
SetRxDone(from, on, to) ==
    /\ Goto("wifi", from, on)
    /\ busy' = FALSE
    /\ UNCHANGED <<hif, dec, wi_mtx, sending, dma_addr, back, pin, posted, awake,
                   request, buffer, mem, given, failures, history>>

\* is the interrupt enabled.
IrqOn(on, to) ==
    /\ Goto("wifi", on, to)
    /\ irqOn' = TRUE
    /\ UNCHANGED <<hif, dec, wi_mtx, sending, dma_addr, back, detected, chip, failures, history>>

\* A callback may send, before or after RX done is set.
CallbackSends ==
    /\ \E p \in {"receive", "callback"} :
          Goto("wifi", p, "s_wake") /\ StartsSend("wifi", p)
    /\ UNCHANGED <<hif, dec, wi_mtx, dma_addr, pin, chip, failures, msgs, allocs, received,
                   taken, returned>>

\* hif_isr sets RX done for a callback that did not.  The callback may have
\* set the flow control.
CallbackReturns ==
    /\ \/ gu8HifSizeDone /\ Goto("wifi", "callback", "sleep")
       \/ ~gu8HifSizeDone /\ Goto("wifi", "callback", "rx_late")
    /\ gu8FlowCtrl' \in BOOLEAN
    /\ UNCHANGED <<gu8Interrupt, gu8ChipSleep, gu8HifSizeDone, dec, wi_mtx, sending,
                   dma_addr, back, pin, chip, failures, history>>

\* The accesses that wake the chip, or let it sleep, are not always made.
SleepAccess == PowerSave /\ gu8ChipSleep = 0

\* An access fails in hif_isr: hif_handle_isr calls it again.  The header's
\* errors enable the interrupt, the others do not; between wake and sleep the
\* use of the chip stays counted.
IsrFails ==
    /\ \/ \E p \in {"ctrl0", "clear"} : Goto("wifi", p, "wake") /\ Fails(1) /\ UNCHANGED irqOn
       \/ Goto("wifi", "header", "wake") /\ Fails(1) /\ irqOn' = TRUE
       \/ /\ SleepAccess /\ Fails(0) /\ UNCHANGED irqOn
          /\ \E p \in {"wake", "asleep"} : Goto("wifi", p, "wake")
    /\ UNCHANGED <<hif, dec, wi_mtx, sending, dma_addr, back, detected, chip, history>>

\* RX done is not set, and the interrupt stays disabled.  hif_receive tells
\* the callback, which has nothing to do about it; hif_isr drops the error.
RxDoneFails ==
    /\ Fails(0)
    /\ Goto("wifi", "rx_done", "callback") \/ Goto("wifi", "rx_late", "sleep")
    /\ UNCHANGED <<hif, dec, wi_mtx, sending, dma_addr, back, pin, chip, history>>

IsrStep ==
    \/ Wake("wifi", "wake", "waken") \/ WakeCounted("wifi", "waken", "ctrl0")
    \/ IsrReads \/ IsrClears \/ IsrHeader \/ Receive
    \/ SetRxDone("rx_done", "irq_on", "callback") \/ IrqOn("irq_on", "callback")
    \/ SetRxDone("rx_late", "irq_late", "sleep") \/ IrqOn("irq_late", "sleep")
    \/ CallbackSends \/ CallbackReturns
    \/ SleepCounted("wifi", "sleep", "asleep")
    \/ MaySleep("wifi", "asleep", "loop") /\ UNCHANGED history

-----------------------------------------------------------------------------
(* hif_send *)

\* NMI_STATE_REG and WIFI_HOST_RCV_CTRL_2: ask for a buffer.
SendAsks(t) ==
    /\ Goto(t, "s_ask", "s_wait")
    /\ request' = TRUE
    /\ UNCHANGED <<hif, dec, wi_mtx, sending, dma_addr, back, pin, posted, busy, awake,
                   buffer, mem, given, failures, history>>

\* The request has been dealt with: the address of the buffer, if not 0.
SendAddress(t) ==
    /\ ~request /\ buffer # 0
    /\ Goto(t, "s_wait", "s_write")
    /\ dma_addr' = [dma_addr EXCEPT ![t] = buffer]
    /\ UNCHANGED <<hif, dec, wi_mtx, sending, back, pin, chip, failures, history>>

\* The buffer is written.
SendWrites(t) ==
    /\ Goto(t, "s_write", "s_give")
    /\ mem' = [mem EXCEPT ![dma_addr[t]] = sending[t]]
    /\ UNCHANGED <<hif, dec, wi_mtx, sending, dma_addr, back, pin, posted, busy, awake,
                   request, buffer, given, failures, history>>

\* Mutation of SendGives: the buffer is given to the chip without its address.
SendGivesFirst(t) ==
    /\ Goto(t, "s_give", "s_sleep")
    /\ given' = given \cup {1}
    /\ UNCHANGED <<hif, dec, wi_mtx, sending, dma_addr, back, pin, posted, busy, awake,
                   request, buffer, mem, failures, history>>

\* WIFI_HOST_RCV_CTRL_3: the buffer is the chip's.
SendGives(t) ==
    /\ Goto(t, "s_give", "s_sleep")
    /\ given' = given \cup {dma_addr[t]}
    /\ UNCHANGED <<hif, dec, wi_mtx, sending, dma_addr, back, pin, posted, busy, awake,
                   request, buffer, mem, failures, history>>

\* hif_chip_sleep, then the return.
SendReturns(t) ==
    /\ MaySleep(t, "s_asleep", back[t])
    /\ returned' = returned \cup {sending[t]}
    /\ UNCHANGED <<msgs, sends, allocs, received, taken, overlap>>

\* No buffer: the chip had none, or is not done after 1000 looks.  The use of
\* the chip stays counted.
SendNoBuffer(t) ==
    /\ request \/ buffer = 0
    /\ Goto(t, "s_wait", back[t])
    /\ leaked' = leaked + 1
    /\ UNCHANGED <<hif, dec, wi_mtx, sending, dma_addr, back, pin, chip, fails, history>>

\* An access fails.
SendFails(t) ==
    /\ \/ Fails(1) /\ \E p \in {"s_ask", "s_wait", "s_write", "s_give"} : Goto(t, p, back[t])
       \/ /\ Fails(0) /\ SleepAccess
          /\ \E p \in {"s_wake", "s_asleep"} : Goto(t, p, back[t])
    /\ UNCHANGED <<hif, dec, wi_mtx, sending, dma_addr, back, pin, chip, history>>

SendStep(t) ==
    \/ Wake(t, "s_wake", "s_waken") \/ WakeCounted(t, "s_waken", "s_ask")
    \/ SendAsks(t) \/ SendAddress(t) \/ SendWrites(t) \/ SendGives(t)
    \/ SleepCounted(t, "s_sleep", "s_asleep") \/ SendReturns(t) \/ SendNoBuffer(t)

-----------------------------------------------------------------------------
(* The chip *)

\* A message: bit 0 is set, and the pin falls.
ChipPosts ==
    /\ ~busy /\ msgs < MaxMsgs
    /\ busy' = TRUE /\ posted' = TRUE /\ detected' = TRUE
    /\ msgs' = msgs + 1
    /\ UNCHANGED <<hif, tasks, irqOn, awake, request, buffer, mem, given, failures, sends,
                   allocs, received, taken, returned, overlap>>

\* The request for a buffer: a new one, or none.
ChipAllocates ==
    /\ request
    /\ request' = FALSE
    /\ \/ allocs < MaxSends /\ allocs' = allocs + 1 /\ buffer' = allocs + 1
       \/ buffer' = 0 /\ UNCHANGED allocs
    /\ UNCHANGED <<hif, tasks, pin, posted, busy, awake, mem, given, failures, msgs, sends,
                   received, taken, returned, overlap>>

ChipTakes ==
    /\ \E a \in given : given' = given \ {a} /\ taken' = Append(taken, mem[a])
    /\ UNCHANGED <<hif, tasks, pin, posted, busy, awake, request, buffer, mem, failures,
                   msgs, sends, allocs, received, returned, overlap>>

-----------------------------------------------------------------------------

WifiStep == Events \/ LoopLoads \/ LoopStores \/ LoopEnds \/ IsrStep \/ SendStep("wifi")
AppStep == AppReleases \/ SendStep("app")
ChipStep == ChipPosts \/ ChipAllocates \/ ChipTakes
Failure == IsrFails \/ RxDoneFails \/ \E t \in Tasks : SendFails(t)

Next == Isr \/ WifiStep \/ AppSends \/ AppStep \/ ChipStep \/ Failure

Spec == Init /\ [][Next]_vars

\* The timer keeps running winc1500_events, a call goes on once begun, and an
\* enabled interrupt is taken.  The mutex is handed on fairly, and the pool of
\* buffers is not empty at every poll.  Nothing makes another pin interrupt.
FairSpec ==
    /\ Spec
    /\ SF_vars(Events) /\ WF_vars(WifiStep) /\ WF_vars(AppStep)
    /\ WF_vars(irqOn /\ Isr) /\ SF_vars(LoopEnds /\ ~gu8FlowCtrl')

-----------------------------------------------------------------------------
(* Properties *)

\* No interrupt is lost: while a message waits its edge is still latched, or
\* counted, or the task is on its way to look.  The decrement is a load and a
\* store, and may lose an interrupt that comes in between: the task has still
\* to read the register then.  The count has eight bits, and each failing access
\* may leave one too many in it.
NoLostInterrupt ==
    posted /\ fails < 255 =>
              \/ detected \/ gu8Interrupt > 0
              \/ pc["wifi"] \in {"wake", "waken", "ctrl0", "clear"}

\* Messages reach the callbacks in the order they were posted, each at most
\* once, however often hif_isr is tried again.
InOrder == \A i, j \in 1 .. Len(received) : i < j => received[i] < received[j]

\* The chip is awake whenever the host accesses it: a hif_send inside a
\* callback does not put it to sleep under hif_isr.  Without the mutex a task
\* may wake the chip between the other's last count and its sleep; and calls
\* that failed may have left so many uses that the eight-bit count wraps.
AwakeWhenUsed ==
    ~overlap /\ leaked < 254 => \A t \in Tasks :
        pc[t] \in {"ctrl0", "clear", "header", "receive", "rx_done", "rx_late",
                   "callback", "s_ask", "s_wait", "s_write", "s_give"} => awake

\* hif_send reports a packet as sent only if the chip has got it or has its
\* buffer, and the chip gets no packet twice, as long as no two tasks are in
\* hif_send at once: with the mutex they never are.
SentIsSent ==
    ~overlap => /\ \A p \in returned : p \in ToSet(taken) \cup {mem[a] : a \in given}
                /\ IsInjective(taken)

\* Every message the chip posts is dealt with, so that it can post the next,
\* unless an access to the chip fails.
EveryMessageEnds == busy ~> ~busy \/ fails > 0
=============================================================================
