# TLA+ models of the Mynewt support for Arduino Zero / MKR1000

The repository holds the Apache Mynewt port for two SAMD21 boards: the
hardware abstraction layer (HAL) of the microcontroller, two network libraries
(the WINC1500 Wi-Fi chip of the MKR1000, and an ESP8266 behind a serial line),
the board packages and a few applications. This directory keeps TLA+ models of
its own logic, the TLC configurations that check them and TLAPS proofs.
`PROJECT.json` lists runs, mutants, the lines each definition stands for, the
hazards and the theorems.

## 1. Inventory

| part | source | state | operations | what is hard | what makes it correct |
|------|--------|-------|------------|--------------|-----------------------|
| hardware timers | `hw/mcu/atmel/samd21xx/src/hal_timer.c` | a 16-bit counter extended by `tmr_cntr`, a compare register, a sorted queue | init, config, start, start_at, stop, read, delay, the interrupt | the counter runs on inside critical sections; reader and interrupt both count overflows; a compare value set too late is never matched | time is kept, no wake-up is lost, nothing fires early |
| UART | `hal_uart.c`, `sam0/drivers/sercom/usart` | `tx_on`, an eight-byte transmit buffer, the jobs of the driver, the DATA register | init, init_cbs, config, close, start_tx, start_rx, blocking_tx, the interrupt with its two callbacks | characters queued while the interrupt is on its way; callbacks that are disabled; reception errors | every character once and in order |
| SPI | `hal_spi.c`, `sam0/drivers/sercom/spi` | configured / enabled / transferring flags, the driver's job and callbacks | config, enable, disable, set_txrx_cb, txrx, nonblocking txrx, tx_val, abort, the interrupt | a callback that starts the next transfer inside the handler; a slave whose master does what it likes | bytes come back to their places, buffers are left alone after the end, every transfer ends |
| GPIO | `hal_gpio.c`, `sam0/drivers/extint` | sixteen external interrupt channels, two CONFIG registers | init, irq_init, irq_enable, irq_disable, irq_release, the interrupt | pins that share a channel, channels that share a register, one handler for all | an interrupt reaches its own handler, none is lost |
| flash | `hal_flash.c`, `sam0/drivers/nvm` | pages of the NVM, one page buffer | read, write, erase_sector | a write that stops part way or is cut off by a reset | bytes outside the range keep their value |
| watchdog | `hal_watchdog.c`, `sam0/drivers/wdt` | the period | init, enable, tickle | 32-bit arithmetic, a refused init | the time accepted is the time given |
| I2C | `hal_i2c.c` | none of its own | read, write, probe | - | - |
| ring buffer | `libs/espduino/src/ringbuf.c` | array, two pointers, a count | Put, Get | wrap, full against empty | a bounded FIFO queue |
| espduino requests | `libs/espduino/src/espduino.c`, `rest.c` | two ring buffers, the frame being parsed, the command waited for | request, wait, process, the REST calls | late answers, lost bytes, full buffers, deadlines around the clock's wrap | a call gets its own answer, and returns |
| espduino framing, CRC | `espduino.c`, `crc16.c` | buffer and escape flag of the parser | write, parse, check | noise, damage, overlong frames | what is sent arrives or is refused |
| WINC1500 host interface | `libs/winc1500/src/driver/m2m_hif.c`, `winc1500_bsp.c` | interrupt count, wake-up count, receive window | send, receive, the interrupt, sleep | an edge-triggered pin, two tasks, nested sends, failing accesses | no interrupt or message is lost |
| WINC1500 sockets, receiving | `winc1500_socket.c`, `socket/socket.c` | sessions, one poll at a time, mbuf chains | poll, replies, close, recvfrom | replies to a socket that is gone, an empty mbuf pool | data reaches its socket, whole |
| WINC1500 sockets, waiting calls | same | a semaphore, `ws_waiting`, `ws_err` | bind, listen | time-outs racing replies | a call returns its own answer |
| WINC1500 sockets, sending | same | `ws_tx` | sendto, send events | a chain kept after an error | each byte once, ownership of the chain |
| WINC1500 Wi-Fi | `winc1500.c` | link state, address | start, stop, connect, scan | decided by the external `wifi_mgmt` | every request is reported once |
| applications, board packages, ASF, CMSIS | `apps`, `hw/bsp`, `hw/mcu/.../sam0` | - | - | thin or vendored | - |

Interactions: `espduino.c` moves bytes between its ring buffers and the UART
HAL through callbacks, in interrupt context or from `hal_uart_start_tx`; the
watchdog may reset the processor in the middle of a flash write. The WINC1500's interrupt pin comes
through `hal_gpio.c` and only counts; the Wi-Fi task then handles messages in
`winc1500_events` with the interface mutex, and starts socket polls after it has
released it. Applications call the sockets from tasks of their own and share the
mutex; `winc1500_sock_wait` gives it away while it waits.

## 2. Modules

| module | models | state and grain |
|--------|--------|-----------------|
| `HalTimer` (+ `HalTimerMC`, `HalTimerProofs`) | `hal_timer.c` | One step is one register access or one assignment outside a critical section's reach; the hardware counter may tick between any two. Two contexts, the task and the interrupt. Ghost variables: `now` (time since the start), `seen` (the time of a sample or the goal of a delay), `due` (ticks left of each timer), `lag` (ticks since the CPU last rested). A callback makes at most one call, for any timer: `contested` records one that starts the timer the task is in the middle of starting. The task is one: a second one that used the timers would meet the same window. |
| `RingBuf`, `BoundedFifo` (+ `HalUartProofs`) | `ringbuf.c` | Each call is one step. `BoundedFifo` is the abstract queue; `RingBuf` refines it through `Contents`. |
| `Espduino` (+ `EspduinoProofs`) | `espduino.c`, `rest.c` | A frame is three tokens (start, body, end), so that a marker or a body can be lost alone; both ring buffers are bounded queues of tokens; `left` is the 32-bit `end - os_time_get()`. The UART callbacks, the ESP8266, the line and the clock run beside the one task. |
| `EspSlip`, `Crc16` (+ `EspSlipMC`, `EspduinoProofs`) | framing and checksum | Byte by byte: sender, line (stray bytes before a frame, damage to two neighbouring bytes), parser, and the check that walks `argc` and the lengths of the frame as they arrived (`WalkEnd`). `Crc16` computes the checksum with the code's shifts and by its definition; it is a constant of `EspSlip`, which `EspSlipMC` gives its value. |
| `WincHif` (+ `WincHifProofs`) | `m2m_hif.c`, the pin in `winc1500_bsp.c` | One step is one access to the chip. Two tasks, the ISR, the latched edge of the pin and the chip. `gu8Interrupt--` is a load and a store. Callbacks send (nested `hif_send`). |
| `WincSocketRx` (+ `WincSocketRxProofs`) | receiving in `winc1500_socket.c`, `socket.c` | A reply with all it causes is one step (it is handled with the mutex held); a poll is two, since it runs without. mbuf chains have an identity and contents. |
| `WincSocket` | `struct winc1500_sock`, `winc1500_sock_create`, `_close` | What the next two EXTEND: the type of a table entry and how often it has been used, with what create and close do to them. |
| `WincSocketSync` (+ `WincSocketProofs`) | `winc1500_sock_wait`, `_wake`, bind, listen | One socket and its task; the window between the time-out and getting the mutex back is a state of its own. |
| `WincSocketTx` (+ `WincSocketProofs`) | sending in `winc1500_socket.c`, `socket.c` | One socket, several tasks in `sendto`, the Wi-Fi task that goes on sending at an event, close and create. An mbuf is a call and a place in its chain; the chip has some buffers, and refuses when they are taken. The tests of `ws_tx` and `ws_type` made without the mutex are steps of their own. |
| `HalUart` (+ `HalUartProofs`) | `hal_uart.c`, the USART driver, `esp_uart_write` | EXTENDS `RingBuf`: `e_tx` is the queue the characters come from. The task's steps are those between which an interrupt may come, and every call of the ring buffer is a step, in the task and in the handler. DATA and the shift register are apart. |
| `HalSpi` (+ `HalPortProofs`) | `hal_spi.c`, the SPI driver | Master and slave; the branches of the interrupt handler are steps, with the flags read at its entry, since the user's callback runs in the middle. |
| `HalGpio` (+ `HalPortProofs`) | `hal_gpio.c`, the EXTINT driver | Tasks call without a lock, one step per access to `hal_gpio_irqs` or a register; CONFIG is read and written back. |
| `HalFlash`, `HalWatchdog` (+ `HalFlashProofs`) | `hal_flash.c`, `hal_watchdog.c`, the NVM and WDT drivers | `HalFlash` EXTENDS `HalWatchdog`, whose expiry resets it. A byte is the set of its programmed bits. One step per test of the controller, store to `ADDR` or to the page buffer, and command; the controller programs on its own. |

Operators named after a C function model it whole. A definition "Mutation of X"
is a plausible slip in X; it is not used by any specification and is there to
show that a property notices it.

External and modelled from use: the counter, the interrupt controller, the
SERCOM, the EIC and the NVM controller, the ESP8266 and the line, the firmware of
the WINC1500, the mbuf pool, the mutex and the semaphore of the operating
system.

## 3. Runs

| run | what it checks | bounds, and why they are enough |
|-----|----------------|---------------------------------|
| `timer_queue` | `Sorted`, `NoLostWakeup`, `NeverLate`, `NeverEarly` | two timers, started by the task and by callbacks, each of which may start either timer; a counter of 3 and 6 epochs, so the 32-bit time wraps again and again (no bound on the length of a behaviour); delays within and beyond an epoch. Behaviours end where a timer has been started twice at once (`contested`), after which the properties say nothing |
| `timer_time` | `TimeKept`, `ReadIsTime`, `DelayWaits`, `WaitsEnd` | one timer with start_at (past expiries too), read and delay, restarted by its callback |
| `espduino` | `AnswerIsOwn`, `TakenOnce`, `ResponseIntact`, `CallsReturn` | three requests (a late answer, its successor and one more), one lost or damaged token, `e_tx` smaller than a frame, `e_rx` of one frame |
| `esp_slip` | `RoundTrip`, `DamageShows`, `CrcIsRemainder` | frames of up to seven bytes (a header of three, then arguments of no, one or two bytes, out of the markers, an escape and the extremes), a buffer one byte short of the longest frame with its checksum, one stray byte, damage of four kinds to a byte and of five to the next |
| `winc_rx` | `RightOwner`, `DataIntact`, `OneRequest`, `EachPolled` | two sockets, three creations (so a number is reused beside another socket), two chains (so the pool runs out), three data replies of one or two pieces, any request that cannot be sent and any reply, or piece of one, that cannot be read |
| `winc_hif` | `NoLostInterrupt`, `InOrder`, `AwakeWhenUsed`, `SentIsSent`, `EveryMessageEnds` | two messages, two sends by either task or by a callback, one failing access anywhere, power save on |
| `winc_sync` | `OwnAnswer`, `EveryCallReturns` | three calls on up to three uses of a socket |
| `winc_tx` | `InOrderOnce`, `SentInTheEnd` | two tasks, two chains of up to two mbufs, a chip with one buffer (so that it is full at once), two uses of the socket, stream or datagram |
| `hal_uart` | `NothingLost`, `AllSent`, `AllRead`, refinement `ImplementsFifo` | five characters through a ring of two and a buffer of two (the ring fills and wraps twice, a job is refilled by the interrupt), one blocking character, three received (so that one overflows), every order of opening and closing |
| `hal_spi` | `OwnBytes`, `FreeIsIdle`, `BuffersOwned`, `XferEnds` | two transfers of up to two characters (the second started by the callback or by the task), three characters on the line, one call that aborts, disables or sets a default |
| `hal_gpio` | `HeldUntilReleased`, `NoLostEdge` | two tasks, five calls, three pins: two that share a channel, two whose channels share a CONFIG register |
| `hal_flash` | `FlashKept`, `WatchdogAsAsked` | two tasks, two sectors of two rows of one two-byte page, writes of up to three bytes (across a page), three calls, one reset; behaviours end where two tasks have clashed, after which `FlashKept` says nothing. Watchdog times around the bounds of the periods and of the 32-bit product |

Runs with `CHECK_DEADLOCK FALSE` are those whose bounded environment may stop
(no more calls, no more noise); the timers never stop and are checked for
deadlock.

### Where the code does other than it says

Four cases in which the code disagrees with a comment of its own. Each is in
the models; the first three are exceptions the properties name (next section):

* `m2m_hif.c:311` says that `hif_send` "shall return ZERO for successful
  operation". `winc1500_events` calls `winc1500_socket_poll` after it has
  released the mutex, so its `hif_send` can run inside another task's. Both
  read the same buffer address from the chip; one packet overwrites the other
  and both calls return zero (`overlap`).
* `winc1500_socket.c:174` says that synchronous calls "wait for response". After
  a time-out `ws_waiting` stays set until the task has the mutex back. A reply in
  between leaves a token in the semaphore, and the next bind or listen returns at
  once with the old answer (`disturbed`).
* `hal_uart.c:135` says of `tx_on` "we are already transmitting". While
  `hal_uart_blocking_tx` has the callback disabled the driver drops the interrupt
  that ends a job; `tx_on` stays set and `hal_uart_start_tx` returns early from
  then on (`dropped`).
* `hal_watchdog.c:44` promises periods of up to 2048 s. The clock is 16 Hz, its
  16384 cycles are 1024 s, and the count asked for is doubled, so that more than
  about 512 s is refused. The model refuses what the code refuses;
  `WatchdogAsAsked` speaks of the times that are accepted.

### Exceptions named in the properties

Where the code has a window that breaks a property, the property names the
window by a history variable instead of leaving it out of the model:

* `contested` (`HalTimer`): `hal_timer_start_at` looks at `tqe_prev`
  (`hal_timer.c:642`) and stores the expiry (647) before its critical section
  (649). A callback that `hal_timer_chk_queue` makes in between (197) may start that
  very timer, which is then linked into the list twice.
* `crossed` (`WincSocketRx`): a chunked reply makes the driver send a second
  request; if the mbuf pool is empty when the packet is queued, the request stays
  open with `polling` clear, and a later poll for another socket lifts the flow
  control: the old answer is read into a queued packet. Or a poll finds a request
  that a closed socket has left with the chip, or its reply. No other second request
  is exempt: one made for want of the test of `polling` counts, for the same
  socket as well.
* `failed`: `recvfrom` keeps `bIsRecvPending` set when `hif_send` fails; the
  next poll takes the request for sent and never ends. When `hif_receive` fails
  (`socket.c` 164, 299) the reply is lost with `polling` set; and if it fails after
  the first piece, the callback has moved the buffer on and the next reply is
  queued behind what was read before. `DataIntact` and `EachPolled` name it;
  `OneRequest`, `RightOwner` and `NoSharing` hold through it. A write past the end
  of the chain, to which repeated failures lead, goes to no mbuf of the model.
* `opened < SessionMod` in `RightOwner`: `gu16SessionID` comes round after 65535
  sockets, and a reply that is that late matches a new socket with its number.
* `orphaned`: `winc1500_sock_close` of the socket being polled leaves `polling`
  set, and no socket is polled again.
* `overlap` (`WincHif`): two tasks in `hif_send`, as above. `fails > 0` in
  `EveryMessageEnds`: a bus access that fails after the interrupt bit has been
  cleared loses the message and with it RX done. `fails < 255` and
  `leaked < 254`: a failing access may leave one interrupt too many in the
  eight-bit `gu8Interrupt`, or a use of the chip that is never given back in the
  eight-bit `gu8ChipSleep`; enough of them bring the counters round to zero.
* `dropped`, `lost` and `Closed` (`HalUart`): an interrupt dropped by the
  driver; a character still in DATA that `usart_write_wait` overwrites, since with
  callbacks compiled in it does not ask whether DATA is empty, or that a close
  catches in the SERCOM; and a port after `hal_uart_close`, which leaves `u_open`
  set.
* `cut`, `overflow`, `erased` (`HalSpi`): a transfer cut short by an abort, a
  disable or a configuration; characters the slave or a late reader loses; the
  end of a slave's transaction erased by a write to DATA, or by the start of the
  next transfer in the callback.
* `spoilt` (`WincSocketTx`): "raced", two tasks that find `ws_tx` empty at once;
  "stranded", a chip that refuses when no request of this socket is left to bring
  an event; a caller that frees a chain which the driver keeps, because the code
  of `send()` is compared with `MN_ENOBUFS` before it is converted; a datagram's
  socket closed before its sender looks at `ws_type` again.
* `spoilt`, `reused` (`HalGpio`): two callers at one channel between the test of
  `func` and its assignment, a release of a pin by another pin of its channel, a
  channel whose CONFIG field changes between another's read and its write of the
  register (no other: a mask that took in a neighbour would be found); a flag left by a channel's last
  owner, which may call the new handler before its argument is stored.
* `clash` (`HalFlash`): two tasks at the same bytes, or both between the ready test of
  `nvm_write_buffer` / `nvm_erase_row` and their last command (`nvm.c` 467-498, 648-669).
  Nothing locks these: another task's store changes `ADDR` between 656 and 669, and the
  erasure hits its row; a command given to a controller that is busy by then is dropped.
  What a reset cuts off may be missing although the write returned 0, since the
  last page is programmed after the return.
* times of 2^28 ms and more (`HalWatchdog`): the product wraps, and they are
  accepted with a short period although the code means to refuse what is too long.
* `owed`, `noise` (`Espduino`): answers are matched by command alone, so an
  older answer that is still outstanding is taken for the new one; the parser
  does not clear its buffer at SLIP_END, so a lost marker makes it take a frame
  twice. The deadline in `esp_ready` is compared unsigned: a task that does not
  look at the clock on the very tick misses it (`Signed(left) < 0` in
  `CallsReturn`).
* damage to a length (`EspSlip`): `esp_proto_completed_cb` (`espduino.c` 299-311) follows
  the lengths before the checksum is checked, so a damaged one makes it compare at
  another place, where two bytes may agree by chance; `DamageShows` says nothing then.
* `disturbed` (`WincSocketSync`): a time-out or a failed poll on this use of
  the socket.

`SuccessKept` (a part of `OwnAnswer`) says all that survives of an error code: `ws_err` is a `uint8_t`
and the chip's codes are negative, so every error becomes `MN_EUNKNOWN`.

### Fairness

Only what the scheduling gives: a task that can run runs (weak fairness of its
steps), an enabled interrupt that is pending is taken, hardware shifts and
counts, the clock ticks, time-outs fire. In `WincHif` the events of the Wi-Fi
task get strong fairness, since the mutex it waits for is taken and released by
the other task again and again and Mynewt's mutexes queue their waiters; the
poll that finds free buffers gets it because packets are freed again and again.
In `WincSocketRx` the chip answers what it is asked (RECVFROM carries a time-out
for it), and the application takes its packets. In `WincSocketTx` the chip sends
what it has taken and reports it. In `HalSpi` a master shifts what it is given;
nothing is assumed of the other side of a slave. Nothing is assumed of the
ESP8266, of the line, or of the chip in `WincSocketSync`.

## 4. Proofs

`HalUartProofs`, for every size of `e_tx` and of `txdata`, every set of bytes
and any number of characters (`RingAssumption`, `UartAssumption`). Of the ring
buffer alone: `RingInv` is inductive as it stands (`RingCorrect`), and every step
maps to a step or a stutter of `BoundedFifo` (`RingImplementsFifo`) through
`ContentsType`. Every step of the serial port is one call of the ring buffer or
leaves it alone (`UartStep`), so that `HalUart` implements `RingBuf`
(`UartUsesRing`), and both results hold in the composition (`UartRingCorrect`,
`UartImplementsFifo`). `UartInv` gives `UartNothingLost`: every action takes the
characters on by one place of their way from `e_tx` through `txdata`, DATA and the
shift register to the line, adds the next one at its end, or counts what it
destroys as lost; `Jobs` says whether the task or the driver's job owns `txdata`.
The second part of `NothingLost` is what allows a call of the ring buffer to be
taken as one step: task and interrupt are never both in one.

`HalTimerProofs`, for every set of timers, counter width, number of epochs and
set of delays that satisfies `HalTimerAssumption` (a busy period shorter than
an epoch, delays plus that below half of the 32-bit range):

* `Inv1` = `TypeOK` /\ `Control` /\ `ReadHalves` gives `TimerTypeCorrect`.
  `Control` says where each context may be and what its locals hold there,
  `ReadHalves` that the upper half a reader holds is still `tmr_cntr`.
* `Inv2` = `TimeKept` /\ `OvfServed` /\ `ReadIsTime` gives `TimerTimeKept` and
  `TimerReadIsTime`. `OvfServed` is needed because an overflow may be counted by
  the reader or by the interrupt: it says that a flag still set keeps the CPU
  busy, so that the counter cannot overflow again before it is counted.
* `Inv3` = `SampleFresh` /\ `GoalFresh` /\ `Owned` /\ `QueueTimes` gives
  `TimerNeverEarly`: the time sampled before a comparison is at most a busy
  period old, and the wrapped expiry of every queued timer is the present time
  plus what is left of it; so the signed comparison in `hal_timer_chk_queue` is
  the comparison of the real times.

* `Inv4` = `Sorted` /\ `Late` /\ `Armed` /\ `Arming` gives `TimerSorted`,
  `TimerNoLostWakeup` and `TimerNeverLate`. `Inv3` and `Inv4` are kept until a timer
  is `contested`: every step that does not contest one keeps them, whatever timer a
  callback starts. The parts need each other: the order by
  wrapped expiry is the order of the times left only while no timer is very late;
  lateness is bounded because the first timer is covered, by the compare register,
  by an overflow that comes before it or by an interrupt that is pending; and
  covering the first timer covers all because they are in order. `Arming` says
  what `samd21_timer_set_ocmp` has still to do while it is part way, which is
  where the counter can run past the value it is about to set.
* `Inv5` = `DelayFresh` /\ `DelayGoal` gives `TimerDelayWaits`: the goal of
  `hal_timer_delay` is the tick asked for and near in the 32-bit time, and the
  counter it has sampled belongs to the present epoch and is at most a busy period
  old; so the signed comparison that ends the loop is that of the real times.

`HalPortProofs` holds two drivers. For every set of tasks, pins and triggers and any number of
calls (`GpioAssumption`), `Inv` = `TypeOK` /\ `Alone` /\ `Kept` /\ `ArgSet` /\ `Sensed`
gives `GpioHeldUntilReleased`. While a channel is not spoilt one task at most is
between the test of its `func` and the end of its call (`Alone`), what was set up
is what the arrays and the CONFIG register hold (`Kept`), a channel that detects
anything has its handler and the handler's argument, since CONFIG is written last
(`ArgSet`), and a flag, or a channel being served, is that of a channel that
detects something (`Sensed`).
`GpioNoLostEdge` is inductive beside the types.

Of the SPI port, for every length of a transfer that its `uint16_t` counters hold
and any number of transfers, characters and disturbing calls (`SpiAssumption`):
`SpiInv` = `Records` /\ `SpiRanges` /\ `SpiControl` /\ `MasterControl` gives
`SpiFreeIsIdle` and `SpiBuffersOwned`. `SpiControl` says that BUSY and an enabled RXC
go with `HAL_SPI_XFER`, and that what the handler read at its entry still holds when
it comes to the branch of that flag. `MasterControl` counts: at most two characters
of a master are under way, three only between the write and the read of one pass
of the handler, so what is left to receive never runs out before what is left to
send, and DRE is off when the callback is called. `SpiOwnBytes` adds `SlaveIntact`
(what a slave reads follows on what it has, and what waits is the last that came)
and `MasterIntact`: a master that has lost nothing is quiet, runs a job, runs a
transfer in the task, or has had its job taken away by `hal_spi_config`; in the
running cases what it has written is on the wire, then in the shift register, then
in DATA, in order (`OnWay`), and what has not come back is in that pipe (`InStep`).
The proof first says what each action does field by field, then goes through the
parts action by action.

`HalFlashProofs`, for every geometry and any number of tasks, calls and resets
(`FlashAssumption`, `WatchdogAssumption`): `WdtInv` (the configuration and the
running period belong to the time last accepted) gives `FlashWatchdogAsAsked`, with
the bounds of the periods as arithmetic. `FlashInv` gives `FlashBytesKept`: until two
tasks clash, calls under way are at bytes that are apart, one of them at most is
between its ready test and its command, with the controller ready all the while and
`ADDR` as it stored it, and for every task what is stored, what is being programmed and
what is still to come together make up what its call was asked for.

`WincSocketProofs` (`SocketAssumption`, `SyncAssumption`, `TxAssumption`), for any number of calls and
uses of the socket. `SyncInv` = `SyncTypeOK` /\ `AskedOnce` /\ `Waiting` /\ `Calm` /\
`Fresh` /\ `Returned` gives `SyncOwnAnswer`: as long as nothing disturbed this use
there is one request out for the call that waits, the semaphore has a token only if
its answer has come, and `ws_err` is what is left of that answer in eight bits.
`TxInOrderOnce` is about sending, for any number of tasks, chains of any length
and a chip with any number of buffers: one task at a time has the mutex
(`Locked`), a task between a send and the end of its turn has sent the head of its
chain (`Halfway`), the chip has what was sent in the order of the chains
(`Ordered`), and every mbuf handed over is in one place: with its caller, in
`ws_tx`, sent, or freed (`Chains`, `Books`).

`EspduinoProofs` (`EspAssumption`), for queues of any size and any number of
requests, lost tokens and ticks. `Upward`: requests reach the chip whole and in
order. `Downward` and `Once`, on a line that loses nothing: frames come back in order,
a body is in the parser before its end, and all that is on its way is younger than
what has been taken; this gives `EspTakenOnce`. `Bodies`: a body that is not damaged
belongs to a request whatever is lost, which gives `EspResponseIntact`. `Calling`,
`Answer` and `Mine`: the flag a call waits for is set for its command only, and as
long as nothing is owed from earlier calls only its own tokens are outstanding;
this gives `EspAnswerIsOwn`.

The same module proves `SlipRoundTrip` from `SlipAssumption`, for frames and buffers of
any size, any bytes before the frame and any checksum function. `SlipInv` says where
each character of the frame is on the line, alone or behind the escape marker
(`Codes`), and how far the parser is: before the start marker (`Ahead`), with `k`
characters in the buffer (`Between`), with `k` and the escape of the next (`Amid`), or
past the end marker (`Over`). A character is never taken for a marker, since
`SLIP_ESC` maps the markers to bytes that are none and back (`Escapes`).

`WincHifProofs` (`HifAssumption`), for any number of messages, sends and failing
accesses, with power save on or off: `HifInv` = `Base` /\ `Interrupts` /\ `Messages` /\
`Sleep` /\ `Packets` gives `HifNoLostInterrupt`, `HifInOrder`, `HifAwakeWhenUsed` and
`HifSentIsSent`. `Base` holds the types and who has the mutex; `Counted` in
`Interrupts` bounds the eight-bit count by the failures; `Awake` in `Sleep` says that
`gu8ChipSleep` is the number of uses under way and left behind; `Delivered` in
`Packets` follows a packet through its buffer, which is why no buffer may be shared.

`WincSocketRxProofs` (`RxAssumption`), for any number of sockets, mbuf chains, uses
of a socket and replies: `Inv` gives `RxRightOwner`, `RxDataIntact` and
`RxOneRequest`. `Owners`: uses of a socket number are told apart. `Sessions`: until it comes round a session
number is the use it was given to. `Chained`: no chain is in two places, and there
is one to receive into, or flow control, whenever a reply may be taken. `One`
(until a poll crosses a request): one request or reply is out, its socket is
marked pending, and a poll under way is for that socket, whatever fails.
`Buffers` and `Whole` (while `hif_send` and `hif_receive` have not failed either): a reply that is stale finds no buffer, an
awaited one the first mbuf, and queued packets hold the data of their replies. The
proof summarises each call of the receive path field by field, then each action,
then goes through the conjuncts.

Bounds such as `MaxCalls`, `MaxMsgs` or `MaxOpen` are constants that the theorems
leave free, so they hold for behaviours of any length. Where a counter of the code
may wrap the property says up to where it holds (section 3).

Only model-checked:

* liveness, which is out of this prover's reach: `WaitsEnd`, `CallsReturn`,
  `EachPolled`, `EveryMessageEnds`, `EveryCallReturns`, `SentInTheEnd`, `XferEnds`,
  `AllSent`, `AllRead`;
* `DamageShows` and `CrcIsRemainder`, which compare the shifts and exclusive ors of
  `Crc16` with the remainder of a polynomial: that needs bitwise operators, which
  the prover cannot use, and induction over the bytes of a frame.

Every other property of a run has its theorem.

## 5. Not modelled

The settings that only reach registers (baud rates, clock sources, pin
multiplexing), nine data bits on a UART (the driver then takes two bytes of
`txdata` for a character and reads past it), the levels of output pins, blocking
transfers of an SPI slave, reading the flash and tickling the watchdog (which
change nothing the properties see), the encoding of WINC1500 requests,
`hif_deinit` during traffic, messages the firmware itself gets wrong, connections
accepted by a listening socket, interrupts above the timer's that use the timer,
callbacks that make more than one timer call, what the buffer holds beyond a frame
whose lengths point there.

The life cycle of a hardware timer (`hal_timer_init`, `_config`, `_deinit`).
`winc1500.c`, whose callbacks forward scan results and connection events to the
state machine of `wifi_mgmt`, which is not in this repository: among them a scan
that finds nothing, after which `wifi_scan_done` is never called. `valid_pins` of
`hal_gpio.c` is modelled as it is: it compares the number of a pin with the mask
of pins instead of its bit, so that PA0, PB2 and PB3 are refused.

The vendored drivers are modelled as far as the HAL runs on them and they keep
state (USART, SPI, EXTINT, NVM, WDT); the rest of ASF and CMSIS, which is most of
the repository's lines, is register definitions and drivers nothing here calls.

## 6. Plan

Models: the life cycle of the timers, with timers still queued; `WincHif` over
the pins of `HalGpio` instead of its own; `WincSocketTx` and `WincSocketRx`
together in the handling of close.

Proofs to follow: an abstract specification of a reliable message interface that
`WincHif` implements, and of an ordered byte stream that `HalUart` implements.
