------------------------------ MODULE HalTimer ------------------------------
(***************************************************************************)
(* hw/mcu/atmel/samd21xx/src/hal_timer.c: software timers on one 16-bit    *)
(* hardware counter.  tmr_cntr extends the counter to 32 bits, the queue   *)
(* holds the started timers by expiry, and one compare register wakes the  *)
(* CPU for the first of them.                                              *)
(*                                                                         *)
(* The counter is a process of its own: it ticks between any two register  *)
(* accesses of the CPU, inside critical sections too, and raises the       *)
(* overflow and the compare flag.  The CPU runs one task, which calls the  *)
(* API, and the timer interrupt, which preempts the task wherever          *)
(* interrupts are enabled and whose callbacks call the API again.          *)
(*                                                                         *)
(* Low stands for 2^16 and Modulus for 2^32; both are parameters.          *)
(***************************************************************************)
EXTENDS Integers, SequencesExt

CONSTANTS
    Timers,     \* the struct hal_timer objects, all on this hardware timer
    NoTimer,    \* no timer object
    Low,        \* the counter's modulus (65536)
    Epochs,     \* how many times it overflows before tmr_cntr wraps (65536)
    Ops,        \* the calls the task makes
    TaskTicks,  \* delays the task asks for
    CbTicks,    \* delays a callback starts a timer with
    Past,       \* how far in the past a start_at may lie
    Latency     \* ticks that pass at most while the CPU is kept busy

Modulus == Low * Epochs
Half == Modulus \div 2
MaxTicks == CHOOSE n \in TaskTicks \cup CbTicks :
                \A m \in TaskTicks \cup CbTicks : m <= n

(***************************************************************************)
(* The code needs its interrupt served before the counter overflows again  *)
(* (Latency < Low), and delays that stay in the positive half of a signed  *)
(* 32-bit difference by the margin of an epoch.  A callback that starts a  *)
(* timer asks for at least one tick: with none it could loop in            *)
(* hal_timer_chk_queue for ever.                                           *)
(***************************************************************************)
ASSUME HalTimerAssumption ==
    /\ NoTimer \notin Timers
    /\ Low \in Nat /\ Low >= 2
    /\ Epochs \in Nat /\ Epochs >= 2 /\ Modulus = 2 * Half
    /\ Ops \subseteq {"start", "start_at", "stop", "read", "delay"}
    /\ TaskTicks \subseteq Nat /\ CbTicks \subseteq Nat \ {0}
    /\ \A n \in TaskTicks \cup CbTicks : n <= MaxTicks
    /\ MaxTicks \in TaskTicks
    /\ Past \in Nat
    /\ Latency \in 1 .. Low - 1
    /\ MaxTicks + Past + Latency + Low <= Half

VARIABLES
    \* the hardware
    count,      \* COUNT16.COUNT
    ovf,        \* INTFLAG.OVF; its interrupt is always enabled
    mc0,        \* INTFLAG.MC0
    mc0en,      \* INTENSET.MC0
    cc0,        \* compare register 0
    pend,       \* the interrupt's pending bit in the NVIC
    \* the driver
    tmr_cntr,   \* bsptimer->tmr_cntr
    q,          \* bsptimer->hal_timer_q
    expiry,     \* timer->expiry
    \* the CPU: for each context its position and its locals
    pc,
    ret,        \* what hal_timer_read_bsptimer or set_ocmp returns to
    cur,        \* timer
    arg,        \* ticks; once the counter is read, the tick asked for
    tcntr, low, \* the two halves of the value read
    \* history, read by the properties only
    now,        \* the ticks that really passed, modulo Modulus
    seen,       \* now when a context sampled the counter, then its real goal
    due,        \* ticks until each queued timer should fire
    lag,        \* ticks since the CPU was last at rest
    contested   \* a callback has started the timer the task was starting

hwVars == <<count, ovf, mc0, mc0en, cc0, pend>>
drvVars == <<tmr_cntr, q, expiry>>
locals == <<ret, cur, arg, tcntr, low, seen>>
vars == <<hwVars, drvVars, pc, locals, now, due, lag, contested>>

Context == {"task", "isr"}

\* 32-bit unsigned sum or difference of two values.
Wrap(x) == IF x >= Modulus THEN x - Modulus
           ELSE IF x < 0 THEN x + Modulus ELSE x

\* (int32_t)(a - b)
Signed(a, b) == LET d == a - b IN
    IF d >= Half THEN d - Modulus ELSE IF d < -Half THEN d + Modulus ELSE d

InQueue(t) == \E i \in 1 .. Len(q) : q[i] = t    \* link.tqe_prev != NULL

-----------------------------------------------------------------------------
(* Scheduling *)

IsrOff == pc["isr"] = "off"

\* The task is inside cpu_irq_enter_critical.
Masked == pc["task"] \in {"rd2", "rd3", "rd4", "oc1", "oc2", "oc3", "oc4", "oc5"}

\* A context may execute: the interrupt whenever it is active, the task when
\* it is not and no unmasked interrupt is waiting.
Runs(c) == IF c = "isr" THEN ~IsrOff ELSE IsrOff /\ (Masked \/ ~pend)

\* Nothing keeps the CPU from the task, and the task is not in a call.
Rest == IsrOff /\ ~pend /\ pc["task"] = "idle"

\* Where a call made in context c returns to.
Home(c) == IF c = "isr" THEN "chk" ELSE "idle"

\* A callback starts the timer that the task has found stopped and has not
\* queued yet: hal_timer_start_at looks at tqe_prev and stores the expiry before
\* it enters its critical section.
Contends ==
    /\ pc["task"] = "insert" /\ cur["task"] = cur["isr"]
    /\ pc["isr"] = "start_at" /\ pc'["isr"] = "insert"

\* How a CPU step ends: a busy period is over when the CPU is at rest, or
\* when a delay loop has completed one more look at the counter.
Settle ==
    /\ contested' = (contested \/ Contends)
    /\ lag' = IF \/ Rest'
                 \/ pc["task"] # "delay" /\ pc'["task"] = "delay" /\ ~pend'
              THEN 0 ELSE lag
    /\ UNCHANGED now

Goto(c, label) == pc' = [pc EXCEPT ![c] = label]

\* The call in context c returns and its locals are gone.
Return(c, label) ==
    /\ Goto(c, label)
    /\ ret' = [ret EXCEPT ![c] = "none"]
    /\ cur' = [cur EXCEPT ![c] = NoTimer]
    /\ arg' = [arg EXCEPT ![c] = 0]
    /\ tcntr' = [tcntr EXCEPT ![c] = 0]
    /\ low' = [low EXCEPT ![c] = 0]
    /\ seen' = [seen EXCEPT ![c] = 0]

Init ==
    /\ count = 0 /\ ovf = FALSE /\ mc0 = FALSE /\ mc0en = FALSE /\ cc0 = 0
    /\ pend = FALSE
    /\ tmr_cntr = 0
    /\ q = <<>>
    /\ expiry = [t \in Timers |-> 0]
    /\ pc = [c \in Context |-> IF c = "isr" THEN "off" ELSE "idle"]
    /\ ret = [c \in Context |-> "none"]
    /\ cur = [c \in Context |-> NoTimer]
    /\ arg = [c \in Context |-> 0]
    /\ tcntr = [c \in Context |-> 0]
    /\ low = [c \in Context |-> 0]
    /\ seen = [c \in Context |-> 0]
    /\ now = 0
    /\ due = [t \in Timers |-> 0]
    /\ lag = 0
    /\ contested = FALSE

-----------------------------------------------------------------------------
(* The counter.  It raises a flag on overflow and on a match with cc0; a    *)
(* flag whose interrupt is enabled sets the pending bit.                    *)

Tick ==
    /\ Rest \/ lag < Latency
    /\ lag' = IF Rest THEN 0 ELSE lag + 1
    /\ count' = IF count = Low - 1 THEN 0 ELSE count + 1
    /\ ovf' = (ovf \/ count = Low - 1)
    /\ mc0' = (mc0 \/ count' = cc0)
    /\ pend' = (pend \/ (~ovf /\ ovf') \/ (mc0en /\ ~mc0 /\ mc0'))
    /\ now' = Wrap(now + 1)
    /\ due' = [t \in Timers |-> IF InQueue(t) THEN due[t] - 1 ELSE due[t]]
    /\ UNCHANGED <<mc0en, cc0, drvVars, pc, locals, contested>>

-----------------------------------------------------------------------------
(* hal_timer_read_bsptimer, in a critical section *)

\* tcntr = tmr_cntr, then the counter.
ReadCount(c) ==
    /\ Runs(c)
    /\ pc[c] = "rd1"
    /\ tcntr' = [tcntr EXCEPT ![c] = tmr_cntr]
    /\ low' = [low EXCEPT ![c] = count]
    /\ seen' = [seen EXCEPT ![c] = IF ret[c] = "delay" THEN @ ELSE now]
    /\ Goto(c, "rd2")
    /\ UNCHANGED <<hwVars, drvVars, ret, cur, arg, due>>
    /\ Settle

\* Mutation of DelayGoesOn: no regard to the wrap.
DelayGoesOnUnsigned(v, until) == v <= until

\* The condition of hal_timer_delay's loop.
DelayGoesOn(v, until) == Signed(v, until) <= 0

\* What the caller does with the value v that was read.
ReadReturns(c, v) ==
    \/ /\ ret[c] \in {"start", "until"}
       /\ arg' = [arg EXCEPT ![c] = Wrap(v + arg[c])]
       /\ seen' = [seen EXCEPT ![c] = Wrap(seen[c] + arg[c])]
       /\ tcntr' = [tcntr EXCEPT ![c] = 0]
       /\ low' = [low EXCEPT ![c] = 0]
       /\ Goto(c, IF ret[c] = "start" THEN "start_at" ELSE "delay")
       /\ UNCHANGED <<ret, cur>>
    \/ /\ ret[c] = "delay"
       /\ DelayGoesOn(v, arg[c])
       /\ tcntr' = [tcntr EXCEPT ![c] = 0]
       /\ low' = [low EXCEPT ![c] = 0]
       /\ Goto(c, "delay")
       /\ UNCHANGED <<ret, cur, arg, seen>>
    \/ /\ ret[c] = "delay"
       /\ ~DelayGoesOn(v, arg[c])
       /\ Return(c, "idle")
    \/ /\ ret[c] = "read"
       /\ Return(c, "idle")
    \/ /\ ret[c] = "chk"
       /\ tcntr' = [tcntr EXCEPT ![c] = v]
       /\ low' = [low EXCEPT ![c] = 0]
       /\ Goto(c, "cmp")
       /\ UNCHANGED <<ret, cur, arg, seen>>

\* No overflow is flagged: the two halves belong together.
ReadNoOvf(c) ==
    /\ Runs(c)
    /\ pc[c] = "rd2"
    /\ ~ovf
    /\ ReadReturns(c, tcntr[c] + low[c])
    /\ UNCHANGED <<hwVars, drvVars, due>>
    /\ Settle

\* An overflow is flagged: count it here.
ReadOvf(c) ==
    /\ Runs(c)
    /\ pc[c] = "rd2"
    /\ ovf
    /\ tcntr' = [tcntr EXCEPT ![c] = Wrap(tcntr[c] + Low)]
    /\ tmr_cntr' = Wrap(tcntr[c] + Low)
    /\ Goto(c, "rd3")
    /\ UNCHANGED <<hwVars, q, expiry, ret, cur, arg, low, seen, due>>
    /\ Settle

\* Mutation of ReadAgain: the counter is not read again after an overflow.
ReadAgainStale(c) ==
    /\ Runs(c)
    /\ pc[c] = "rd3"
    /\ ovf' = FALSE
    /\ pend' = TRUE
    /\ Goto(c, "rd4")
    /\ UNCHANGED <<count, mc0, mc0en, cc0, drvVars, locals, due>>
    /\ Settle

\* Read the counter again, clear the flag, have the interrupt look at the
\* queue in the interrupt's place.
ReadAgain(c) ==
    /\ Runs(c)
    /\ pc[c] = "rd3"
    /\ low' = [low EXCEPT ![c] = count]
    /\ seen' = [seen EXCEPT ![c] = IF ret[c] = "delay" THEN @ ELSE now]
    /\ ovf' = FALSE
    /\ pend' = TRUE
    /\ Goto(c, "rd4")
    /\ UNCHANGED <<count, mc0, mc0en, cc0, drvVars, ret, cur, arg, tcntr, due>>
    /\ Settle

ReadDone(c) ==
    /\ Runs(c)
    /\ pc[c] = "rd4"
    /\ ReadReturns(c, tcntr[c] + low[c])
    /\ UNCHANGED <<hwVars, drvVars, due>>
    /\ Settle

-----------------------------------------------------------------------------
(* samd21_timer_set_ocmp for the first timer of the queue *)

HeadExpiry == expiry[Head(q)]
Low16(x) == x % Low
High16(x) == x - (x % Low)

\* The caller goes on: the interrupt's own call is the last thing it does.
OcmpReturns(c) == Return(c, IF ret[c] = "exit" THEN "exit" ELSE Home(c))

\* Disable the compare interrupt; only an expiry in this epoch is for cc0.
OcmpEpoch(c) ==
    /\ Runs(c)
    /\ pc[c] = "oc1"
    /\ mc0en' = FALSE
    /\ LET delta_t == Signed(High16(HeadExpiry), tmr_cntr) IN
       \/ /\ delta_t < 0
          /\ pend' = TRUE
          /\ OcmpReturns(c)
       \/ /\ delta_t = 0
          /\ Goto(c, "oc2")
          /\ UNCHANGED <<pend, locals>>
       \/ /\ delta_t > 0      \* wait for the overflow interrupt
          /\ OcmpReturns(c)
          /\ UNCHANGED pend
    /\ UNCHANGED <<count, ovf, mc0, cc0, drvVars, due>>
    /\ Settle

OcmpSetCompare(c) ==
    /\ Runs(c)
    /\ pc[c] = "oc2"
    /\ cc0' = Low16(HeadExpiry)
    /\ Goto(c, "oc3")
    /\ UNCHANGED <<count, ovf, mc0, mc0en, pend, drvVars, locals, due>>
    /\ Settle

OcmpClearFlag(c) ==
    /\ Runs(c)
    /\ pc[c] = "oc3"
    /\ mc0' = FALSE
    /\ Goto(c, "oc4")
    /\ UNCHANGED <<count, ovf, mc0en, cc0, pend, drvVars, locals, due>>
    /\ Settle

OcmpEnable(c) ==
    /\ Runs(c)
    /\ pc[c] = "oc4"
    /\ mc0en' = TRUE
    /\ pend' = (pend \/ mc0)
    /\ Goto(c, "oc5")
    /\ UNCHANGED <<count, ovf, mc0, cc0, drvVars, locals, due>>
    /\ Settle

\* Mutation of OcmpCheckLate: the counter on the very tick is not late.
OcmpCheckLater(c) ==
    /\ Runs(c)
    /\ pc[c] = "oc5"
    /\ pend' = (pend \/ count > Low16(HeadExpiry))
    /\ OcmpReturns(c)
    /\ UNCHANGED <<count, ovf, mc0, mc0en, cc0, drvVars, due>>
    /\ Settle

\* Too late for a match: force the interrupt.
OcmpCheckLate(c) ==
    /\ Runs(c)
    /\ pc[c] = "oc5"
    /\ pend' = (pend \/ count >= Low16(HeadExpiry))
    /\ OcmpReturns(c)
    /\ UNCHANGED <<count, ovf, mc0, mc0en, cc0, drvVars, due>>
    /\ Settle

-----------------------------------------------------------------------------
(* hal_timer_start_at and hal_timer_stop *)

\* The checks and the assignment before the critical section.
StartAtCheck(c) ==
    /\ Runs(c)
    /\ pc[c] = "start_at"
    /\ \/ /\ InQueue(cur[c])                           \* EINVAL
          /\ Return(c, Home(c))
          /\ UNCHANGED expiry
       \/ /\ ~InQueue(cur[c])
          /\ expiry' = [expiry EXCEPT ![cur[c]] = arg[c]]
          /\ Goto(c, "insert")
          /\ UNCHANGED locals
    /\ UNCHANGED <<hwVars, tmr_cntr, q, due>>
    /\ Settle

\* Mutation of InsertPos: expiries compared without regard to the wrap.
InsertPosUnsigned(t) == CHOOSE i \in 1 .. Len(q) + 1 :
    /\ \A j \in 1 .. i - 1 : expiry[t] >= expiry[q[j]]
    /\ i <= Len(q) => expiry[t] < expiry[q[i]]

\* The entry a timer goes before: the first that expires later.
InsertPos(t) == CHOOSE i \in 1 .. Len(q) + 1 :
    /\ \A j \in 1 .. i - 1 : Signed(expiry[t], expiry[q[j]]) >= 0
    /\ i <= Len(q) => Signed(expiry[t], expiry[q[i]]) < 0

\* Mutation of StartAtInsert: a new head does not get the compare register.
StartAtInsertOnly(c) ==
    /\ Runs(c)
    /\ pc[c] = "insert"
    /\ q' = InsertAt(q, InsertPos(cur[c]), cur[c])
    /\ due' = [due EXCEPT ![cur[c]] = Signed(seen[c], now)]
    /\ Return(c, Home(c))
    /\ UNCHANGED <<hwVars, tmr_cntr, expiry>>
    /\ Settle

\* The insertion; a new head gets the compare register.
StartAtInsert(c) ==
    /\ Runs(c)
    /\ pc[c] = "insert"
    /\ LET i == InsertPos(cur[c]) IN
       /\ q' = InsertAt(q, i, cur[c])
       /\ due' = [due EXCEPT ![cur[c]] = Signed(seen[c], now)]
       /\ \/ /\ i = 1
             /\ Goto(c, "oc1")
             /\ UNCHANGED locals
          \/ /\ i # 1
             /\ Return(c, Home(c))
    /\ UNCHANGED <<hwVars, tmr_cntr, expiry>>
    /\ Settle

\* Unlink a timer wherever it is.
Unlinked(t) == LET i == CHOOSE i \in 1 .. Len(q) : q[i] = t IN RemoveAt(q, i)

\* Stop; a removed head gives the compare register to its successor.
Stop(c) ==
    /\ Runs(c)
    /\ pc[c] = "stop"
    /\ LET t == cur[c] IN
       \/ /\ ~InQueue(t)
          /\ Return(c, Home(c))
          /\ UNCHANGED <<q, due, mc0en>>
       \/ /\ InQueue(t)
          /\ q' = Unlinked(t)
          /\ due' = [due EXCEPT ![t] = 0]
          /\ \/ /\ Head(q) # t
                /\ Return(c, Home(c))
                /\ UNCHANGED mc0en
             \/ /\ Head(q) = t
                /\ Len(q) = 1              \* samd21_timer_disable_ocmp
                /\ mc0en' = FALSE
                /\ Return(c, Home(c))
             \/ /\ Head(q) = t
                /\ Len(q) > 1
                /\ Goto(c, "oc1")
                /\ UNCHANGED <<mc0en, locals>>
    /\ UNCHANGED <<count, ovf, mc0, cc0, pend, tmr_cntr, expiry>>
    /\ Settle

-----------------------------------------------------------------------------
(* hal_timer_irq_handler and hal_timer_chk_queue *)

\* The NVIC enters the handler and takes the pending bit back.
IrqEnter ==
    /\ pend /\ IsrOff /\ ~Masked
    /\ pend' = FALSE
    /\ Goto("isr", "irq1")
    /\ UNCHANGED <<count, ovf, mc0, mc0en, cc0, drvVars, locals, now, due, lag, contested>>

\* Mutation of IrqCompare: the queue is looked at only after a match.
IrqCompareOnly ==
    /\ Runs("isr")
    /\ pc["isr"] = "irq1"
    /\ mc0' = FALSE
    /\ Goto("isr", IF mc0 THEN "irq2" ELSE "exit")
    /\ UNCHANGED <<count, ovf, mc0en, cc0, pend, drvVars, locals, due>>
    /\ Settle

IrqCompare ==
    /\ Runs("isr")
    /\ pc["isr"] = "irq1"
    /\ mc0' = FALSE
    /\ Goto("isr", "irq2")
    /\ UNCHANGED <<count, ovf, mc0en, cc0, pend, drvVars, locals, due>>
    /\ Settle

\* Mutation of IrqOverflow: the flag stays set.
IrqOverflowKeepsFlag ==
    /\ Runs("isr")
    /\ pc["isr"] = "irq2"
    /\ tmr_cntr' = IF ovf THEN Wrap(tmr_cntr + Low) ELSE tmr_cntr
    /\ Goto("isr", "chk")
    /\ UNCHANGED <<hwVars, q, expiry, locals, due>>
    /\ Settle

IrqOverflow ==
    /\ Runs("isr")
    /\ pc["isr"] = "irq2"
    /\ ovf' = FALSE
    /\ tmr_cntr' = IF ovf THEN Wrap(tmr_cntr + Low) ELSE tmr_cntr
    /\ Goto("isr", "chk")
    /\ UNCHANGED <<count, mc0, mc0en, cc0, pend, q, expiry, locals, due>>
    /\ Settle

\* The queue is empty: samd21_timer_disable_ocmp.
ChkEmpty ==
    /\ Runs("isr")
    /\ pc["isr"] = "chk"
    /\ q = <<>>
    /\ mc0en' = FALSE
    /\ Goto("isr", "exit")
    /\ UNCHANGED <<count, ovf, mc0, cc0, pend, drvVars, locals, due>>
    /\ Settle

\* Look at the time for the first timer.
ChkFirst ==
    /\ Runs("isr")
    /\ pc["isr"] = "chk"
    /\ q # <<>>
    /\ ret' = [ret EXCEPT !["isr"] = "chk"]
    /\ Goto("isr", "rd1")
    /\ UNCHANGED <<hwVars, drvVars, cur, arg, tcntr, low, seen, due>>
    /\ Settle

\* Mutation of ChkFire: time and expiry compared without regard to the wrap.
ChkFireUnsigned ==
    /\ Runs("isr")
    /\ pc["isr"] = "cmp"
    /\ tcntr["isr"] >= HeadExpiry
    /\ q' = Tail(q)
    /\ due' = [due EXCEPT ![Head(q)] = 0]
    /\ cur' = [cur EXCEPT !["isr"] = Head(q)]
    /\ tcntr' = [tcntr EXCEPT !["isr"] = 0]
    /\ seen' = [seen EXCEPT !["isr"] = 0]
    /\ ret' = [ret EXCEPT !["isr"] = "none"]
    /\ Goto("isr", "cb")
    /\ UNCHANGED <<hwVars, tmr_cntr, expiry, arg, low>>
    /\ Settle

\* Its time has come: unlink it and run its callback.
ChkFire ==
    /\ Runs("isr")
    /\ pc["isr"] = "cmp"
    /\ Signed(tcntr["isr"], HeadExpiry) >= 0
    /\ q' = Tail(q)
    /\ due' = [due EXCEPT ![Head(q)] = 0]
    /\ cur' = [cur EXCEPT !["isr"] = Head(q)]
    /\ tcntr' = [tcntr EXCEPT !["isr"] = 0]
    /\ seen' = [seen EXCEPT !["isr"] = 0]
    /\ ret' = [ret EXCEPT !["isr"] = "none"]
    /\ Goto("isr", "cb")
    /\ UNCHANGED <<hwVars, tmr_cntr, expiry, arg, low>>
    /\ Settle

\* Not yet: set the compare register for it and leave.
ChkWait ==
    /\ Runs("isr")
    /\ pc["isr"] = "cmp"
    /\ Signed(tcntr["isr"], HeadExpiry) < 0
    /\ ret' = [ret EXCEPT !["isr"] = "exit"]
    /\ tcntr' = [tcntr EXCEPT !["isr"] = 0]
    /\ seen' = [seen EXCEPT !["isr"] = 0]
    /\ Goto("isr", "oc1")
    /\ UNCHANGED <<hwVars, drvVars, cur, arg, low, due>>
    /\ Settle

\* The handler returns; the NVIC looks at the request lines again.
IrqExit ==
    /\ Runs("isr")
    /\ pc["isr"] = "exit"
    /\ pend' = (pend \/ ovf \/ (mc0en /\ mc0))
    /\ Goto("isr", "off")
    /\ UNCHANGED <<count, ovf, mc0, mc0en, cc0, drvVars, locals, due>>
    /\ Settle

-----------------------------------------------------------------------------
(* The callers: the task, and a callback, which makes at most one call *)

\* Begin a call: which routine, on which timer, with which argument.
Begin(c, label, r, t, n) ==
    /\ Runs(c)
    /\ Goto(c, label)
    /\ ret' = [ret EXCEPT ![c] = r]
    /\ cur' = [cur EXCEPT ![c] = t]
    /\ arg' = [arg EXCEPT ![c] = n]
    /\ UNCHANGED <<hwVars, drvVars, tcntr, low, due>>
    /\ Settle

TaskStart(t, n) ==
    /\ pc["task"] = "idle" /\ "start" \in Ops
    /\ Begin("task", "rd1", "start", t, n)
    /\ UNCHANGED seen

\* A tick n ticks from now, or before now.
TaskStartAt(t, n) ==
    /\ pc["task"] = "idle" /\ "start_at" \in Ops
    /\ Begin("task", "start_at", "start", t, Wrap(now + n))
    /\ seen' = [seen EXCEPT !["task"] = Wrap(now + n)]

TaskStop(t) ==
    /\ pc["task"] = "idle" /\ "stop" \in Ops
    /\ Begin("task", "stop", "none", t, 0)
    /\ UNCHANGED seen

TaskRead ==
    /\ pc["task"] = "idle" /\ "read" \in Ops
    /\ Begin("task", "rd1", "read", NoTimer, 0)
    /\ UNCHANGED seen

TaskDelay(n) ==
    /\ pc["task"] = "idle" /\ "delay" \in Ops
    /\ Begin("task", "rd1", "until", NoTimer, n)
    /\ UNCHANGED seen

DelayLoop ==
    /\ pc["task"] = "delay"
    /\ Begin("task", "rd1", "delay", NoTimer, arg["task"])
    /\ UNCHANGED seen

CbReturn ==
    /\ Runs("isr")
    /\ pc["isr"] = "cb"
    /\ Return("isr", "chk")
    /\ UNCHANGED <<hwVars, drvVars, due>>
    /\ Settle

\* A callback starts a timer, its own or another.
CbStart(t, n) ==
    /\ pc["isr"] = "cb"
    /\ Begin("isr", "rd1", "start", t, n)
    /\ UNCHANGED seen

CbStop(t) ==
    /\ pc["isr"] = "cb" /\ "stop" \in Ops
    /\ Begin("isr", "stop", "none", t, 0)
    /\ UNCHANGED seen

-----------------------------------------------------------------------------

Driver(c) ==
    \/ ReadCount(c) \/ ReadNoOvf(c) \/ ReadOvf(c) \/ ReadAgain(c) \/ ReadDone(c)
    \/ OcmpEpoch(c) \/ OcmpSetCompare(c) \/ OcmpClearFlag(c)
    \/ OcmpEnable(c) \/ OcmpCheckLate(c)
    \/ StartAtCheck(c) \/ StartAtInsert(c) \/ Stop(c)

Isr ==
    \/ IrqEnter \/ IrqCompare \/ IrqOverflow
    \/ ChkEmpty \/ ChkFirst \/ ChkFire \/ ChkWait \/ IrqExit
    \/ CbReturn
    \/ \E t \in Timers : CbStop(t) \/ \E n \in CbTicks : CbStart(t, n)

Task ==
    \/ \E t \in Timers : \/ \E n \in TaskTicks : TaskStart(t, n)
                         \/ \E n \in -Past .. MaxTicks : TaskStartAt(t, n)
                         \/ TaskStop(t)
    \/ TaskRead
    \/ \E n \in TaskTicks : TaskDelay(n)

Next == Tick \/ Isr \/ Task \/ DelayLoop \/ (\E c \in Context : Driver(c))

\* The counter runs, and the CPU executes the code it is in.
Fairness ==
    /\ WF_vars(Tick)
    /\ WF_vars(Isr)
    /\ WF_vars(DelayLoop)
    /\ \A c \in Context : WF_vars(Driver(c))

Spec == Init /\ [][Next]_vars

FairSpec == Spec /\ Fairness

-----------------------------------------------------------------------------
(* Properties *)

Labels == {"off", "idle", "rd1", "rd2", "rd3", "rd4", "oc1", "oc2", "oc3",
           "oc4", "oc5", "start_at", "insert", "stop", "delay", "irq1", "irq2",
           "chk", "cmp", "cb", "exit"}

Word == 0 .. Modulus - 1
EpochStarts == {Low * k : k \in 0 .. Epochs - 1}

HwTypeOK ==
    /\ count \in 0 .. Low - 1
    /\ cc0 \in 0 .. Low - 1
    /\ ovf \in BOOLEAN /\ mc0 \in BOOLEAN /\ mc0en \in BOOLEAN /\ pend \in BOOLEAN

DrvTypeOK ==
    /\ tmr_cntr \in EpochStarts
    /\ q \in Seq(Timers)
    /\ expiry \in [Timers -> Word]

CpuTypeOK ==
    /\ pc \in [Context -> Labels]
    /\ ret \in [Context -> {"none", "start", "until", "delay", "read", "chk", "exit"}]
    /\ cur \in [Context -> Timers \cup {NoTimer}]
    /\ arg \in [Context -> Word]
    /\ tcntr \in [Context -> Word]
    /\ low \in [Context -> 0 .. Low - 1]
    /\ seen \in [Context -> Word]

HistTypeOK ==
    /\ now \in Word
    /\ due \in [Timers -> Int]
    /\ lag \in 0 .. Latency
    /\ contested \in BOOLEAN

\* Every variable keeps its range; tmr_cntr only ever holds the start of an
\* epoch, so that or-ing the counter into it is an addition.
TypeOK == HwTypeOK /\ DrvTypeOK /\ CpuTypeOK /\ HistTypeOK

\* tmr_cntr, the counter and an overflow not yet counted always add up to the
\* time that really passed: no overflow is lost, none is counted twice,
\* whoever of the reader and the interrupt gets to it first.
Counting == \E c \in Context : pc[c] = "rd3"
TimeKept ==
    now = Wrap(tmr_cntr + count + (IF ovf /\ ~Counting THEN Low ELSE 0))

\* The value hal_timer_read_bsptimer puts together is the time at the moment
\* it sampled the counter, even when the counter overflows between the two
\* halves.
ReadIsTime ==
    \A c \in Context : 
        (pc[c] = "rd4" \/ (pc[c] = "rd2" /\ ~ovf)) /\ ret[c] # "delay"
            => tcntr[c] + low[c] = seen[c]

\* Once a timer is contested it is linked twice, and q stands for hal_timer_q no
\* longer: the run ends there, and the next four properties say nothing.
Uncontested == ~contested

\* The queue holds no timer twice and is ordered by the time that is really
\* left, not by the wrapped expiry, whoever starts and stops timers while the
\* task is between the test and the insertion of hal_timer_start_at; unless a
\* callback starts the task's very timer there.
Sorted ==
    contested \/ \A i, j \in 1 .. Len(q) : i < j => q[i] # q[j] /\ due[q[i]] <= due[q[j]]

\* No lost wake-up: when the CPU is at rest every queued timer is still
\* ahead of the counter.  A timer whose moment came while registers were
\* being set is never left waiting for a match that already happened.
NoLostWakeup == contested \/ (Rest => \A t \in Timers : InQueue(t) => due[t] > 0)

\* A timer fires at most Latency ticks after its expiry, or after the call that
\* starts it for a moment in the past.
NeverLate == contested \/ \A t \in Timers : InQueue(t) => due[t] >= -(Latency + Past)

\* No callback runs before the ticks asked for have passed.
NeverEarly ==
    [][pc'["isr"] = "cb" /\ pc["isr"] # "cb" => contested \/ due[Head(q)] <= 0]_vars

\* hal_timer_delay does not return before the ticks asked for have passed.
DelayWaits ==
    [][ret["task"] = "delay" /\ ret'["task"] = "none"
        => Signed(now, seen["task"]) >= 0]_vars

\* Every started timer is eventually fired or stopped, and every delay ends.
WaitsEnd ==
    /\ \A t \in Timers : InQueue(t) ~> ~InQueue(t)
    /\ (pc["task"] = "delay") ~> (pc["task"] = "idle")
=============================================================================
