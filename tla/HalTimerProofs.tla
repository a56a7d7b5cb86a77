--------------------------- MODULE HalTimerProofs ---------------------------
(***************************************************************************)
(* Proofs about the hardware timer for every number of timers, every       *)
(* counter width, every delay and every latency the assumption allows.     *)
(***************************************************************************)
EXTENDS HalTimer, WellFoundedInduction, TLAPS

-----------------------------------------------------------------------------
(* Arithmetic *)

\* The parameters as numbers.
LEMMA Parameters ==
    /\ Low \in Nat /\ Low >= 2
    /\ Modulus \in Nat /\ Half \in Nat /\ Modulus = 2 * Half
    /\ Latency \in Nat /\ Latency >= 1 /\ Latency < Low
    /\ MaxTicks \in Nat /\ Past \in Nat
    /\ MaxTicks + Past + Latency + Low <= Half
    /\ \A n \in TaskTicks \cup CbTicks : n \in Nat /\ n <= MaxTicks
<1>1. Low \in Nat /\ Low >= 2 /\ Latency \in Nat /\ Latency >= 1 /\ Latency < Low
  BY HalTimerAssumption
<1>2. Modulus \in Nat
  BY HalTimerAssumption DEF Modulus
<1>3. Half \in Nat
  BY <1>2 DEF Half
<1>4. QED
  BY <1>1, <1>2, <1>3, HalTimerAssumption

\* A start of an epoch leaves room for the epoch, and the next one is again
\* the start of an epoch.
LEMMA EpochStep ==
    ASSUME NEW x \in EpochStarts
    PROVE  /\ x \in Nat /\ x + Low <= Modulus
           /\ Wrap(x + Low) \in EpochStarts
<1>1. PICK k \in 0 .. Epochs - 1 : x = Low * k
  BY DEF EpochStarts
<1>2. k \in Nat /\ k + 1 <= Epochs /\ Low \in Nat /\ Epochs \in Nat /\ Low >= 2
  BY HalTimerAssumption
<1>3. Low * (k + 1) = x + Low /\ x \in Nat
  BY <1>1, <1>2
<1>4. Low * (k + 1) <= Low * Epochs
  BY <1>2
<1>5. x + Low <= Modulus
  BY <1>3, <1>4 DEF Modulus
<1>6. CASE k + 1 = Epochs
  <2>1. x + Low = Modulus
    BY <1>3, <1>6 DEF Modulus
  <2>2. Wrap(x + Low) = Low * 0
    BY <2>1, <1>2, <1>3, Parameters DEF Wrap
  <2>3. QED
    BY <2>2, <1>2, <1>3, <1>5 DEF EpochStarts
<1>7. CASE k + 1 < Epochs
  <2>1. Low * (k + 1) + Low <= Modulus
    <3>1. k + 2 <= Epochs
      BY <1>2, <1>7
    <3>2. Low * (k + 2) <= Low * Epochs
      BY <1>2, <3>1
    <3>3. QED
      BY <1>2, <3>2 DEF Modulus
  <2>2. Wrap(x + Low) = Low * (k + 1)
    BY <2>1, <1>2, <1>3, Parameters DEF Wrap
  <2>3. k + 1 \in 0 .. Epochs - 1
    BY <1>2, <1>7
  <2>4. Wrap(x + Low) \in EpochStarts
    BY <2>2, <2>3 DEF EpochStarts
  <2>5. QED
    BY <2>4, <1>3, <1>5
<1>8. QED
  BY <1>2, <1>6, <1>7

\* Sums and differences of 32-bit values are 32-bit values.
LEMMA WrapType ==
    ASSUME NEW x \in Int, -Modulus <= x, x < 2 * Modulus
    PROVE  Wrap(x) \in Word
  BY Parameters DEF Wrap, Word

\* Inserting into and removing from the queue keep it a queue of timers.
LEMMA InsertType ==
    ASSUME NEW S, NEW s \in Seq(S), NEW t \in S, NEW i \in 1 .. Len(s) + 1
    PROVE  InsertAt(s, i, t) \in Seq(S)
  BY DEF InsertAt

LEMMA RemoveType ==
    ASSUME NEW S, NEW s \in Seq(S), NEW i \in 1 .. Len(s)
    PROVE  RemoveAt(s, i) \in Seq(S)
  BY DEF RemoveAt

\* A nonempty set of numbers has a least one.
LEMMA LeastNat ==
    ASSUME NEW T, T \subseteq Nat, T # {}
    PROVE  \E x \in T : \A y \in T : x <= y
<1> DEFINE R == {ss \in Nat \X Nat : ss[1] < ss[2]}
<1>1. OpToRel(<, Nat) = R
  BY Zenon DEF OpToRel
<1>2. IsWellFoundedOn(R, Nat)
  BY <1>1, NatLessThanWellFounded, Zenon
<1>3. \A x, y \in Nat : <<y, x>> \in R <=> y < x
  OBVIOUS
<1> HIDE DEF R
<1>4. \E x \in T : \A y \in T : ~(<<y, x>> \in R)
  BY <1>2, WFMin
<1>5. PICK x \in T : \A y \in T : ~(<<y, x>> \in R)
  BY <1>4
<1>6. ASSUME NEW y \in T PROVE x <= y
  <2>1. x \in Nat /\ y \in Nat /\ ~(<<y, x>> \in R)
    BY <1>5
  <2>2. ~(y < x)
    BY <2>1, <1>3, Zenon
  <2>3. QED
    BY <2>1, <2>2
<1>7. QED
  BY <1>6

\* hal_timer_start_at always finds a place in the queue, and stopping a
\* queued timer finds it.
LEMMA InsertPosType ==
    ASSUME q \in Seq(Timers), expiry \in [Timers -> Int], NEW t \in Timers
    PROVE  /\ InsertPos(t) \in 1 .. Len(q) + 1
           /\ \A j \in 1 .. InsertPos(t) - 1 : Signed(expiry[t], expiry[q[j]]) >= 0
           /\ InsertPos(t) <= Len(q)
                => Signed(expiry[t], expiry[q[InsertPos(t)]]) < 0
<1> DEFINE P(i) == /\ \A j \in 1 .. i - 1 : Signed(expiry[t], expiry[q[j]]) >= 0
                   /\ i <= Len(q) => Signed(expiry[t], expiry[q[i]]) < 0
<1>1. \A j \in 1 .. Len(q) : Signed(expiry[t], expiry[q[j]]) \in Int
  BY Parameters DEF Signed
<1>2. \E i \in 1 .. Len(q) + 1 : P(i)
  <2> DEFINE T == {i \in 1 .. Len(q) : Signed(expiry[t], expiry[q[i]]) < 0}
  <2>1. CASE T = {}
    <3>1. ASSUME NEW j \in 1 .. Len(q) PROVE Signed(expiry[t], expiry[q[j]]) >= 0
      <4>1. ~(Signed(expiry[t], expiry[q[j]]) < 0)
        BY <2>1
      <4>2. QED
        BY <4>1, <1>1
    <3>2. Len(q) + 1 \in 1 .. Len(q) + 1 /\ P(Len(q) + 1)
      BY <3>1
    <3>3. QED
      BY <3>2
  <2>2. CASE T # {}
    <3>1. T \subseteq Nat
      OBVIOUS
    <3>2. \E x \in T : \A y \in T : x <= y
      <4> HIDE DEF T
      <4> QED
        BY <2>2, <3>1, LeastNat
    <3>3. PICK x \in T : \A y \in T : x <= y
      BY <3>2
    <3>4. ASSUME NEW j \in 1 .. x - 1
          PROVE  Signed(expiry[t], expiry[q[j]]) >= 0
      <4>1. j \in 1 .. Len(q) /\ j \notin T
        BY <3>3
      <4>2. QED
        BY <4>1, <1>1
    <3>5. x \in 1 .. Len(q) + 1 /\ P(x)
      BY <3>3, <3>4
    <3>6. QED
      BY <3>5
  <2>3. QED
    BY <2>1, <2>2
<1>3. InsertPos(t) = CHOOSE i \in 1 .. Len(q) + 1 : P(i)
  BY DEF InsertPos
<1> HIDE DEF P
<1>4. InsertPos(t) \in 1 .. Len(q) + 1 /\ P(InsertPos(t))
  BY <1>2, <1>3
<1>5. QED
  BY <1>4 DEF P

LEMMA UnlinkedType ==
    ASSUME q \in Seq(Timers), NEW t \in Timers, InQueue(t)
    PROVE  \E i \in 1 .. Len(q) : q[i] = t /\ Unlinked(t) = RemoveAt(q, i)
  BY DEF InQueue, Unlinked
-----------------------------------------------------------------------------
(* Types *)

Reading == {"rd1", "rd2", "rd3", "rd4"}
Setting == {"oc1", "oc2", "oc3", "oc4", "oc5"}

\* Where each context can be, and which of its locals are in use there.
Control ==
    /\ pc["task"] \in {"idle", "delay", "start_at", "insert", "stop"}
                        \cup Reading \cup Setting
    /\ pc["isr"] \in Labels \ {"idle", "delay"}
    /\ ~IsrOff => ~Masked
    /\ ret["task"] \notin {"chk", "exit"}
    /\ \A c \in Context :
        /\ pc[c] \in Reading => ret[c] \in
              IF c = "isr" THEN {"start", "chk"} ELSE {"start", "until", "delay", "read"}
        /\ pc[c] \in Reading /\ ret[c] \in {"start", "until"}
              => arg[c] \in TaskTicks \cup CbTicks
        /\ (pc[c] \in Reading /\ ret[c] = "start") \/ pc[c] \in {"start_at", "insert", "stop"}
              => cur[c] \in Timers
        /\ pc[c] \in Setting => q # <<>>
    /\ pc["isr"] = "cb" => cur["isr"] \in Timers
    /\ pc["isr"] = "cmp" \/ (pc["isr"] \in Reading /\ ret["isr"] = "chk") => q # <<>>

\* The two halves read belong to one 32-bit value.
ReadHalves ==
    \A c \in Context : pc[c] \in {"rd2", "rd3", "rd4"} => tcntr[c] = tmr_cntr

Inv1 == TypeOK /\ Control /\ ReadHalves

\* The driver and both contexts start as the invariant says.
LEMMA Init1 == Init => Inv1
<1> SUFFICES ASSUME Init PROVE Inv1
  OBVIOUS
<1>1. 0 \in EpochStarts
  <2>1. 0 = Low * 0 /\ 0 \in 0 .. Epochs - 1
    BY HalTimerAssumption
  <2>2. QED
    BY <2>1 DEF EpochStarts
<1>2. 0 \in Word /\ 0 \in 0 .. Low - 1 /\ 0 \in 0 .. Latency
  BY Parameters DEF Word
<1>3. HwTypeOK
  BY <1>2 DEF Init, HwTypeOK
<1>3b. HistTypeOK
  <2>1. contested \in BOOLEAN
    BY DEF Init
  <2>2. QED
    BY <1>2, <2>1 DEF Init, HistTypeOK
<1>3a. DrvTypeOK
  BY <1>1, <1>2 DEF Init, DrvTypeOK
<1>4. CpuTypeOK
  BY <1>2 DEF Init, CpuTypeOK, Context, Labels
<1>5. Control /\ ReadHalves
  BY DEF Init, Control, ReadHalves, Context, Labels, Reading, Setting, IsrOff,
     Masked
<1>6. QED
  BY <1>3, <1>3a, <1>3b, <1>4, <1>5 DEF Inv1, TypeOK

\* Every label used below is one.
LEMMA LabelFacts ==
    /\ \A l \in {"off", "idle", "chk", "exit", "cb", "irq1", "irq2"} : l \in Labels
    /\ \A l \in {"rd1", "oc1", "oc2", "oc3", "oc4", "oc5"} : l \in Labels
    /\ \A l \in {"start_at", "insert", "stop", "delay"} : l \in Labels
  BY DEF Labels

\* A jump, a return and the beginning of a call keep the locals in range.
LEMMA GotoType ==
    ASSUME CpuTypeOK, NEW c, NEW l \in Labels, Goto(c, l), UNCHANGED locals
    PROVE  CpuTypeOK'
  BY DEF CpuTypeOK, Goto, locals

LEMMA ReturnType ==
    ASSUME CpuTypeOK, NEW c, NEW l \in Labels, Return(c, l)
    PROVE  CpuTypeOK'
<1>1. 0 \in Word /\ 0 \in 0 .. Low - 1
  BY Parameters DEF Word
<1>2. QED
  BY <1>1 DEF CpuTypeOK, Return, Goto

LEMMA BeginType ==
    ASSUME CpuTypeOK, NEW c, NEW l \in Labels,
           NEW r \in {"none", "start", "until", "delay", "read"},
           NEW t \in Timers \cup {NoTimer}, NEW n \in Word,
           Begin(c, l, r, t, n), seen' \in [Context -> Word]
    PROVE  CpuTypeOK'
  BY DEF CpuTypeOK, Begin, Goto

\* The start of an epoch and the counter make a 32-bit value.
LEMMA ReadSum ==
    ASSUME Inv1, NEW c \in Context, tcntr[c] = tmr_cntr
    PROVE  tcntr[c] + low[c] \in Word
<1>1. tmr_cntr \in Nat /\ tmr_cntr + Low <= Modulus
  BY EpochStep DEF Inv1, TypeOK, DrvTypeOK
<1>2. low[c] \in 0 .. Low - 1
  BY DEF Inv1, TypeOK, CpuTypeOK
<1>3. QED
  BY <1>1, <1>2, Parameters DEF Word

\* What callers do with the value read keeps the locals in range.
LEMMA ReadReturnsType ==
    ASSUME Inv1, NEW c \in Context, NEW v \in Word, pc[c] \in Reading,
           ReadReturns(c, v)
    PROVE  CpuTypeOK'
<1> USE DEF Inv1, TypeOK
<1>1. 0 \in Word /\ 0 \in 0 .. Low - 1
  BY Parameters DEF Word
<1>2. CASE ret[c] \in {"start", "until"}
  <2>1. arg[c] \in Nat /\ arg[c] <= MaxTicks
    BY <1>2, Parameters DEF Control
  <2>2. Wrap(v + arg[c]) \in Word /\ Wrap(seen[c] + arg[c]) \in Word
    BY <2>1, Parameters DEF Wrap, Word, CpuTypeOK
  <2>3. QED
    BY <1>1, <1>2, <2>2 DEF ReadReturns, CpuTypeOK, Goto, Labels
<1>3. CASE ret[c] \in {"delay", "read"}
  <2>1. CASE Return(c, "idle")
    BY <2>1, ReturnType, LabelFacts
  <2>2. CASE ~Return(c, "idle")
    BY <1>1, <1>3, <2>2 DEF ReadReturns, CpuTypeOK, Goto, Labels
  <2>3. QED
    BY <2>1, <2>2
<1>4. CASE ret[c] = "chk"
  BY <1>1, <1>4 DEF ReadReturns, CpuTypeOK, Goto, Labels
<1>5. QED
  BY <1>2, <1>3, <1>4 DEF ReadReturns

LEMMA HwTypeStep == Inv1 /\ [Next]_vars => HwTypeOK'
<1> SUFFICES ASSUME Inv1, [Next]_vars PROVE HwTypeOK'
  OBVIOUS
<1> USE DEF Inv1, TypeOK
<1>1. CASE Tick
  BY <1>1, Parameters
     DEF Tick, HwTypeOK, hwVars
<1>2. ASSUME NEW c \in Context, ReadCount(c) PROVE HwTypeOK'
  BY <1>2, Parameters
     DEF ReadCount, HwTypeOK, hwVars
<1>3. ASSUME NEW c \in Context, ReadNoOvf(c) PROVE HwTypeOK'
  BY <1>3, Parameters
     DEF ReadNoOvf, ReadReturns, DelayGoesOn, Return, HwTypeOK, hwVars
<1>4. ASSUME NEW c \in Context, ReadOvf(c) PROVE HwTypeOK'
  BY <1>4, Parameters
     DEF ReadOvf, HwTypeOK, hwVars
<1>5. ASSUME NEW c \in Context, ReadAgain(c) PROVE HwTypeOK'
  BY <1>5, Parameters
     DEF ReadAgain, HwTypeOK, hwVars
<1>6. ASSUME NEW c \in Context, ReadDone(c) PROVE HwTypeOK'
  BY <1>6, Parameters
     DEF ReadDone, ReadReturns, DelayGoesOn, Return, HwTypeOK, hwVars
<1>7. ASSUME NEW c \in Context, OcmpEpoch(c) PROVE HwTypeOK'
  BY <1>7, Parameters
     DEF OcmpEpoch, OcmpReturns, Return, Home, HwTypeOK, hwVars
<1>8. ASSUME NEW c \in Context, OcmpSetCompare(c) PROVE HwTypeOK'
  <2>1. HeadExpiry \in Word
    BY <1>8 DEF OcmpSetCompare, HeadExpiry, Control, DrvTypeOK, Setting, Context
  <2>2. Low16(HeadExpiry) \in 0 .. Low - 1
    BY <2>1, Parameters DEF Low16, Word
  <2>3. QED
    BY <1>8, <2>2 DEF OcmpSetCompare, HwTypeOK
<1>9. ASSUME NEW c \in Context, OcmpClearFlag(c) PROVE HwTypeOK'
  BY <1>9, Parameters
     DEF OcmpClearFlag, HwTypeOK, hwVars
<1>10. ASSUME NEW c \in Context, OcmpEnable(c) PROVE HwTypeOK'
  BY <1>10, Parameters
     DEF OcmpEnable, HwTypeOK, hwVars
<1>11. ASSUME NEW c \in Context, OcmpCheckLate(c) PROVE HwTypeOK'
  BY <1>11, Parameters
     DEF OcmpCheckLate, OcmpReturns, Return, Home, HwTypeOK, hwVars
<1>12. ASSUME NEW c \in Context, StartAtCheck(c) PROVE HwTypeOK'
  BY <1>12, Parameters
     DEF StartAtCheck, Return, Home, HwTypeOK, hwVars
<1>13. ASSUME NEW c \in Context, StartAtInsert(c) PROVE HwTypeOK'
  BY <1>13, Parameters
     DEF StartAtInsert, Return, Home, HwTypeOK, hwVars
<1>14. ASSUME NEW c \in Context, Stop(c) PROVE HwTypeOK'
  BY <1>14, Parameters
     DEF Stop, Return, Home, HwTypeOK, hwVars
<1>15. CASE IrqEnter
  BY <1>15, Parameters
     DEF IrqEnter, HwTypeOK, hwVars
<1>16. CASE IrqCompare
  BY <1>16, Parameters
     DEF IrqCompare, HwTypeOK, hwVars
<1>17. CASE IrqOverflow
  BY <1>17, Parameters
     DEF IrqOverflow, HwTypeOK, hwVars
<1>18. CASE ChkEmpty
  BY <1>18, Parameters
     DEF ChkEmpty, HwTypeOK, hwVars
<1>19. CASE ChkFirst
  BY <1>19, Parameters
     DEF ChkFirst, HwTypeOK, hwVars
<1>20. CASE ChkFire
  BY <1>20, Parameters
     DEF ChkFire, HwTypeOK, hwVars
<1>21. CASE ChkWait
  BY <1>21, Parameters
     DEF ChkWait, HwTypeOK, hwVars
<1>22. CASE IrqExit
  BY <1>22, Parameters
     DEF IrqExit, HwTypeOK, hwVars
<1>23. CASE CbReturn
  BY <1>23, Parameters
     DEF CbReturn, Return, HwTypeOK, hwVars
<1>24. ASSUME NEW t \in Timers, NEW n \in CbTicks, CbStart(t, n) PROVE HwTypeOK'
  BY <1>24, Parameters
     DEF CbStart, Begin, HwTypeOK, hwVars
<1>25. ASSUME NEW t \in Timers, CbStop(t) PROVE HwTypeOK'
  BY <1>25, Parameters
     DEF CbStop, Begin, HwTypeOK, hwVars
<1>26. ASSUME NEW t \in Timers, NEW n \in TaskTicks, TaskStart(t, n) PROVE HwTypeOK'
  BY <1>26, Parameters
     DEF TaskStart, Begin, HwTypeOK, hwVars
<1>27. ASSUME NEW t \in Timers, NEW n \in -Past .. MaxTicks, TaskStartAt(t, n) PROVE HwTypeOK'
  BY <1>27, Parameters
     DEF TaskStartAt, Begin, HwTypeOK, hwVars
<1>28. ASSUME NEW t \in Timers, TaskStop(t) PROVE HwTypeOK'
  BY <1>28, Parameters
     DEF TaskStop, Begin, HwTypeOK, hwVars
<1>29. CASE TaskRead
  BY <1>29, Parameters
     DEF TaskRead, Begin, HwTypeOK, hwVars
<1>30. ASSUME NEW n \in TaskTicks, TaskDelay(n) PROVE HwTypeOK'
  BY <1>30, Parameters
     DEF TaskDelay, Begin, HwTypeOK, hwVars
<1>31. CASE DelayLoop
  BY <1>31, Parameters
     DEF DelayLoop, Begin, HwTypeOK, hwVars
<1>32. CASE UNCHANGED vars
  BY <1>32 DEF vars, HwTypeOK, hwVars, hwVars, drvVars, locals
<1>33. QED
  BY <1>1, <1>2, <1>3, <1>4, <1>5, <1>6, <1>7, <1>8, <1>9, <1>10, <1>11, <1>12,
     <1>13, <1>14, <1>15, <1>16, <1>17, <1>18, <1>19, <1>20, <1>21, <1>22,
     <1>23, <1>24, <1>25, <1>26, <1>27, <1>28, <1>29, <1>30, <1>31, <1>32
     DEF Next, Isr, Task, Driver

LEMMA DrvTypeStep == Inv1 /\ [Next]_vars => DrvTypeOK'
<1> SUFFICES ASSUME Inv1, [Next]_vars PROVE DrvTypeOK'
  OBVIOUS
<1> USE DEF Inv1, TypeOK
<1>1. CASE Tick
  BY <1>1
     DEF Tick, DrvTypeOK, drvVars
<1>2. ASSUME NEW c \in Context, ReadCount(c) PROVE DrvTypeOK'
  BY <1>2
     DEF ReadCount, DrvTypeOK, drvVars
<1>3. ASSUME NEW c \in Context, ReadNoOvf(c) PROVE DrvTypeOK'
  BY <1>3
     DEF ReadNoOvf, ReadReturns, DelayGoesOn, Return, DrvTypeOK, drvVars
<1>4. ASSUME NEW c \in Context, ReadOvf(c) PROVE DrvTypeOK'
  BY <1>4, EpochStep DEF ReadOvf, DrvTypeOK, ReadHalves
<1>5. ASSUME NEW c \in Context, ReadAgain(c) PROVE DrvTypeOK'
  BY <1>5
     DEF ReadAgain, DrvTypeOK, drvVars
<1>6. ASSUME NEW c \in Context, ReadDone(c) PROVE DrvTypeOK'
  BY <1>6
     DEF ReadDone, ReadReturns, DelayGoesOn, Return, DrvTypeOK, drvVars
<1>7. ASSUME NEW c \in Context, OcmpEpoch(c) PROVE DrvTypeOK'
  BY <1>7
     DEF OcmpEpoch, OcmpReturns, Return, Home, DrvTypeOK, drvVars
<1>8. ASSUME NEW c \in Context, OcmpSetCompare(c) PROVE DrvTypeOK'
  BY <1>8
     DEF OcmpSetCompare, DrvTypeOK, drvVars
<1>9. ASSUME NEW c \in Context, OcmpClearFlag(c) PROVE DrvTypeOK'
  BY <1>9
     DEF OcmpClearFlag, DrvTypeOK, drvVars
<1>10. ASSUME NEW c \in Context, OcmpEnable(c) PROVE DrvTypeOK'
  BY <1>10
     DEF OcmpEnable, DrvTypeOK, drvVars
<1>11. ASSUME NEW c \in Context, OcmpCheckLate(c) PROVE DrvTypeOK'
  BY <1>11
     DEF OcmpCheckLate, OcmpReturns, Return, Home, DrvTypeOK, drvVars
<1>12. ASSUME NEW c \in Context, StartAtCheck(c) PROVE DrvTypeOK'
  BY <1>12 DEF StartAtCheck, DrvTypeOK, CpuTypeOK, Control
<1>13. ASSUME NEW c \in Context, StartAtInsert(c) PROVE DrvTypeOK'
  <2>1. cur[c] \in Timers /\ expiry \in [Timers -> Int]
    BY <1>13, Parameters DEF StartAtInsert, Control, DrvTypeOK, Word
  <2>2. InsertPos(cur[c]) \in 1 .. Len(q) + 1
    BY <2>1, InsertPosType DEF DrvTypeOK
  <2>3. q' \in Seq(Timers)
    BY <1>13, <2>1, <2>2, InsertType DEF StartAtInsert, DrvTypeOK
  <2>4. QED
    BY <1>13, <2>3 DEF StartAtInsert, DrvTypeOK
<1>14. ASSUME NEW c \in Context, Stop(c) PROVE DrvTypeOK'
  <2>1. cur[c] \in Timers
    BY <1>14 DEF Stop, Control
  <2>2. q' \in Seq(Timers)
    BY <1>14, <2>1, UnlinkedType, RemoveType DEF Stop, DrvTypeOK
  <2>3. QED
    BY <1>14, <2>2 DEF Stop, DrvTypeOK
<1>15. CASE IrqEnter
  BY <1>15
     DEF IrqEnter, DrvTypeOK, drvVars
<1>16. CASE IrqCompare
  BY <1>16
     DEF IrqCompare, DrvTypeOK, drvVars
<1>17. CASE IrqOverflow
  BY <1>17, EpochStep DEF IrqOverflow, DrvTypeOK
<1>18. CASE ChkEmpty
  BY <1>18
     DEF ChkEmpty, DrvTypeOK, drvVars
<1>19. CASE ChkFirst
  BY <1>19
     DEF ChkFirst, DrvTypeOK, drvVars
<1>20. CASE ChkFire
  BY <1>20 DEF ChkFire, DrvTypeOK, Control
<1>21. CASE ChkWait
  BY <1>21
     DEF ChkWait, DrvTypeOK, drvVars
<1>22. CASE IrqExit
  BY <1>22
     DEF IrqExit, DrvTypeOK, drvVars
<1>23. CASE CbReturn
  BY <1>23
     DEF CbReturn, Return, DrvTypeOK, drvVars
<1>24. ASSUME NEW t \in Timers, NEW n \in CbTicks, CbStart(t, n) PROVE DrvTypeOK'
  BY <1>24
     DEF CbStart, Begin, DrvTypeOK, drvVars
<1>25. ASSUME NEW t \in Timers, CbStop(t) PROVE DrvTypeOK'
  BY <1>25
     DEF CbStop, Begin, DrvTypeOK, drvVars
<1>26. ASSUME NEW t \in Timers, NEW n \in TaskTicks, TaskStart(t, n) PROVE DrvTypeOK'
  BY <1>26
     DEF TaskStart, Begin, DrvTypeOK, drvVars
<1>27. ASSUME NEW t \in Timers, NEW n \in -Past .. MaxTicks, TaskStartAt(t, n) PROVE DrvTypeOK'
  BY <1>27
     DEF TaskStartAt, Begin, DrvTypeOK, drvVars
<1>28. ASSUME NEW t \in Timers, TaskStop(t) PROVE DrvTypeOK'
  BY <1>28
     DEF TaskStop, Begin, DrvTypeOK, drvVars
<1>29. CASE TaskRead
  BY <1>29
     DEF TaskRead, Begin, DrvTypeOK, drvVars
<1>30. ASSUME NEW n \in TaskTicks, TaskDelay(n) PROVE DrvTypeOK'
  BY <1>30
     DEF TaskDelay, Begin, DrvTypeOK, drvVars
<1>31. CASE DelayLoop
  BY <1>31
     DEF DelayLoop, Begin, DrvTypeOK, drvVars
<1>32. CASE UNCHANGED vars
  BY <1>32 DEF vars, DrvTypeOK, drvVars, hwVars, drvVars, locals
<1>33. QED
  BY <1>1, <1>2, <1>3, <1>4, <1>5, <1>6, <1>7, <1>8, <1>9, <1>10, <1>11, <1>12,
     <1>13, <1>14, <1>15, <1>16, <1>17, <1>18, <1>19, <1>20, <1>21, <1>22,
     <1>23, <1>24, <1>25, <1>26, <1>27, <1>28, <1>29, <1>30, <1>31, <1>32
     DEF Next, Isr, Task, Driver

LEMMA CpuTypeStep == Inv1 /\ [Next]_vars => CpuTypeOK'
<1> SUFFICES ASSUME Inv1, [Next]_vars PROVE CpuTypeOK'
  OBVIOUS
<1> USE DEF Inv1, TypeOK
<1>1. CASE Tick
  BY <1>1 DEF Tick, CpuTypeOK, locals
<1>2. ASSUME NEW c \in Context, ReadCount(c) PROVE CpuTypeOK'
  <2>a. tmr_cntr \in Nat /\ tmr_cntr + Low <= Modulus
    BY EpochStep DEF DrvTypeOK
  <2>1. tmr_cntr \in Word
    BY <2>a, Parameters DEF Word
  <2>2. QED
    BY <1>2, <2>1 DEF ReadCount, Goto, CpuTypeOK, HwTypeOK, HistTypeOK, Labels
<1>3. ASSUME NEW c \in Context, ReadNoOvf(c) PROVE CpuTypeOK'
  <2>1. tcntr[c] + low[c] \in Word
    BY <1>3, ReadSum DEF ReadNoOvf, ReadHalves
  <2>2. QED
    BY <1>3, <2>1, ReadReturnsType DEF ReadNoOvf, Reading
<1>4. ASSUME NEW c \in Context, ReadOvf(c) PROVE CpuTypeOK'
  <2>1. Wrap(tcntr[c] + Low) \in Word
    BY Parameters DEF Wrap, Word, CpuTypeOK
  <2>2. QED
    BY <1>4, <2>1 DEF ReadOvf, Goto, CpuTypeOK, Labels
<1>5. ASSUME NEW c \in Context, ReadAgain(c) PROVE CpuTypeOK'
  BY <1>5 DEF ReadAgain, Goto, CpuTypeOK, HwTypeOK, HistTypeOK, Labels
<1>6. ASSUME NEW c \in Context, ReadDone(c) PROVE CpuTypeOK'
  <2>1. tcntr[c] + low[c] \in Word
    BY <1>6, ReadSum DEF ReadDone, ReadHalves
  <2>2. QED
    BY <1>6, <2>1, ReadReturnsType DEF ReadDone, Reading
<1>7. ASSUME NEW c \in Context, OcmpEpoch(c) PROVE CpuTypeOK'
  BY <1>7, ReturnType, GotoType, LabelFacts DEF OcmpEpoch, OcmpReturns, Home,
     locals
<1>8. ASSUME NEW c \in Context, OcmpSetCompare(c) PROVE CpuTypeOK'
  BY <1>8, GotoType, LabelFacts DEF OcmpSetCompare, locals
<1>9. ASSUME NEW c \in Context, OcmpClearFlag(c) PROVE CpuTypeOK'
  BY <1>9, GotoType, LabelFacts DEF OcmpClearFlag, locals
<1>10. ASSUME NEW c \in Context, OcmpEnable(c) PROVE CpuTypeOK'
  BY <1>10, GotoType, LabelFacts DEF OcmpEnable, locals
<1>11. ASSUME NEW c \in Context, OcmpCheckLate(c) PROVE CpuTypeOK'
  BY <1>11, ReturnType, LabelFacts DEF OcmpCheckLate, OcmpReturns, Home
<1>12. ASSUME NEW c \in Context, StartAtCheck(c) PROVE CpuTypeOK'
  BY <1>12, ReturnType, GotoType, LabelFacts DEF StartAtCheck, Home, locals
<1>13. ASSUME NEW c \in Context, StartAtInsert(c) PROVE CpuTypeOK'
  BY <1>13, ReturnType, GotoType, LabelFacts DEF StartAtInsert, Home, locals
<1>14. ASSUME NEW c \in Context, Stop(c) PROVE CpuTypeOK'
  BY <1>14, ReturnType, GotoType, LabelFacts DEF Stop, Home, locals
<1>15. CASE IrqEnter
  BY <1>15, GotoType, LabelFacts DEF IrqEnter, locals
<1>16. CASE IrqCompare
  BY <1>16, GotoType, LabelFacts DEF IrqCompare, locals
<1>17. CASE IrqOverflow
  BY <1>17, GotoType, LabelFacts DEF IrqOverflow, locals
<1>18. CASE ChkEmpty
  BY <1>18, GotoType, LabelFacts DEF ChkEmpty, locals
<1>19. CASE ChkFirst
  BY <1>19 DEF ChkFirst, Goto, CpuTypeOK, Labels
<1>20. CASE ChkFire
  <2>1. Head(q) \in Timers /\ 0 \in Word
    BY <1>20, Parameters DEF ChkFire, Control, DrvTypeOK, Word
  <2>2. QED
    BY <1>20, <2>1 DEF ChkFire, Goto, CpuTypeOK, Labels
<1>21. CASE ChkWait
  <2>1. 0 \in Word
    BY Parameters DEF Word
  <2>2. QED
    BY <1>21, <2>1 DEF ChkWait, Goto, CpuTypeOK, Labels
<1>22. CASE IrqExit
  BY <1>22, GotoType, LabelFacts DEF IrqExit, locals
<1>23. CASE CbReturn
  BY <1>23, ReturnType, LabelFacts DEF CbReturn, Context
<1>24. ASSUME NEW t \in Timers, NEW n \in CbTicks, CbStart(t, n) PROVE CpuTypeOK'
  <2>1. n \in Word
    BY Parameters DEF Word
  <2>2. QED
    BY <1>24, <2>1, BeginType, LabelFacts DEF CbStart, Context, CpuTypeOK,
       Control
<1>25. ASSUME NEW t \in Timers, CbStop(t) PROVE CpuTypeOK'
  <2>1. 0 \in Word
    BY Parameters DEF Word
  <2>2. QED
    BY <1>25, <2>1, BeginType, LabelFacts DEF CbStop, Context, CpuTypeOK
<1>26. ASSUME NEW t \in Timers, NEW n \in TaskTicks, TaskStart(t, n) PROVE CpuTypeOK'
  <2>1. n \in Word
    BY Parameters DEF Word
  <2>2. QED
    BY <1>26, <2>1, BeginType, LabelFacts DEF TaskStart, Context, CpuTypeOK,
       Control
<1>27. ASSUME NEW t \in Timers, NEW n \in -Past .. MaxTicks, TaskStartAt(t, n) PROVE CpuTypeOK'
  <2>1. Wrap(now + n) \in Word
    BY Parameters DEF Wrap, Word, HistTypeOK
  <2>2. seen' \in [Context -> Word]
    BY <1>27, <2>1 DEF TaskStartAt, CpuTypeOK
  <2>3. QED
    BY <1>27, <2>1, <2>2, BeginType, LabelFacts DEF TaskStartAt, Context
<1>28. ASSUME NEW t \in Timers, TaskStop(t) PROVE CpuTypeOK'
  <2>1. 0 \in Word
    BY Parameters DEF Word
  <2>2. QED
    BY <1>28, <2>1, BeginType, LabelFacts DEF TaskStop, Context, CpuTypeOK
<1>29. CASE TaskRead
  <2>1. 0 \in Word
    BY Parameters DEF Word
  <2>2. QED
    BY <1>29, <2>1, BeginType, LabelFacts DEF TaskRead, Context, CpuTypeOK
<1>30. ASSUME NEW n \in TaskTicks, TaskDelay(n) PROVE CpuTypeOK'
  <2>1. n \in Word
    BY Parameters DEF Word
  <2>2. QED
    BY <1>30, <2>1, BeginType, LabelFacts DEF TaskDelay, Context, CpuTypeOK,
       Control
<1>31. CASE DelayLoop
  BY <1>31, BeginType, LabelFacts DEF DelayLoop, Context, CpuTypeOK
<1>32. CASE UNCHANGED vars
  BY <1>32 DEF vars, CpuTypeOK, locals, hwVars, drvVars, locals
<1>33. QED
  BY <1>1, <1>2, <1>3, <1>4, <1>5, <1>6, <1>7, <1>8, <1>9, <1>10, <1>11, <1>12,
     <1>13, <1>14, <1>15, <1>16, <1>17, <1>18, <1>19, <1>20, <1>21, <1>22,
     <1>23, <1>24, <1>25, <1>26, <1>27, <1>28, <1>29, <1>30, <1>31, <1>32
     DEF Next, Isr, Task, Driver

LEMMA HistTypeStep == Inv1 /\ [Next]_vars => HistTypeOK'
<1> SUFFICES ASSUME Inv1, [Next]_vars PROVE HistTypeOK'
  OBVIOUS
<1> USE DEF Inv1, TypeOK
<1>0. 0 \in 0 .. Latency
  BY Parameters
<1>1. CASE Tick
  <2>1. now' \in Word
    BY <1>1, Parameters DEF Tick, HistTypeOK, Wrap, Word
  <2>2. QED
    BY <1>1, <2>1, Parameters DEF Tick, HistTypeOK
<1>2. ASSUME NEW c \in Context, ReadCount(c) PROVE HistTypeOK'
  BY <1>2, <1>0
     DEF ReadCount, Settle, HistTypeOK
<1>3. ASSUME NEW c \in Context, ReadNoOvf(c) PROVE HistTypeOK'
  BY <1>3, <1>0
     DEF ReadNoOvf, ReadReturns, DelayGoesOn, Return, Settle, HistTypeOK
<1>4. ASSUME NEW c \in Context, ReadOvf(c) PROVE HistTypeOK'
  BY <1>4, <1>0
     DEF ReadOvf, Settle, HistTypeOK
<1>5. ASSUME NEW c \in Context, ReadAgain(c) PROVE HistTypeOK'
  BY <1>5, <1>0
     DEF ReadAgain, Settle, HistTypeOK
<1>6. ASSUME NEW c \in Context, ReadDone(c) PROVE HistTypeOK'
  BY <1>6, <1>0
     DEF ReadDone, ReadReturns, DelayGoesOn, Return, Settle, HistTypeOK
<1>7. ASSUME NEW c \in Context, OcmpEpoch(c) PROVE HistTypeOK'
  BY <1>7, <1>0
     DEF OcmpEpoch, OcmpReturns, Return, Home, Settle, HistTypeOK
<1>8. ASSUME NEW c \in Context, OcmpSetCompare(c) PROVE HistTypeOK'
  BY <1>8, <1>0
     DEF OcmpSetCompare, Settle, HistTypeOK
<1>9. ASSUME NEW c \in Context, OcmpClearFlag(c) PROVE HistTypeOK'
  BY <1>9, <1>0
     DEF OcmpClearFlag, Settle, HistTypeOK
<1>10. ASSUME NEW c \in Context, OcmpEnable(c) PROVE HistTypeOK'
  BY <1>10, <1>0
     DEF OcmpEnable, Settle, HistTypeOK
<1>11. ASSUME NEW c \in Context, OcmpCheckLate(c) PROVE HistTypeOK'
  BY <1>11, <1>0
     DEF OcmpCheckLate, OcmpReturns, Return, Home, Settle, HistTypeOK
<1>12. ASSUME NEW c \in Context, StartAtCheck(c) PROVE HistTypeOK'
  BY <1>12, <1>0
     DEF StartAtCheck, Return, Home, Settle, HistTypeOK
<1>13. ASSUME NEW c \in Context, StartAtInsert(c) PROVE HistTypeOK'
  <2>1. Signed(seen[c], now) \in Int
    BY Parameters DEF Signed, CpuTypeOK, HistTypeOK, Word
  <2>2. QED
    BY <1>13, <1>0, <2>1 DEF StartAtInsert, Settle, HistTypeOK
<1>14. ASSUME NEW c \in Context, Stop(c) PROVE HistTypeOK'
  BY <1>14, <1>0
     DEF Stop, Return, Home, Settle, HistTypeOK
<1>15. CASE IrqEnter
  BY <1>15, <1>0
     DEF IrqEnter, Settle, HistTypeOK
<1>16. CASE IrqCompare
  BY <1>16, <1>0
     DEF IrqCompare, Settle, HistTypeOK
<1>17. CASE IrqOverflow
  BY <1>17, <1>0
     DEF IrqOverflow, Settle, HistTypeOK
<1>18. CASE ChkEmpty
  BY <1>18, <1>0
     DEF ChkEmpty, Settle, HistTypeOK
<1>19. CASE ChkFirst
  BY <1>19, <1>0
     DEF ChkFirst, Settle, HistTypeOK
<1>20. CASE ChkFire
  <2>1. Head(q) \in Timers
    BY <1>20 DEF ChkFire, Control, DrvTypeOK
  <2>2. QED
    BY <1>20, <1>0, <2>1 DEF ChkFire, Settle, HistTypeOK
<1>21. CASE ChkWait
  BY <1>21, <1>0
     DEF ChkWait, Settle, HistTypeOK
<1>22. CASE IrqExit
  BY <1>22, <1>0
     DEF IrqExit, Settle, HistTypeOK
<1>23. CASE CbReturn
  BY <1>23, <1>0
     DEF CbReturn, Return, Settle, HistTypeOK
<1>24. ASSUME NEW t \in Timers, NEW n \in CbTicks, CbStart(t, n) PROVE HistTypeOK'
  BY <1>24, <1>0
     DEF CbStart, Begin, Settle, HistTypeOK
<1>25. ASSUME NEW t \in Timers, CbStop(t) PROVE HistTypeOK'
  BY <1>25, <1>0
     DEF CbStop, Begin, Settle, HistTypeOK
<1>26. ASSUME NEW t \in Timers, NEW n \in TaskTicks, TaskStart(t, n) PROVE HistTypeOK'
  BY <1>26, <1>0
     DEF TaskStart, Begin, Settle, HistTypeOK
<1>27. ASSUME NEW t \in Timers, NEW n \in -Past .. MaxTicks, TaskStartAt(t, n) PROVE HistTypeOK'
  BY <1>27, <1>0
     DEF TaskStartAt, Begin, Settle, HistTypeOK
<1>28. ASSUME NEW t \in Timers, TaskStop(t) PROVE HistTypeOK'
  BY <1>28, <1>0
     DEF TaskStop, Begin, Settle, HistTypeOK
<1>29. CASE TaskRead
  BY <1>29, <1>0
     DEF TaskRead, Begin, Settle, HistTypeOK
<1>30. ASSUME NEW n \in TaskTicks, TaskDelay(n) PROVE HistTypeOK'
  BY <1>30, <1>0
     DEF TaskDelay, Begin, Settle, HistTypeOK
<1>31. CASE DelayLoop
  BY <1>31, <1>0
     DEF DelayLoop, Begin, Settle, HistTypeOK
<1>32. CASE UNCHANGED vars
  BY <1>32 DEF vars, Settle, HistTypeOK, hwVars, drvVars, locals
<1>33. QED
  BY <1>1, <1>2, <1>3, <1>4, <1>5, <1>6, <1>7, <1>8, <1>9, <1>10, <1>11, <1>12,
     <1>13, <1>14, <1>15, <1>16, <1>17, <1>18, <1>19, <1>20, <1>21, <1>22,
     <1>23, <1>24, <1>25, <1>26, <1>27, <1>28, <1>29, <1>30, <1>31, <1>32
     DEF Next, Isr, Task, Driver

\* Inserting leaves a queue that is not empty; so does stopping the first of
\* several timers.
LEMMA QueueStep ==
    ASSUME Inv1, NEW t \in Timers
    PROVE  /\ InsertAt(q, InsertPos(t), t) # <<>>
           /\ InQueue(t) /\ Len(q) > 1 => Unlinked(t) # <<>>
<1> USE DEF Inv1, TypeOK
<1>1. expiry \in [Timers -> Int]
  BY Parameters DEF DrvTypeOK, Word
<1>2. InsertPos(t) \in 1 .. Len(q) + 1
  BY <1>1, InsertPosType DEF DrvTypeOK
<1>3. InsertAt(q, InsertPos(t), t) # <<>>
  BY <1>2 DEF InsertAt, DrvTypeOK
<1>4. ASSUME InQueue(t), Len(q) > 1 PROVE Unlinked(t) # <<>>
  <2>1. PICK i \in 1 .. Len(q) : Unlinked(t) = RemoveAt(q, i)
    BY <1>4, UnlinkedType DEF DrvTypeOK
  <2>2. Len(RemoveAt(q, i)) = Len(q) - 1
    <3>1. Len(SubSeq(q, 1, i - 1)) = i - 1
      BY DEF DrvTypeOK
    <3>2. Len(SubSeq(q, i + 1, Len(q))) = Len(q) - i
      BY DEF DrvTypeOK
    <3>3. SubSeq(q, 1, i - 1) \in Seq(Timers) /\ SubSeq(q, i + 1, Len(q)) \in Seq(Timers)
      BY DEF DrvTypeOK
    <3>4. \A s1, s2 \in Seq(Timers) : Len(s1 \o s2) = Len(s1) + Len(s2)
      OBVIOUS
    <3>5. Len(RemoveAt(q, i)) = (i - 1) + (Len(q) - i)
      BY <3>1, <3>2, <3>3, <3>4 DEF RemoveAt
    <3>6. Len(q) \in Nat
      BY DEF DrvTypeOK
    <3>7. QED
      BY <3>5, <3>6
  <2>3. QED
    BY <1>4, <2>1, <2>2 DEF DrvTypeOK
<1>5. QED
  BY <1>3, <1>4

\* Every step leaves both contexts where the invariant says.
LEMMA ControlStep == Inv1 /\ [Next]_vars => Control'
<1> SUFFICES ASSUME Inv1, [Next]_vars PROVE Control'
  OBVIOUS
<1> USE DEF Inv1, TypeOK
<1>1. CASE Tick
  BY <1>1
     DEF Tick, Control, Runs, Goto, Context, Labels, Reading, Setting, IsrOff,
         Masked, CpuTypeOK, locals, drvVars
<1>2. ASSUME NEW c \in Context, ReadCount(c) PROVE Control'
  BY <1>2
     DEF ReadCount, Control, Runs, Goto, Context, Labels, Reading, Setting,
         IsrOff, Masked, CpuTypeOK, locals, drvVars
<1>3. ASSUME NEW c \in Context, ReadNoOvf(c) PROVE Control'
  BY <1>3
     DEF ReadNoOvf, ReadReturns, DelayGoesOn, Return, Control, Runs, Goto,
         Context, Labels, Reading, Setting, IsrOff, Masked, CpuTypeOK, locals,
         drvVars
<1>4. ASSUME NEW c \in Context, ReadOvf(c) PROVE Control'
  BY <1>4
     DEF ReadOvf, Control, Runs, Goto, Context, Labels, Reading, Setting,
         IsrOff, Masked, CpuTypeOK, locals, drvVars
<1>5. ASSUME NEW c \in Context, ReadAgain(c) PROVE Control'
  BY <1>5
     DEF ReadAgain, Control, Runs, Goto, Context, Labels, Reading, Setting,
         IsrOff, Masked, CpuTypeOK, locals, drvVars
<1>6. ASSUME NEW c \in Context, ReadDone(c) PROVE Control'
  BY <1>6
     DEF ReadDone, ReadReturns, DelayGoesOn, Return, Control, Runs, Goto,
         Context, Labels, Reading, Setting, IsrOff, Masked, CpuTypeOK, locals,
         drvVars
<1>7. ASSUME NEW c \in Context, OcmpEpoch(c) PROVE Control'
  BY <1>7
     DEF OcmpEpoch, OcmpReturns, Return, Home, Control, Runs, Goto, Context,
         Labels, Reading, Setting, IsrOff, Masked, CpuTypeOK, locals, drvVars
<1>8. ASSUME NEW c \in Context, OcmpSetCompare(c) PROVE Control'
  BY <1>8
     DEF OcmpSetCompare, Control, Runs, Goto, Context, Labels, Reading,
         Setting, IsrOff, Masked, CpuTypeOK, locals, drvVars
<1>9. ASSUME NEW c \in Context, OcmpClearFlag(c) PROVE Control'
  BY <1>9
     DEF OcmpClearFlag, Control, Runs, Goto, Context, Labels, Reading, Setting,
         IsrOff, Masked, CpuTypeOK, locals, drvVars
<1>10. ASSUME NEW c \in Context, OcmpEnable(c) PROVE Control'
  BY <1>10
     DEF OcmpEnable, Control, Runs, Goto, Context, Labels, Reading, Setting,
         IsrOff, Masked, CpuTypeOK, locals, drvVars
<1>11. ASSUME NEW c \in Context, OcmpCheckLate(c) PROVE Control'
  BY <1>11
     DEF OcmpCheckLate, OcmpReturns, Return, Home, Control, Runs, Goto,
         Context, Labels, Reading, Setting, IsrOff, Masked, CpuTypeOK, locals,
         drvVars
<1>12. ASSUME NEW c \in Context, StartAtCheck(c) PROVE Control'
  BY <1>12
     DEF StartAtCheck, Return, Home, Control, Runs, Goto, Context, Labels,
         Reading, Setting, IsrOff, Masked, CpuTypeOK, locals, drvVars
<1>13. ASSUME NEW c \in Context, StartAtInsert(c) PROVE Control'
  BY <1>13, QueueStep
     DEF StartAtInsert, Return, Home, Control, Runs, Goto, Context, Labels,
         Reading, Setting, IsrOff, Masked, CpuTypeOK, locals, drvVars
<1>14. ASSUME NEW c \in Context, Stop(c) PROVE Control'
  BY <1>14, QueueStep
     DEF Stop, Return, Home, Control, Runs, Goto, Context, Labels, Reading,
         Setting, IsrOff, Masked, CpuTypeOK, locals, drvVars
<1>15. CASE IrqEnter
  BY <1>15
     DEF IrqEnter, Control, Runs, Goto, Context, Labels, Reading, Setting,
         IsrOff, Masked, CpuTypeOK, locals, drvVars
<1>16. CASE IrqCompare
  BY <1>16
     DEF IrqCompare, Control, Runs, Goto, Context, Labels, Reading, Setting,
         IsrOff, Masked, CpuTypeOK, locals, drvVars
<1>17. CASE IrqOverflow
  BY <1>17
     DEF IrqOverflow, Control, Runs, Goto, Context, Labels, Reading, Setting,
         IsrOff, Masked, CpuTypeOK, locals, drvVars
<1>18. CASE ChkEmpty
  BY <1>18
     DEF ChkEmpty, Control, Runs, Goto, Context, Labels, Reading, Setting,
         IsrOff, Masked, CpuTypeOK, locals, drvVars
<1>19. CASE ChkFirst
  BY <1>19
     DEF ChkFirst, Control, Runs, Goto, Context, Labels, Reading, Setting,
         IsrOff, Masked, CpuTypeOK, locals, drvVars
<1>20. CASE ChkFire
  <2>1. Head(q) \in Timers
    BY <1>20 DEF ChkFire, Control, DrvTypeOK
  <2>2. QED
    BY <1>20, <2>1
       DEF ChkFire, Control, Runs, Goto, Context, Labels, Reading, Setting,
           IsrOff, Masked, CpuTypeOK, locals, drvVars
<1>21. CASE ChkWait
  BY <1>21
     DEF ChkWait, Control, Runs, Goto, Context, Labels, Reading, Setting,
         IsrOff, Masked, CpuTypeOK, locals, drvVars
<1>22. CASE IrqExit
  BY <1>22
     DEF IrqExit, Control, Runs, Goto, Context, Labels, Reading, Setting,
         IsrOff, Masked, CpuTypeOK, locals, drvVars
<1>23. CASE CbReturn
  BY <1>23
     DEF CbReturn, Return, Control, Runs, Goto, Context, Labels, Reading,
         Setting, IsrOff, Masked, CpuTypeOK, locals, drvVars
<1>24. ASSUME NEW t \in Timers, NEW n \in CbTicks, CbStart(t, n) PROVE Control'
  BY <1>24
     DEF CbStart, Begin, Control, Runs, Goto, Context, Labels, Reading,
         Setting, IsrOff, Masked, CpuTypeOK, locals, drvVars
<1>25. ASSUME NEW t \in Timers, CbStop(t) PROVE Control'
  BY <1>25
     DEF CbStop, Begin, Control, Runs, Goto, Context, Labels, Reading, Setting,
         IsrOff, Masked, CpuTypeOK, locals, drvVars
<1>26. ASSUME NEW t \in Timers, NEW n \in TaskTicks, TaskStart(t, n) PROVE Control'
  BY <1>26
     DEF TaskStart, Begin, Control, Runs, Goto, Context, Labels, Reading,
         Setting, IsrOff, Masked, CpuTypeOK, locals, drvVars
<1>27. ASSUME NEW t \in Timers, NEW n \in -Past .. MaxTicks, TaskStartAt(t, n) PROVE Control'
  BY <1>27
     DEF TaskStartAt, Begin, Control, Runs, Goto, Context, Labels, Reading,
         Setting, IsrOff, Masked, CpuTypeOK, locals, drvVars
<1>28. ASSUME NEW t \in Timers, TaskStop(t) PROVE Control'
  BY <1>28
     DEF TaskStop, Begin, Control, Runs, Goto, Context, Labels, Reading,
         Setting, IsrOff, Masked, CpuTypeOK, locals, drvVars
<1>29. CASE TaskRead
  BY <1>29
     DEF TaskRead, Begin, Control, Runs, Goto, Context, Labels, Reading,
         Setting, IsrOff, Masked, CpuTypeOK, locals, drvVars
<1>30. ASSUME NEW n \in TaskTicks, TaskDelay(n) PROVE Control'
  BY <1>30
     DEF TaskDelay, Begin, Control, Runs, Goto, Context, Labels, Reading,
         Setting, IsrOff, Masked, CpuTypeOK, locals, drvVars
<1>31. CASE DelayLoop
  BY <1>31
     DEF DelayLoop, Begin, Control, Runs, Goto, Context, Labels, Reading,
         Setting, IsrOff, Masked, CpuTypeOK, locals, drvVars
<1>32. CASE UNCHANGED vars
  BY <1>32 DEF vars, Control, Runs, Goto, Context, Labels, Reading, Setting,
     IsrOff, Masked, CpuTypeOK, locals, drvVars, hwVars, drvVars, locals
<1>33. QED
  BY <1>1, <1>2, <1>3, <1>4, <1>5, <1>6, <1>7, <1>8, <1>9, <1>10, <1>11, <1>12,
     <1>13, <1>14, <1>15, <1>16, <1>17, <1>18, <1>19, <1>20, <1>21, <1>22,
     <1>23, <1>24, <1>25, <1>26, <1>27, <1>28, <1>29, <1>30, <1>31, <1>32
     DEF Next, Isr, Task, Driver

\* Only a reader in its critical section changes tmr_cntr under a reader.
LEMMA ReadHalvesStep == Inv1 /\ [Next]_vars => ReadHalves'
<1> SUFFICES ASSUME Inv1, [Next]_vars PROVE ReadHalves'
  OBVIOUS
<1> USE DEF Inv1, TypeOK
<1>1. CASE Tick
  BY <1>1
     DEF Tick, ReadHalves, Control, Runs, Goto, Context, IsrOff, Masked,
         CpuTypeOK, locals, drvVars
<1>2. ASSUME NEW c \in Context, ReadCount(c) PROVE ReadHalves'
  BY <1>2
     DEF ReadCount, ReadHalves, Control, Runs, Goto, Context, IsrOff, Masked,
         CpuTypeOK, locals, drvVars
<1>3. ASSUME NEW c \in Context, ReadNoOvf(c) PROVE ReadHalves'
  BY <1>3
     DEF ReadNoOvf, ReadReturns, DelayGoesOn, Return, ReadHalves, Control,
         Runs, Goto, Context, IsrOff, Masked, CpuTypeOK, locals, drvVars
<1>4. ASSUME NEW c \in Context, ReadOvf(c) PROVE ReadHalves'
  BY <1>4
     DEF ReadOvf, ReadHalves, Control, Runs, Goto, Context, IsrOff, Masked,
         CpuTypeOK, locals, drvVars
<1>5. ASSUME NEW c \in Context, ReadAgain(c) PROVE ReadHalves'
  BY <1>5
     DEF ReadAgain, ReadHalves, Control, Runs, Goto, Context, IsrOff, Masked,
         CpuTypeOK, locals, drvVars
<1>6. ASSUME NEW c \in Context, ReadDone(c) PROVE ReadHalves'
  BY <1>6
     DEF ReadDone, ReadReturns, DelayGoesOn, Return, ReadHalves, Control, Runs,
         Goto, Context, IsrOff, Masked, CpuTypeOK, locals, drvVars
<1>7. ASSUME NEW c \in Context, OcmpEpoch(c) PROVE ReadHalves'
  BY <1>7
     DEF OcmpEpoch, OcmpReturns, Return, Home, ReadHalves, Control, Runs, Goto,
         Context, IsrOff, Masked, CpuTypeOK, locals, drvVars
<1>8. ASSUME NEW c \in Context, OcmpSetCompare(c) PROVE ReadHalves'
  BY <1>8
     DEF OcmpSetCompare, ReadHalves, Control, Runs, Goto, Context, IsrOff,
         Masked, CpuTypeOK, locals, drvVars
<1>9. ASSUME NEW c \in Context, OcmpClearFlag(c) PROVE ReadHalves'
  BY <1>9
     DEF OcmpClearFlag, ReadHalves, Control, Runs, Goto, Context, IsrOff,
         Masked, CpuTypeOK, locals, drvVars
<1>10. ASSUME NEW c \in Context, OcmpEnable(c) PROVE ReadHalves'
  BY <1>10
     DEF OcmpEnable, ReadHalves, Control, Runs, Goto, Context, IsrOff, Masked,
         CpuTypeOK, locals, drvVars
<1>11. ASSUME NEW c \in Context, OcmpCheckLate(c) PROVE ReadHalves'
  BY <1>11
     DEF OcmpCheckLate, OcmpReturns, Return, Home, ReadHalves, Control, Runs,
         Goto, Context, IsrOff, Masked, CpuTypeOK, locals, drvVars
<1>12. ASSUME NEW c \in Context, StartAtCheck(c) PROVE ReadHalves'
  BY <1>12
     DEF StartAtCheck, Return, Home, ReadHalves, Control, Runs, Goto, Context,
         IsrOff, Masked, CpuTypeOK, locals, drvVars
<1>13. ASSUME NEW c \in Context, StartAtInsert(c) PROVE ReadHalves'
  BY <1>13
     DEF StartAtInsert, Return, Home, ReadHalves, Control, Runs, Goto, Context,
         IsrOff, Masked, CpuTypeOK, locals, drvVars
<1>14. ASSUME NEW c \in Context, Stop(c) PROVE ReadHalves'
  BY <1>14
     DEF Stop, Return, Home, ReadHalves, Control, Runs, Goto, Context, IsrOff,
         Masked, CpuTypeOK, locals, drvVars
<1>15. CASE IrqEnter
  BY <1>15
     DEF IrqEnter, ReadHalves, Control, Runs, Goto, Context, IsrOff, Masked,
         CpuTypeOK, locals, drvVars
<1>16. CASE IrqCompare
  BY <1>16
     DEF IrqCompare, ReadHalves, Control, Runs, Goto, Context, IsrOff, Masked,
         CpuTypeOK, locals, drvVars
<1>17. CASE IrqOverflow
  BY <1>17
     DEF IrqOverflow, ReadHalves, Control, Runs, Goto, Context, IsrOff, Masked,
         CpuTypeOK, locals, drvVars
<1>18. CASE ChkEmpty
  BY <1>18
     DEF ChkEmpty, ReadHalves, Control, Runs, Goto, Context, IsrOff, Masked,
         CpuTypeOK, locals, drvVars
<1>19. CASE ChkFirst
  BY <1>19
     DEF ChkFirst, ReadHalves, Control, Runs, Goto, Context, IsrOff, Masked,
         CpuTypeOK, locals, drvVars
<1>20. CASE ChkFire
  BY <1>20
     DEF ChkFire, ReadHalves, Control, Runs, Goto, Context, IsrOff, Masked,
         CpuTypeOK, locals, drvVars
<1>21. CASE ChkWait
  BY <1>21
     DEF ChkWait, ReadHalves, Control, Runs, Goto, Context, IsrOff, Masked,
         CpuTypeOK, locals, drvVars
<1>22. CASE IrqExit
  BY <1>22
     DEF IrqExit, ReadHalves, Control, Runs, Goto, Context, IsrOff, Masked,
         CpuTypeOK, locals, drvVars
<1>23. CASE CbReturn
  BY <1>23
     DEF CbReturn, Return, ReadHalves, Control, Runs, Goto, Context, IsrOff,
         Masked, CpuTypeOK, locals, drvVars
<1>24. ASSUME NEW t \in Timers, NEW n \in CbTicks, CbStart(t, n) PROVE ReadHalves'
  BY <1>24
     DEF CbStart, Begin, ReadHalves, Control, Runs, Goto, Context, IsrOff,
         Masked, CpuTypeOK, locals, drvVars
<1>25. ASSUME NEW t \in Timers, CbStop(t) PROVE ReadHalves'
  BY <1>25
     DEF CbStop, Begin, ReadHalves, Control, Runs, Goto, Context, IsrOff,
         Masked, CpuTypeOK, locals, drvVars
<1>26. ASSUME NEW t \in Timers, NEW n \in TaskTicks, TaskStart(t, n) PROVE ReadHalves'
  BY <1>26
     DEF TaskStart, Begin, ReadHalves, Control, Runs, Goto, Context, IsrOff,
         Masked, CpuTypeOK, locals, drvVars
<1>27. ASSUME NEW t \in Timers, NEW n \in -Past .. MaxTicks, TaskStartAt(t, n) PROVE ReadHalves'
  BY <1>27
     DEF TaskStartAt, Begin, ReadHalves, Control, Runs, Goto, Context, IsrOff,
         Masked, CpuTypeOK, locals, drvVars
<1>28. ASSUME NEW t \in Timers, TaskStop(t) PROVE ReadHalves'
  BY <1>28
     DEF TaskStop, Begin, ReadHalves, Control, Runs, Goto, Context, IsrOff,
         Masked, CpuTypeOK, locals, drvVars
<1>29. CASE TaskRead
  BY <1>29
     DEF TaskRead, Begin, ReadHalves, Control, Runs, Goto, Context, IsrOff,
         Masked, CpuTypeOK, locals, drvVars
<1>30. ASSUME NEW n \in TaskTicks, TaskDelay(n) PROVE ReadHalves'
  BY <1>30
     DEF TaskDelay, Begin, ReadHalves, Control, Runs, Goto, Context, IsrOff,
         Masked, CpuTypeOK, locals, drvVars
<1>31. CASE DelayLoop
  BY <1>31
     DEF DelayLoop, Begin, ReadHalves, Control, Runs, Goto, Context, IsrOff,
         Masked, CpuTypeOK, locals, drvVars
<1>32. CASE UNCHANGED vars
  BY <1>32 DEF vars, ReadHalves, Control, Runs, Goto, Context, IsrOff, Masked,
     CpuTypeOK, locals, drvVars, hwVars, drvVars, locals
<1>33. QED
  BY <1>1, <1>2, <1>3, <1>4, <1>5, <1>6, <1>7, <1>8, <1>9, <1>10, <1>11, <1>12,
     <1>13, <1>14, <1>15, <1>16, <1>17, <1>18, <1>19, <1>20, <1>21, <1>22,
     <1>23, <1>24, <1>25, <1>26, <1>27, <1>28, <1>29, <1>30, <1>31, <1>32
     DEF Next, Isr, Task, Driver

\* The first invariant is inductive.
LEMMA Step1 == Inv1 /\ [Next]_vars => Inv1'
  BY HwTypeStep, DrvTypeStep, CpuTypeStep, HistTypeStep, ControlStep,
     ReadHalvesStep
     DEF Inv1, TypeOK

\* Every variable of the driver keeps its range, and tmr_cntr only ever
\* holds the start of an epoch, for every width of the counter.
THEOREM TimerTypeCorrect == Spec => []TypeOK
<1>1. Inv1 => TypeOK
  BY DEF Inv1
<1>2. QED
  BY Init1, Step1, <1>1, PTL DEF Spec

-----------------------------------------------------------------------------
(* Time *)

\* An overflow that is not counted yet keeps the CPU busy, so the counter
\* cannot overflow again before it is counted.
OvfServed ==
    /\ ovf => count <= lag
    /\ ovf /\ IsrOff => pend
    /\ \A c \in Context : pc[c] = "rd3" => ovf

Inv2 == TimeKept /\ OvfServed /\ ReadIsTime

\* Time starts at zero.
LEMMA Init2 == Init => Inv2
  BY Parameters DEF Init, Inv2, TimeKept, OvfServed, ReadIsTime, Counting,
     Context,
     Wrap

LEMMA OvfServedStep == Inv1 /\ Inv2 /\ [Next]_vars => OvfServed'
<1> SUFFICES ASSUME Inv1, Inv2, [Next]_vars PROVE OvfServed'
  OBVIOUS
<1> USE DEF Inv1, Inv2, TypeOK
<1>1. CASE Tick
  BY <1>1, Parameters
     DEF Tick, OvfServed, Control, Runs, Goto, Settle, Context, IsrOff, Masked,
         Rest, HwTypeOK, HistTypeOK, CpuTypeOK, hwVars, locals
<1>2. ASSUME NEW c \in Context, ReadCount(c) PROVE OvfServed'
  BY <1>2, Parameters
     DEF ReadCount, OvfServed, Control, Runs, Goto, Settle, Context, IsrOff,
         Masked, Rest, HwTypeOK, HistTypeOK, CpuTypeOK, hwVars, locals
<1>3. ASSUME NEW c \in Context, ReadNoOvf(c) PROVE OvfServed'
  BY <1>3, Parameters
     DEF ReadNoOvf, ReadReturns, DelayGoesOn, Return, OvfServed, Control, Runs,
         Goto, Settle, Context, IsrOff, Masked, Rest, HwTypeOK, HistTypeOK,
         CpuTypeOK, hwVars, locals
<1>4. ASSUME NEW c \in Context, ReadOvf(c) PROVE OvfServed'
  BY <1>4, Parameters
     DEF ReadOvf, OvfServed, Control, Runs, Goto, Settle, Context, IsrOff,
         Masked, Rest, HwTypeOK, HistTypeOK, CpuTypeOK, hwVars, locals
<1>5. ASSUME NEW c \in Context, ReadAgain(c) PROVE OvfServed'
  BY <1>5, Parameters
     DEF ReadAgain, OvfServed, Control, Runs, Goto, Settle, Context, IsrOff,
         Masked, Rest, HwTypeOK, HistTypeOK, CpuTypeOK, hwVars, locals
<1>6. ASSUME NEW c \in Context, ReadDone(c) PROVE OvfServed'
  BY <1>6, Parameters
     DEF ReadDone, ReadReturns, DelayGoesOn, Return, OvfServed, Control, Runs,
         Goto, Settle, Context, IsrOff, Masked, Rest, HwTypeOK, HistTypeOK,
         CpuTypeOK, hwVars, locals
<1>7. ASSUME NEW c \in Context, OcmpEpoch(c) PROVE OvfServed'
  BY <1>7, Parameters
     DEF OcmpEpoch, OcmpReturns, Return, Home, OvfServed, Control, Runs, Goto,
         Settle, Context, IsrOff, Masked, Rest, HwTypeOK, HistTypeOK,
         CpuTypeOK, hwVars, locals
<1>8. ASSUME NEW c \in Context, OcmpSetCompare(c) PROVE OvfServed'
  BY <1>8, Parameters
     DEF OcmpSetCompare, OvfServed, Control, Runs, Goto, Settle, Context,
         IsrOff, Masked, Rest, HwTypeOK, HistTypeOK, CpuTypeOK, hwVars, locals
<1>9. ASSUME NEW c \in Context, OcmpClearFlag(c) PROVE OvfServed'
  BY <1>9, Parameters
     DEF OcmpClearFlag, OvfServed, Control, Runs, Goto, Settle, Context,
         IsrOff, Masked, Rest, HwTypeOK, HistTypeOK, CpuTypeOK, hwVars, locals
<1>10. ASSUME NEW c \in Context, OcmpEnable(c) PROVE OvfServed'
  BY <1>10, Parameters
     DEF OcmpEnable, OvfServed, Control, Runs, Goto, Settle, Context, IsrOff,
         Masked, Rest, HwTypeOK, HistTypeOK, CpuTypeOK, hwVars, locals
<1>11. ASSUME NEW c \in Context, OcmpCheckLate(c) PROVE OvfServed'
  BY <1>11, Parameters
     DEF OcmpCheckLate, OcmpReturns, Return, Home, OvfServed, Control, Runs,
         Goto, Settle, Context, IsrOff, Masked, Rest, HwTypeOK, HistTypeOK,
         CpuTypeOK, hwVars, locals
<1>12. ASSUME NEW c \in Context, StartAtCheck(c) PROVE OvfServed'
  BY <1>12, Parameters
     DEF StartAtCheck, Return, Home, OvfServed, Control, Runs, Goto, Settle,
         Context, IsrOff, Masked, Rest, HwTypeOK, HistTypeOK, CpuTypeOK,
         hwVars, locals
<1>13. ASSUME NEW c \in Context, StartAtInsert(c) PROVE OvfServed'
  BY <1>13, Parameters
     DEF StartAtInsert, Return, Home, OvfServed, Control, Runs, Goto, Settle,
         Context, IsrOff, Masked, Rest, HwTypeOK, HistTypeOK, CpuTypeOK,
         hwVars, locals
<1>14. ASSUME NEW c \in Context, Stop(c) PROVE OvfServed'
  BY <1>14, Parameters
     DEF Stop, Return, Home, OvfServed, Control, Runs, Goto, Settle, Context,
         IsrOff, Masked, Rest, HwTypeOK, HistTypeOK, CpuTypeOK, hwVars, locals
<1>15. CASE IrqEnter
  BY <1>15, Parameters
     DEF IrqEnter, OvfServed, Control, Runs, Goto, Settle, Context, IsrOff,
         Masked, Rest, HwTypeOK, HistTypeOK, CpuTypeOK, hwVars, locals
<1>16. CASE IrqCompare
  BY <1>16, Parameters
     DEF IrqCompare, OvfServed, Control, Runs, Goto, Settle, Context, IsrOff,
         Masked, Rest, HwTypeOK, HistTypeOK, CpuTypeOK, hwVars, locals
<1>17. CASE IrqOverflow
  BY <1>17, Parameters
     DEF IrqOverflow, OvfServed, Control, Runs, Goto, Settle, Context, IsrOff,
         Masked, Rest, HwTypeOK, HistTypeOK, CpuTypeOK, hwVars, locals
<1>18. CASE ChkEmpty
  BY <1>18, Parameters
     DEF ChkEmpty, OvfServed, Control, Runs, Goto, Settle, Context, IsrOff,
         Masked, Rest, HwTypeOK, HistTypeOK, CpuTypeOK, hwVars, locals
<1>19. CASE ChkFirst
  BY <1>19, Parameters
     DEF ChkFirst, OvfServed, Control, Runs, Goto, Settle, Context, IsrOff,
         Masked, Rest, HwTypeOK, HistTypeOK, CpuTypeOK, hwVars, locals
<1>20. CASE ChkFire
  BY <1>20, Parameters
     DEF ChkFire, OvfServed, Control, Runs, Goto, Settle, Context, IsrOff,
         Masked, Rest, HwTypeOK, HistTypeOK, CpuTypeOK, hwVars, locals
<1>21. CASE ChkWait
  BY <1>21, Parameters
     DEF ChkWait, OvfServed, Control, Runs, Goto, Settle, Context, IsrOff,
         Masked, Rest, HwTypeOK, HistTypeOK, CpuTypeOK, hwVars, locals
<1>22. CASE IrqExit
  BY <1>22, Parameters
     DEF IrqExit, OvfServed, Control, Runs, Goto, Settle, Context, IsrOff,
         Masked, Rest, HwTypeOK, HistTypeOK, CpuTypeOK, hwVars, locals
<1>23. CASE CbReturn
  BY <1>23, Parameters
     DEF CbReturn, Return, OvfServed, Control, Runs, Goto, Settle, Context,
         IsrOff, Masked, Rest, HwTypeOK, HistTypeOK, CpuTypeOK, hwVars, locals
<1>24. ASSUME NEW t \in Timers, NEW n \in CbTicks, CbStart(t, n) PROVE OvfServed'
  BY <1>24, Parameters
     DEF CbStart, Begin, OvfServed, Control, Runs, Goto, Settle, Context,
         IsrOff, Masked, Rest, HwTypeOK, HistTypeOK, CpuTypeOK, hwVars, locals
<1>25. ASSUME NEW t \in Timers, CbStop(t) PROVE OvfServed'
  BY <1>25, Parameters
     DEF CbStop, Begin, OvfServed, Control, Runs, Goto, Settle, Context,
         IsrOff, Masked, Rest, HwTypeOK, HistTypeOK, CpuTypeOK, hwVars, locals
<1>26. ASSUME NEW t \in Timers, NEW n \in TaskTicks, TaskStart(t, n) PROVE OvfServed'
  BY <1>26, Parameters
     DEF TaskStart, Begin, OvfServed, Control, Runs, Goto, Settle, Context,
         IsrOff, Masked, Rest, HwTypeOK, HistTypeOK, CpuTypeOK, hwVars, locals
<1>27. ASSUME NEW t \in Timers, NEW n \in -Past .. MaxTicks, TaskStartAt(t, n) PROVE OvfServed'
  BY <1>27, Parameters
     DEF TaskStartAt, Begin, OvfServed, Control, Runs, Goto, Settle, Context,
         IsrOff, Masked, Rest, HwTypeOK, HistTypeOK, CpuTypeOK, hwVars, locals
<1>28. ASSUME NEW t \in Timers, TaskStop(t) PROVE OvfServed'
  BY <1>28, Parameters
     DEF TaskStop, Begin, OvfServed, Control, Runs, Goto, Settle, Context,
         IsrOff, Masked, Rest, HwTypeOK, HistTypeOK, CpuTypeOK, hwVars, locals
<1>29. CASE TaskRead
  BY <1>29, Parameters
     DEF TaskRead, Begin, OvfServed, Control, Runs, Goto, Settle, Context,
         IsrOff, Masked, Rest, HwTypeOK, HistTypeOK, CpuTypeOK, hwVars, locals
<1>30. ASSUME NEW n \in TaskTicks, TaskDelay(n) PROVE OvfServed'
  BY <1>30, Parameters
     DEF TaskDelay, Begin, OvfServed, Control, Runs, Goto, Settle, Context,
         IsrOff, Masked, Rest, HwTypeOK, HistTypeOK, CpuTypeOK, hwVars, locals
<1>31. CASE DelayLoop
  BY <1>31, Parameters
     DEF DelayLoop, Begin, OvfServed, Control, Runs, Goto, Settle, Context,
         IsrOff, Masked, Rest, HwTypeOK, HistTypeOK, CpuTypeOK, hwVars, locals
<1>32. CASE UNCHANGED vars
  BY <1>32 DEF vars, OvfServed, Control, Runs, Goto, Settle, Context, IsrOff,
     Masked, Rest, HwTypeOK, HistTypeOK, CpuTypeOK, hwVars, locals, hwVars,
     drvVars, locals
<1>33. QED
  BY <1>1, <1>2, <1>3, <1>4, <1>5, <1>6, <1>7, <1>8, <1>9, <1>10, <1>11, <1>12,
     <1>13, <1>14, <1>15, <1>16, <1>17, <1>18, <1>19, <1>20, <1>21, <1>22,
     <1>23, <1>24, <1>25, <1>26, <1>27, <1>28, <1>29, <1>30, <1>31, <1>32
     DEF Next, Isr, Task, Driver

\* A step that touches neither the counters nor the reader that is counting.
LEMMA SameTime ==
    ASSUME TimeKept, CpuTypeOK, UNCHANGED <<count, now, tmr_cntr, ovf>>,
           NEW c \in Context, NEW label, Goto(c, label),
           pc[c] # "rd3", label # "rd3"
    PROVE  TimeKept'
<1>1. Counting' <=> Counting
  BY DEF Counting, Goto, CpuTypeOK
<1>2. QED
  BY <1>1 DEF TimeKept

LEMMA TimeKeptStep == Inv1 /\ Inv2 /\ [Next]_vars => TimeKept'
<1> SUFFICES ASSUME Inv1, Inv2, [Next]_vars PROVE TimeKept'
  OBVIOUS
<1> USE DEF Inv1, Inv2, TypeOK
<1>0. tmr_cntr \in Nat /\ tmr_cntr + Low <= Modulus
  BY EpochStep DEF DrvTypeOK
<1>1. CASE Tick
  <2>1. Counting' = Counting /\ (Counting => ovf)
    BY <1>1 DEF Tick, Counting, OvfServed
  <2>2. count = Low - 1 => ~ovf
    BY <1>1, Parameters DEF Tick, Rest, OvfServed, HwTypeOK, HistTypeOK
  <2>3. now \in Int /\ count \in Int /\ 0 <= count /\ count < Low
    BY Parameters DEF HwTypeOK, HistTypeOK, Word
  <2>4. CASE count = Low - 1
    <3>a. ~ovf /\ ~Counting /\ ~Counting'
      BY <2>1, <2>2, <2>4
    <3>b. now = Wrap(tmr_cntr + count)
      BY <3>a, <1>0, <2>3 DEF TimeKept
    <3>c. ovf' /\ count' = 0
      BY <1>1, <2>4 DEF Tick
    <3>1. now = Wrap(tmr_cntr + count) /\ ovf' /\ count' = 0 /\ ~Counting'
      BY <3>a, <3>b, <3>c
    <3>2. now' = Wrap(tmr_cntr + Low)
      BY <1>1, <3>1, <2>3, <2>4, <1>0, Parameters DEF Tick, Wrap
    <3>3. QED
      BY <1>1, <3>1, <3>2, <1>0, Parameters DEF Tick, TimeKept, drvVars
  <2>5. CASE count # Low - 1
    <3>1. ovf' = ovf /\ count' = count + 1 /\ tmr_cntr' = tmr_cntr
      BY <1>1, <2>5 DEF Tick, HwTypeOK, drvVars
    <3> DEFINE x == IF ovf /\ ~Counting THEN Low ELSE 0
    <3>2. x \in Int /\ 0 <= x /\ x <= Low
      BY Parameters
    <3>3. now = Wrap(tmr_cntr + count + x)
      BY DEF TimeKept
    <3> HIDE DEF x
    <3>4. now' = Wrap(tmr_cntr + (count + 1) + x)
      BY <1>1, <3>2, <3>3, <2>3, <2>5, <1>0, Parameters DEF Tick, Wrap
    <3>5. QED
      BY <3>1, <3>4, <2>1 DEF TimeKept, x
  <2>6. QED
    BY <2>4, <2>5
<1>2. ASSUME NEW c \in Context, ReadCount(c) PROVE TimeKept'
  BY <1>2, <1>0, Parameters
     DEF ReadCount, TimeKept, Counting, OvfServed, Control, ReadHalves, Runs,
         Goto, Settle, Context, IsrOff, Masked, Rest, HwTypeOK, HistTypeOK,
         CpuTypeOK, hwVars, locals, drvVars, Wrap, Word
<1>3. ASSUME NEW c \in Context, ReadNoOvf(c) PROVE TimeKept'
  <2>1. UNCHANGED <<count, now, tmr_cntr, ovf>> /\ pc[c] # "rd3"
    BY <1>3 DEF ReadNoOvf, Settle, hwVars, drvVars
  <2>2. \E label \in {"start_at", "delay", "idle", "cmp"} : Goto(c, label)
    BY <1>3 DEF ReadNoOvf, ReadReturns, Return
  <2>3. QED
    BY <2>1, <2>2, SameTime
<1>4. ASSUME NEW c \in Context, ReadOvf(c) PROVE TimeKept'
  <2>1. ~Counting /\ Counting'
    BY <1>4 DEF ReadOvf, Counting, Runs, Control, Context, IsrOff, Masked,
       Goto, CpuTypeOK
  <2>2. now = Wrap(tmr_cntr + count + Low)
    BY <1>4, <2>1 DEF ReadOvf, TimeKept
  <2>3. tmr_cntr' = Wrap(tmr_cntr + Low) /\ count' = count /\ now' = now
    BY <1>4 DEF ReadOvf, ReadHalves, hwVars, Settle
  <2>4. now = Wrap(Wrap(tmr_cntr + Low) + count)
    BY <2>2, <1>0, Parameters DEF Wrap, HwTypeOK
  <2>5. Wrap(tmr_cntr + Low) \in Int
    BY <1>0, Parameters DEF Wrap
  <2>6. QED
    BY <2>1, <2>3, <2>4, <2>5 DEF TimeKept, HwTypeOK
<1>5. ASSUME NEW c \in Context, ReadAgain(c) PROVE TimeKept'
  BY <1>5, <1>0, Parameters
     DEF ReadAgain, TimeKept, Counting, OvfServed, Control, ReadHalves, Runs,
         Goto, Settle, Context, IsrOff, Masked, Rest, HwTypeOK, HistTypeOK,
         CpuTypeOK, hwVars, locals, drvVars, Wrap, Word
<1>6. ASSUME NEW c \in Context, ReadDone(c) PROVE TimeKept'
  <2>1. UNCHANGED <<count, now, tmr_cntr, ovf>> /\ pc[c] # "rd3"
    BY <1>6 DEF ReadDone, Settle, hwVars, drvVars
  <2>2. \E label \in {"start_at", "delay", "idle", "cmp"} : Goto(c, label)
    BY <1>6 DEF ReadDone, ReadReturns, Return
  <2>3. QED
    BY <2>1, <2>2, SameTime
<1>7. ASSUME NEW c \in Context, OcmpEpoch(c) PROVE TimeKept'
  <2>1. UNCHANGED <<count, now, tmr_cntr, ovf>> /\ pc[c] # "rd3"
    BY <1>7 DEF OcmpEpoch, Settle, hwVars, drvVars
  <2>2. \E label \in {"oc2", "exit", "chk", "idle"} : Goto(c, label)
    BY <1>7 DEF OcmpEpoch, OcmpReturns, Return, Home
  <2>3. QED
    BY <2>1, <2>2, SameTime
<1>8. ASSUME NEW c \in Context, OcmpSetCompare(c) PROVE TimeKept'
  BY <1>8, <1>0, Parameters
     DEF OcmpSetCompare, TimeKept, Counting, OvfServed, Control, ReadHalves,
         Runs, Goto, Settle, Context, IsrOff, Masked, Rest, HwTypeOK,
         HistTypeOK, CpuTypeOK, hwVars, locals, drvVars, Wrap, Word
<1>9. ASSUME NEW c \in Context, OcmpClearFlag(c) PROVE TimeKept'
  BY <1>9, <1>0, Parameters
     DEF OcmpClearFlag, TimeKept, Counting, OvfServed, Control, ReadHalves,
         Runs, Goto, Settle, Context, IsrOff, Masked, Rest, HwTypeOK,
         HistTypeOK, CpuTypeOK, hwVars, locals, drvVars, Wrap, Word
<1>10. ASSUME NEW c \in Context, OcmpEnable(c) PROVE TimeKept'
  BY <1>10, <1>0, Parameters
     DEF OcmpEnable, TimeKept, Counting, OvfServed, Control, ReadHalves, Runs,
         Goto, Settle, Context, IsrOff, Masked, Rest, HwTypeOK, HistTypeOK,
         CpuTypeOK, hwVars, locals, drvVars, Wrap, Word
<1>11. ASSUME NEW c \in Context, OcmpCheckLate(c) PROVE TimeKept'
  BY <1>11, <1>0, Parameters
     DEF OcmpCheckLate, OcmpReturns, Return, Home, TimeKept, Counting,
         OvfServed, Control, ReadHalves, Runs, Goto, Settle, Context, IsrOff,
         Masked, Rest, HwTypeOK, HistTypeOK, CpuTypeOK, hwVars, locals,
         drvVars, Wrap, Word
<1>12. ASSUME NEW c \in Context, StartAtCheck(c) PROVE TimeKept'
  BY <1>12, <1>0, Parameters
     DEF StartAtCheck, Return, Home, TimeKept, Counting, OvfServed, Control,
         ReadHalves, Runs, Goto, Settle, Context, IsrOff, Masked, Rest,
         HwTypeOK, HistTypeOK, CpuTypeOK, hwVars, locals, drvVars, Wrap, Word
<1>13. ASSUME NEW c \in Context, StartAtInsert(c) PROVE TimeKept'
  <2>1. UNCHANGED <<count, now, tmr_cntr, ovf>> /\ pc[c] # "rd3"
    BY <1>13 DEF StartAtInsert, Settle, hwVars, drvVars
  <2>2. \E label \in {"oc1", "chk", "idle"} : Goto(c, label)
    BY <1>13 DEF StartAtInsert, Return, Home
  <2>3. QED
    BY <2>1, <2>2, SameTime
<1>14. ASSUME NEW c \in Context, Stop(c) PROVE TimeKept'
  BY <1>14, <1>0, Parameters
     DEF Stop, Return, Home, TimeKept, Counting, OvfServed, Control,
         ReadHalves, Runs, Goto, Settle, Context, IsrOff, Masked, Rest,
         HwTypeOK, HistTypeOK, CpuTypeOK, hwVars, locals, drvVars, Wrap, Word
<1>15. CASE IrqEnter
  BY <1>15, <1>0, Parameters
     DEF IrqEnter, TimeKept, Counting, OvfServed, Control, ReadHalves, Runs,
         Goto, Settle, Context, IsrOff, Masked, Rest, HwTypeOK, HistTypeOK,
         CpuTypeOK, hwVars, locals, drvVars, Wrap, Word
<1>16. CASE IrqCompare
  BY <1>16, <1>0, Parameters
     DEF IrqCompare, TimeKept, Counting, OvfServed, Control, ReadHalves, Runs,
         Goto, Settle, Context, IsrOff, Masked, Rest, HwTypeOK, HistTypeOK,
         CpuTypeOK, hwVars, locals, drvVars, Wrap, Word
<1>17. CASE IrqOverflow
  <2>1. ~Counting /\ ~Counting'
    BY <1>17 DEF IrqOverflow, Counting, Runs, Control, Context, IsrOff, Masked,
       Goto, CpuTypeOK
  <2>2. count' = count /\ now' = now /\ ~ovf'
    BY <1>17 DEF IrqOverflow, Settle
  <2>3. CASE ovf
    <3>1. now = Wrap(tmr_cntr + count + Low)
      BY <2>1, <2>3 DEF TimeKept
    <3>2. now = Wrap(Wrap(tmr_cntr + Low) + count)
      BY <3>1, <1>0, Parameters DEF Wrap, HwTypeOK
    <3>3. Wrap(tmr_cntr + Low) \in Int
      BY <1>0, Parameters DEF Wrap
    <3>4. QED
      BY <1>17, <2>1, <2>2, <2>3, <3>2, <3>3 DEF IrqOverflow, TimeKept, HwTypeOK
  <2>4. CASE ~ovf
    BY <1>17, <2>1, <2>2, <2>4 DEF IrqOverflow, TimeKept
  <2>5. QED
    BY <2>3, <2>4
<1>18. CASE ChkEmpty
  BY <1>18, <1>0, Parameters
     DEF ChkEmpty, TimeKept, Counting, OvfServed, Control, ReadHalves, Runs,
         Goto, Settle, Context, IsrOff, Masked, Rest, HwTypeOK, HistTypeOK,
         CpuTypeOK, hwVars, locals, drvVars, Wrap, Word
<1>19. CASE ChkFirst
  BY <1>19, <1>0, Parameters
     DEF ChkFirst, TimeKept, Counting, OvfServed, Control, ReadHalves, Runs,
         Goto, Settle, Context, IsrOff, Masked, Rest, HwTypeOK, HistTypeOK,
         CpuTypeOK, hwVars, locals, drvVars, Wrap, Word
<1>20. CASE ChkFire
  BY <1>20, <1>0, Parameters
     DEF ChkFire, TimeKept, Counting, OvfServed, Control, ReadHalves, Runs,
         Goto, Settle, Context, IsrOff, Masked, Rest, HwTypeOK, HistTypeOK,
         CpuTypeOK, hwVars, locals, drvVars, Wrap, Word
<1>21. CASE ChkWait
  BY <1>21, <1>0, Parameters
     DEF ChkWait, TimeKept, Counting, OvfServed, Control, ReadHalves, Runs,
         Goto, Settle, Context, IsrOff, Masked, Rest, HwTypeOK, HistTypeOK,
         CpuTypeOK, hwVars, locals, drvVars, Wrap, Word
<1>22. CASE IrqExit
  BY <1>22, <1>0, Parameters
     DEF IrqExit, TimeKept, Counting, OvfServed, Control, ReadHalves, Runs,
         Goto, Settle, Context, IsrOff, Masked, Rest, HwTypeOK, HistTypeOK,
         CpuTypeOK, hwVars, locals, drvVars, Wrap, Word
<1>23. CASE CbReturn
  BY <1>23, <1>0, Parameters
     DEF CbReturn, Return, TimeKept, Counting, OvfServed, Control, ReadHalves,
         Runs, Goto, Settle, Context, IsrOff, Masked, Rest, HwTypeOK,
         HistTypeOK, CpuTypeOK, hwVars, locals, drvVars, Wrap, Word
<1>24. ASSUME NEW t \in Timers, NEW n \in CbTicks, CbStart(t, n) PROVE TimeKept'
  BY <1>24, <1>0, Parameters
     DEF CbStart, Begin, TimeKept, Counting, OvfServed, Control, ReadHalves,
         Runs, Goto, Settle, Context, IsrOff, Masked, Rest, HwTypeOK,
         HistTypeOK, CpuTypeOK, hwVars, locals, drvVars, Wrap, Word
<1>25. ASSUME NEW t \in Timers, CbStop(t) PROVE TimeKept'
  BY <1>25, <1>0, Parameters
     DEF CbStop, Begin, TimeKept, Counting, OvfServed, Control, ReadHalves,
         Runs, Goto, Settle, Context, IsrOff, Masked, Rest, HwTypeOK,
         HistTypeOK, CpuTypeOK, hwVars, locals, drvVars, Wrap, Word
<1>26. ASSUME NEW t \in Timers, NEW n \in TaskTicks, TaskStart(t, n) PROVE TimeKept'
  BY <1>26, <1>0, Parameters
     DEF TaskStart, Begin, TimeKept, Counting, OvfServed, Control, ReadHalves,
         Runs, Goto, Settle, Context, IsrOff, Masked, Rest, HwTypeOK,
         HistTypeOK, CpuTypeOK, hwVars, locals, drvVars, Wrap, Word
<1>27. ASSUME NEW t \in Timers, NEW n \in -Past .. MaxTicks, TaskStartAt(t, n) PROVE TimeKept'
  BY <1>27, <1>0, Parameters
     DEF TaskStartAt, Begin, TimeKept, Counting, OvfServed, Control,
         ReadHalves, Runs, Goto, Settle, Context, IsrOff, Masked, Rest,
         HwTypeOK, HistTypeOK, CpuTypeOK, hwVars, locals, drvVars, Wrap, Word
<1>28. ASSUME NEW t \in Timers, TaskStop(t) PROVE TimeKept'
  BY <1>28, <1>0, Parameters
     DEF TaskStop, Begin, TimeKept, Counting, OvfServed, Control, ReadHalves,
         Runs, Goto, Settle, Context, IsrOff, Masked, Rest, HwTypeOK,
         HistTypeOK, CpuTypeOK, hwVars, locals, drvVars, Wrap, Word
<1>29. CASE TaskRead
  BY <1>29, <1>0, Parameters
     DEF TaskRead, Begin, TimeKept, Counting, OvfServed, Control, ReadHalves,
         Runs, Goto, Settle, Context, IsrOff, Masked, Rest, HwTypeOK,
         HistTypeOK, CpuTypeOK, hwVars, locals, drvVars, Wrap, Word
<1>30. ASSUME NEW n \in TaskTicks, TaskDelay(n) PROVE TimeKept'
  BY <1>30, <1>0, Parameters
     DEF TaskDelay, Begin, TimeKept, Counting, OvfServed, Control, ReadHalves,
         Runs, Goto, Settle, Context, IsrOff, Masked, Rest, HwTypeOK,
         HistTypeOK, CpuTypeOK, hwVars, locals, drvVars, Wrap, Word
<1>31. CASE DelayLoop
  BY <1>31, <1>0, Parameters
     DEF DelayLoop, Begin, TimeKept, Counting, OvfServed, Control, ReadHalves,
         Runs, Goto, Settle, Context, IsrOff, Masked, Rest, HwTypeOK,
         HistTypeOK, CpuTypeOK, hwVars, locals, drvVars, Wrap, Word
<1>32. CASE UNCHANGED vars
  BY <1>32 DEF vars, TimeKept, Counting, OvfServed, Control, ReadHalves, Runs,
     Goto, Settle, Context, IsrOff, Masked, Rest, HwTypeOK, HistTypeOK,
     CpuTypeOK, hwVars, locals, drvVars, Wrap, Word, hwVars, drvVars, locals
<1>33. QED
  BY <1>1, <1>2, <1>3, <1>4, <1>5, <1>6, <1>7, <1>8, <1>9, <1>10, <1>11, <1>12,
     <1>13, <1>14, <1>15, <1>16, <1>17, <1>18, <1>19, <1>20, <1>21, <1>22,
     <1>23, <1>24, <1>25, <1>26, <1>27, <1>28, <1>29, <1>30, <1>31, <1>32
     DEF Next, Isr, Task, Driver

LEMMA ReadIsTimeStep == Inv1 /\ Inv2 /\ [Next]_vars => ReadIsTime'
<1> SUFFICES ASSUME Inv1, Inv2, [Next]_vars PROVE ReadIsTime'
  OBVIOUS
<1> USE DEF Inv1, Inv2, TypeOK
<1>0. tmr_cntr \in Nat /\ tmr_cntr + Low <= Modulus
  BY EpochStep DEF DrvTypeOK
<1>1. CASE Tick
  BY <1>1, <1>0, Parameters
     DEF Tick, ReadIsTime, TimeKept, Counting, OvfServed, Control, ReadHalves,
         Runs, Goto, Context, IsrOff, Masked, HwTypeOK, HistTypeOK, CpuTypeOK,
         hwVars, locals, drvVars, Wrap, Word
<1>2. ASSUME NEW c \in Context, ReadCount(c) PROVE ReadIsTime'
  <2>1. ASSUME NEW d \in Context, d # c
        PROVE  /\ pc'[d] = pc[d] /\ ret'[d] = ret[d] /\ seen'[d] = seen[d]
               /\ tcntr'[d] = tcntr[d] /\ low'[d] = low[d]
    BY <1>2, <2>1 DEF ReadCount, CpuTypeOK, Goto
  <2>2. ~ovf' => ~ovf \/ \A d \in Context : d # c => pc[d] \notin {"rd2", "rd4"}
    BY <1>2 DEF ReadCount, hwVars, Runs, Control, Context, IsrOff, Masked
  <2>4. ~Counting
    BY <1>2 DEF ReadCount, Counting, Runs, Control, Context, IsrOff, Masked
  <2>5. ~ovf => now = tmr_cntr + count
    BY <2>4, <1>0, Parameters DEF TimeKept, Wrap, HwTypeOK
  <2>3. pc'[c] = "rd2" /\ (~ovf' /\ ret'[c] # "delay" => tcntr'[c] + low'[c] = seen'[c])
    BY <1>2, <2>5 DEF ReadCount, hwVars, Goto, CpuTypeOK
  <2>9. QED
    BY <2>1, <2>2, <2>3 DEF ReadIsTime
<1>3. ASSUME NEW c \in Context, ReadNoOvf(c) PROVE ReadIsTime'
  <2>1. ASSUME NEW d \in Context, d # c
        PROVE  /\ pc'[d] = pc[d] /\ ret'[d] = ret[d] /\ seen'[d] = seen[d]
               /\ tcntr'[d] = tcntr[d] /\ low'[d] = low[d]
    BY <1>3, <2>1 DEF ReadNoOvf, ReadReturns, Return, CpuTypeOK, Goto
  <2>2. ~ovf' => ~ovf \/ \A d \in Context : d # c => pc[d] \notin {"rd2", "rd4"}
    BY <1>3 DEF ReadNoOvf, hwVars, Runs, Control, Context, IsrOff, Masked
  <2>3. pc'[c] \notin {"rd2", "rd4"}
    BY <1>3 DEF ReadNoOvf, ReadReturns, Return, Goto, CpuTypeOK
  <2>9. QED
    BY <2>1, <2>2, <2>3 DEF ReadIsTime
<1>4. ASSUME NEW c \in Context, ReadOvf(c) PROVE ReadIsTime'
  BY <1>4, <1>0, Parameters
     DEF ReadOvf, ReadIsTime, TimeKept, Counting, OvfServed, Control,
         ReadHalves, Runs, Goto, Context, IsrOff, Masked, HwTypeOK, HistTypeOK,
         CpuTypeOK, hwVars, locals, drvVars, Wrap, Word
<1>5. ASSUME NEW c \in Context, ReadAgain(c) PROVE ReadIsTime'
  <2>1. ASSUME NEW d \in Context, d # c
        PROVE  /\ pc'[d] = pc[d] /\ ret'[d] = ret[d] /\ seen'[d] = seen[d]
               /\ tcntr'[d] = tcntr[d] /\ low'[d] = low[d]
    BY <1>5, <2>1 DEF ReadAgain, CpuTypeOK, Goto
  <2>2. ~ovf' => ~ovf \/ \A d \in Context : d # c => pc[d] \notin {"rd2", "rd4"}
    BY <1>5 DEF ReadAgain, hwVars, Runs, Control, Context, IsrOff, Masked
  <2>4. Counting
    BY <1>5 DEF ReadAgain, Counting
  <2>5. now = tmr_cntr + count
    BY <2>4, <1>0, Parameters DEF TimeKept, Wrap, HwTypeOK
  <2>3. pc'[c] = "rd4" /\ (ret'[c] # "delay" => tcntr'[c] + low'[c] = seen'[c])
    BY <1>5, <2>5 DEF ReadAgain, ReadHalves, Goto, CpuTypeOK
  <2>9. QED
    BY <2>1, <2>2, <2>3 DEF ReadIsTime
<1>6. ASSUME NEW c \in Context, ReadDone(c) PROVE ReadIsTime'
  <2>1. ASSUME NEW d \in Context, d # c
        PROVE  /\ pc'[d] = pc[d] /\ ret'[d] = ret[d] /\ seen'[d] = seen[d]
               /\ tcntr'[d] = tcntr[d] /\ low'[d] = low[d]
    BY <1>6, <2>1 DEF ReadDone, ReadReturns, Return, CpuTypeOK, Goto
  <2>2. ovf' = ovf
    BY <1>6 DEF ReadDone, hwVars
  <2>3. pc'[c] \notin {"rd2", "rd4"}
    BY <1>6 DEF ReadDone, ReadReturns, Return, Goto, CpuTypeOK
  <2>9. QED
    BY <2>1, <2>2, <2>3 DEF ReadIsTime
<1>7. ASSUME NEW c \in Context, OcmpEpoch(c) PROVE ReadIsTime'
  BY <1>7, <1>0, Parameters
     DEF OcmpEpoch, OcmpReturns, Return, Home, ReadIsTime, TimeKept, Counting,
         OvfServed, Control, ReadHalves, Runs, Goto, Context, IsrOff, Masked,
         HwTypeOK, HistTypeOK, CpuTypeOK, hwVars, locals, drvVars, Wrap, Word
<1>8. ASSUME NEW c \in Context, OcmpSetCompare(c) PROVE ReadIsTime'
  BY <1>8, <1>0, Parameters
     DEF OcmpSetCompare, ReadIsTime, TimeKept, Counting, OvfServed, Control,
         ReadHalves, Runs, Goto, Context, IsrOff, Masked, HwTypeOK, HistTypeOK,
         CpuTypeOK, hwVars, locals, drvVars, Wrap, Word
<1>9. ASSUME NEW c \in Context, OcmpClearFlag(c) PROVE ReadIsTime'
  BY <1>9, <1>0, Parameters
     DEF OcmpClearFlag, ReadIsTime, TimeKept, Counting, OvfServed, Control,
         ReadHalves, Runs, Goto, Context, IsrOff, Masked, HwTypeOK, HistTypeOK,
         CpuTypeOK, hwVars, locals, drvVars, Wrap, Word
<1>10. ASSUME NEW c \in Context, OcmpEnable(c) PROVE ReadIsTime'
  BY <1>10, <1>0, Parameters
     DEF OcmpEnable, ReadIsTime, TimeKept, Counting, OvfServed, Control,
         ReadHalves, Runs, Goto, Context, IsrOff, Masked, HwTypeOK, HistTypeOK,
         CpuTypeOK, hwVars, locals, drvVars, Wrap, Word
<1>11. ASSUME NEW c \in Context, OcmpCheckLate(c) PROVE ReadIsTime'
  BY <1>11, <1>0, Parameters
     DEF OcmpCheckLate, OcmpReturns, Return, Home, ReadIsTime, TimeKept,
         Counting, OvfServed, Control, ReadHalves, Runs, Goto, Context, IsrOff,
         Masked, HwTypeOK, HistTypeOK, CpuTypeOK, hwVars, locals, drvVars,
         Wrap, Word
<1>12. ASSUME NEW c \in Context, StartAtCheck(c) PROVE ReadIsTime'
  BY <1>12, <1>0, Parameters
     DEF StartAtCheck, Return, Home, ReadIsTime, TimeKept, Counting, OvfServed,
         Control, ReadHalves, Runs, Goto, Context, IsrOff, Masked, HwTypeOK,
         HistTypeOK, CpuTypeOK, hwVars, locals, drvVars, Wrap, Word
<1>13. ASSUME NEW c \in Context, StartAtInsert(c) PROVE ReadIsTime'
  BY <1>13, <1>0, Parameters
     DEF StartAtInsert, Return, Home, ReadIsTime, TimeKept, Counting,
         OvfServed, Control, ReadHalves, Runs, Goto, Context, IsrOff, Masked,
         HwTypeOK, HistTypeOK, CpuTypeOK, hwVars, locals, drvVars, Wrap, Word
<1>14. ASSUME NEW c \in Context, Stop(c) PROVE ReadIsTime'
  <2>1. ASSUME NEW d \in Context, d # c
        PROVE  /\ pc'[d] = pc[d] /\ ret'[d] = ret[d] /\ seen'[d] = seen[d]
               /\ tcntr'[d] = tcntr[d] /\ low'[d] = low[d]
    BY <1>14, <2>1 DEF Stop, Return, CpuTypeOK, Goto, locals
  <2>2. ovf' = ovf
    BY <1>14 DEF Stop, hwVars
  <2>3. pc'[c] \notin {"rd2", "rd4"}
    BY <1>14 DEF Stop, Return, Home, Goto, CpuTypeOK
  <2>9. QED
    BY <2>1, <2>2, <2>3 DEF ReadIsTime
<1>15. CASE IrqEnter
  BY <1>15, <1>0, Parameters
     DEF IrqEnter, ReadIsTime, TimeKept, Counting, OvfServed, Control,
         ReadHalves, Runs, Goto, Context, IsrOff, Masked, HwTypeOK, HistTypeOK,
         CpuTypeOK, hwVars, locals, drvVars, Wrap, Word
<1>16. CASE IrqCompare
  BY <1>16, <1>0, Parameters
     DEF IrqCompare, ReadIsTime, TimeKept, Counting, OvfServed, Control,
         ReadHalves, Runs, Goto, Context, IsrOff, Masked, HwTypeOK, HistTypeOK,
         CpuTypeOK, hwVars, locals, drvVars, Wrap, Word
<1>17. CASE IrqOverflow
  BY <1>17, <1>0, Parameters
     DEF IrqOverflow, ReadIsTime, TimeKept, Counting, OvfServed, Control,
         ReadHalves, Runs, Goto, Context, IsrOff, Masked, HwTypeOK, HistTypeOK,
         CpuTypeOK, hwVars, locals, drvVars, Wrap, Word
<1>18. CASE ChkEmpty
  BY <1>18, <1>0, Parameters
     DEF ChkEmpty, ReadIsTime, TimeKept, Counting, OvfServed, Control,
         ReadHalves, Runs, Goto, Context, IsrOff, Masked, HwTypeOK, HistTypeOK,
         CpuTypeOK, hwVars, locals, drvVars, Wrap, Word
<1>19. CASE ChkFirst
  BY <1>19, <1>0, Parameters
     DEF ChkFirst, ReadIsTime, TimeKept, Counting, OvfServed, Control,
         ReadHalves, Runs, Goto, Context, IsrOff, Masked, HwTypeOK, HistTypeOK,
         CpuTypeOK, hwVars, locals, drvVars, Wrap, Word
<1>20. CASE ChkFire
  BY <1>20, <1>0, Parameters
     DEF ChkFire, ReadIsTime, TimeKept, Counting, OvfServed, Control,
         ReadHalves, Runs, Goto, Context, IsrOff, Masked, HwTypeOK, HistTypeOK,
         CpuTypeOK, hwVars, locals, drvVars, Wrap, Word
<1>21. CASE ChkWait
  BY <1>21, <1>0, Parameters
     DEF ChkWait, ReadIsTime, TimeKept, Counting, OvfServed, Control,
         ReadHalves, Runs, Goto, Context, IsrOff, Masked, HwTypeOK, HistTypeOK,
         CpuTypeOK, hwVars, locals, drvVars, Wrap, Word
<1>22. CASE IrqExit
  BY <1>22, <1>0, Parameters
     DEF IrqExit, ReadIsTime, TimeKept, Counting, OvfServed, Control,
         ReadHalves, Runs, Goto, Context, IsrOff, Masked, HwTypeOK, HistTypeOK,
         CpuTypeOK, hwVars, locals, drvVars, Wrap, Word
<1>23. CASE CbReturn
  BY <1>23, <1>0, Parameters
     DEF CbReturn, Return, ReadIsTime, TimeKept, Counting, OvfServed, Control,
         ReadHalves, Runs, Goto, Context, IsrOff, Masked, HwTypeOK, HistTypeOK,
         CpuTypeOK, hwVars, locals, drvVars, Wrap, Word
<1>24. ASSUME NEW t \in Timers, NEW n \in CbTicks, CbStart(t, n) PROVE ReadIsTime'
  BY <1>24, <1>0, Parameters
     DEF CbStart, Begin, ReadIsTime, TimeKept, Counting, OvfServed, Control,
         ReadHalves, Runs, Goto, Context, IsrOff, Masked, HwTypeOK, HistTypeOK,
         CpuTypeOK, hwVars, locals, drvVars, Wrap, Word
<1>25. ASSUME NEW t \in Timers, CbStop(t) PROVE ReadIsTime'
  BY <1>25, <1>0, Parameters
     DEF CbStop, Begin, ReadIsTime, TimeKept, Counting, OvfServed, Control,
         ReadHalves, Runs, Goto, Context, IsrOff, Masked, HwTypeOK, HistTypeOK,
         CpuTypeOK, hwVars, locals, drvVars, Wrap, Word
<1>26. ASSUME NEW t \in Timers, NEW n \in TaskTicks, TaskStart(t, n) PROVE ReadIsTime'
  BY <1>26, <1>0, Parameters
     DEF TaskStart, Begin, ReadIsTime, TimeKept, Counting, OvfServed, Control,
         ReadHalves, Runs, Goto, Context, IsrOff, Masked, HwTypeOK, HistTypeOK,
         CpuTypeOK, hwVars, locals, drvVars, Wrap, Word
<1>27. ASSUME NEW t \in Timers, NEW n \in -Past .. MaxTicks, TaskStartAt(t, n) PROVE ReadIsTime'
  BY <1>27, <1>0, Parameters
     DEF TaskStartAt, Begin, ReadIsTime, TimeKept, Counting, OvfServed,
         Control, ReadHalves, Runs, Goto, Context, IsrOff, Masked, HwTypeOK,
         HistTypeOK, CpuTypeOK, hwVars, locals, drvVars, Wrap, Word
<1>28. ASSUME NEW t \in Timers, TaskStop(t) PROVE ReadIsTime'
  BY <1>28, <1>0, Parameters
     DEF TaskStop, Begin, ReadIsTime, TimeKept, Counting, OvfServed, Control,
         ReadHalves, Runs, Goto, Context, IsrOff, Masked, HwTypeOK, HistTypeOK,
         CpuTypeOK, hwVars, locals, drvVars, Wrap, Word
<1>29. CASE TaskRead
  BY <1>29, <1>0, Parameters
     DEF TaskRead, Begin, ReadIsTime, TimeKept, Counting, OvfServed, Control,
         ReadHalves, Runs, Goto, Context, IsrOff, Masked, HwTypeOK, HistTypeOK,
         CpuTypeOK, hwVars, locals, drvVars, Wrap, Word
<1>30. ASSUME NEW n \in TaskTicks, TaskDelay(n) PROVE ReadIsTime'
  BY <1>30, <1>0, Parameters
     DEF TaskDelay, Begin, ReadIsTime, TimeKept, Counting, OvfServed, Control,
         ReadHalves, Runs, Goto, Context, IsrOff, Masked, HwTypeOK, HistTypeOK,
         CpuTypeOK, hwVars, locals, drvVars, Wrap, Word
<1>31. CASE DelayLoop
  BY <1>31, <1>0, Parameters
     DEF DelayLoop, Begin, ReadIsTime, TimeKept, Counting, OvfServed, Control,
         ReadHalves, Runs, Goto, Context, IsrOff, Masked, HwTypeOK, HistTypeOK,
         CpuTypeOK, hwVars, locals, drvVars, Wrap, Word
<1>32. CASE UNCHANGED vars
  BY <1>32 DEF vars, ReadIsTime, TimeKept, Counting, OvfServed, Control,
     ReadHalves, Runs, Goto, Context, IsrOff, Masked, HwTypeOK, HistTypeOK,
     CpuTypeOK, hwVars, locals, drvVars, Wrap, Word, hwVars, drvVars, locals
<1>33. QED
  BY <1>1, <1>2, <1>3, <1>4, <1>5, <1>6, <1>7, <1>8, <1>9, <1>10, <1>11, <1>12,
     <1>13, <1>14, <1>15, <1>16, <1>17, <1>18, <1>19, <1>20, <1>21, <1>22,
     <1>23, <1>24, <1>25, <1>26, <1>27, <1>28, <1>29, <1>30, <1>31, <1>32
     DEF Next, Isr, Task, Driver

\* The second invariant is inductive given the first.
LEMMA Step2 == Inv1 /\ Inv2 /\ [Next]_vars => Inv2'
  BY OvfServedStep, TimeKeptStep, ReadIsTimeStep DEF Inv2

\* No overflow of the counter is lost or counted twice, whoever of
\* hal_timer_read_bsptimer and the interrupt handler counts it.
THEOREM TimerTimeKept == Spec => []TimeKept
<1>1. Inv2 => TimeKept
  BY DEF Inv2
<1>2. QED
  BY Init1, Step1, Init2, Step2, <1>1, PTL DEF Spec

\* hal_timer_read_bsptimer returns the time at which it sampled the counter.
THEOREM TimerReadIsTime == Spec => []ReadIsTime
<1>1. Inv2 => ReadIsTime
  BY DEF Inv2
<1>2. QED
  BY Init1, Step1, Init2, Step2, <1>1, PTL DEF Spec

-----------------------------------------------------------------------------
(* Never early *)

\* How far the time is past the one a context sampled.
Behind(c) == Wrap(now - seen[c])

\* A sample in use is at most a busy period old.
SampleFresh ==
    /\ \A c \in Context :
        pc[c] \in {"rd2", "rd4"} /\ ret[c] # "delay" => Behind(c) <= lag
    /\ pc["isr"] = "cmp" => tcntr["isr"] = seen["isr"] /\ Behind("isr") <= lag

\* A tick about to be queued is the one really asked for, and near.
GoalFresh ==
    \A c \in Context : pc[c] \in {"start_at", "insert"} =>
        /\ arg[c] = seen[c]
        /\ -(Past + lag) <= Signed(seen[c], now)
        /\ Signed(seen[c], now) <= MaxTicks

\* A timer between the check and the insertion belongs to one context, as long
\* as it is not contested.
Owned ==
    /\ \A c \in Context : pc[c] = "insert"
            => expiry[cur[c]] = arg[c] /\ ~InQueue(cur[c])
    /\ pc["task"] = "insert" /\ pc["isr"] = "insert" => cur["isr"] # cur["task"]

\* The expiry of a queued timer is the time it is really due.
QueueTimes ==
    \A t \in Timers : InQueue(t) =>
        /\ due[t] <= MaxTicks
        /\ due[t] > 0 => expiry[t] = Wrap(now + due[t])

Inv3 == SampleFresh /\ GoalFresh /\ Owned /\ QueueTimes

\* Nothing is sampled, started or queued at first.
LEMMA Init3 == Init => Inv3
  BY DEF Init, Inv3, SampleFresh, GoalFresh, Owned, QueueTimes, InQueue, Context

\* Signed differences undo wrapped sums, and move with the clock.
LEMMA SignedWrap ==
    ASSUME NEW a \in Word, NEW b \in Word
    PROVE  Signed(a, b) \in Int /\ Wrap(b + Signed(a, b)) = a
  BY Parameters DEF Signed, Wrap, Word

LEMMA SignedTick ==
    ASSUME NEW a \in Word, NEW b \in Word, Signed(a, b) > -Half
    PROVE  Signed(a, Wrap(b + 1)) = Signed(a, b) - 1
  BY Parameters DEF Signed, Wrap, Word

LEMMA BehindTick ==
    ASSUME NEW a \in Word, NEW b \in Word, Wrap(b - a) < Modulus - 1
    PROVE  Wrap(Wrap(b + 1) - a) = Wrap(b - a) + 1
  BY Parameters DEF Wrap, Word

LEMMA GoalAhead ==
    ASSUME NEW a \in Word, NEW b \in Word, NEW n \in 0 .. MaxTicks,
           Wrap(b - a) <= Latency
    PROVE  Signed(Wrap(a + n), b) = n - Wrap(b - a)
  BY Parameters DEF Signed, Wrap, Word

LEMMA DueTick ==
    ASSUME NEW b \in Word, NEW d \in 1 .. MaxTicks
    PROVE  Wrap(Wrap(b + 1) + (d - 1)) = Wrap(b + d)
  BY Parameters DEF Wrap, Word

LEMMA NotYet ==
    ASSUME NEW a \in Word, NEW b \in Word, NEW d \in 1 .. MaxTicks,
           Wrap(b - a) <= Latency
    PROVE  Signed(a, Wrap(b + d)) < 0
  BY Parameters DEF Signed, Wrap, Word

\* Sequences: the parts of a concatenation and of a subsequence.
LEMMA ConcatParts ==
    ASSUME NEW S, NEW s \in Seq(S), NEW r \in Seq(S)
    PROVE  /\ s \o r \in Seq(S) /\ Len(s \o r) = Len(s) + Len(r)
           /\ \A i \in 1 .. Len(s) : (s \o r)[i] = s[i]
           /\ \A i \in 1 .. Len(r) : (s \o r)[Len(s) + i] = r[i]
  OBVIOUS

LEMMA SubSeqParts ==
    ASSUME NEW S, NEW s \in Seq(S), NEW a \in 1 .. Len(s) + 1, NEW b \in a - 1 .. Len(s)
    PROVE  /\ SubSeq(s, a, b) \in Seq(S) /\ Len(SubSeq(s, a, b)) = b - a + 1
           /\ \A i \in 1 .. b - a + 1 : SubSeq(s, a, b)[i] = s[a + i - 1]
  OBVIOUS

\* Inserting shifts the rest of the sequence up by one.
LEMMA InsertParts ==
    ASSUME NEW S, NEW s \in Seq(S), NEW t \in S, NEW p \in 1 .. Len(s) + 1
    PROVE  /\ Len(InsertAt(s, p, t)) = Len(s) + 1
           /\ \A i \in 1 .. p - 1 : InsertAt(s, p, t)[i] = s[i]
           /\ InsertAt(s, p, t)[p] = t
           /\ \A i \in p + 1 .. Len(s) + 1 : InsertAt(s, p, t)[i] = s[i - 1]
<1> DEFINE a == SubSeq(s, 1, p - 1)
           b == SubSeq(s, p, Len(s))
           m == a \o <<t>>
<1>0. Len(s) \in Nat /\ p \in Int
  OBVIOUS
<1>1. a \in Seq(S) /\ Len(a) = p - 1 /\ \A i \in 1 .. p - 1 : a[i] = s[i]
  OBVIOUS
<1>2. b \in Seq(S) /\ Len(b) = Len(s) - p + 1
  BY SubSeqParts
<1>3. \A i \in 1 .. Len(s) - p + 1 : b[i] = s[p + i - 1]
  BY SubSeqParts
<1>4. <<t>> \in Seq(S) /\ Len(<<t>>) = 1 /\ <<t>>[1] = t
  OBVIOUS
<1>5. InsertAt(s, p, t) = m \o b
  BY DEF InsertAt
<1> HIDE DEF a, b
<1>6. m \in Seq(S) /\ Len(m) = p /\ (\A i \in 1 .. p - 1 : m[i] = s[i]) /\ m[p] = t
  BY <1>0, <1>1, <1>4
<1> HIDE DEF m
<1>7. /\ Len(m \o b) = Len(s) + 1
      /\ \A i \in 1 .. p : (m \o b)[i] = m[i]
      /\ \A i \in 1 .. Len(s) - p + 1 : (m \o b)[p + i] = b[i]
  BY <1>0, <1>2, <1>6
<1>8. ASSUME NEW i \in p + 1 .. Len(s) + 1 PROVE (m \o b)[i] = s[i - 1]
  <2>1. i - p \in 1 .. Len(s) - p + 1 /\ p + (i - p) = i /\ p + (i - p) - 1 = i - 1
    BY <1>0
  <2>2. (m \o b)[p + (i - p)] = b[i - p] /\ b[i - p] = s[p + (i - p) - 1]
    BY <2>1, <1>3, <1>7
  <2>3. QED
    BY <2>1, <2>2
<1>9. QED
  BY <1>0, <1>5, <1>6, <1>7, <1>8

\* Removing shifts it down.
LEMMA RemoveParts ==
    ASSUME NEW S, NEW s \in Seq(S), NEW p \in 1 .. Len(s)
    PROVE  /\ Len(RemoveAt(s, p)) = Len(s) - 1
           /\ \A i \in 1 .. p - 1 : RemoveAt(s, p)[i] = s[i]
           /\ \A i \in p .. Len(s) - 1 : RemoveAt(s, p)[i] = s[i + 1]
<1> DEFINE a == SubSeq(s, 1, p - 1)
           b == SubSeq(s, p + 1, Len(s))
<1>0. Len(s) \in Nat /\ p \in Int
  OBVIOUS
<1>1. a \in Seq(S) /\ Len(a) = p - 1 /\ \A i \in 1 .. p - 1 : a[i] = s[i]
  OBVIOUS
<1>2. b \in Seq(S) /\ Len(b) = Len(s) - p
  BY SubSeqParts
<1>3. \A i \in 1 .. Len(s) - p : b[i] = s[p + i]
  BY SubSeqParts
<1>4. RemoveAt(s, p) = a \o b
  BY DEF RemoveAt
<1> HIDE DEF a, b
<1>5. /\ Len(a \o b) = Len(s) - 1
      /\ \A i \in 1 .. p - 1 : (a \o b)[i] = a[i]
      /\ \A i \in 1 .. Len(s) - p : (a \o b)[p - 1 + i] = b[i]
  <2>0. a \in Seq(S) /\ b \in Seq(S)
    BY <1>1, <1>2
  <2>1. /\ Len(a \o b) = Len(a) + Len(b)
        /\ \A i \in 1 .. Len(a) : (a \o b)[i] = a[i]
        /\ \A i \in 1 .. Len(b) : (a \o b)[Len(a) + i] = b[i]
    BY <2>0
  <2>2. QED
    BY <1>0, <1>1, <1>2, <2>1
<1>6. ASSUME NEW i \in p .. Len(s) - 1 PROVE (a \o b)[i] = s[i + 1]
  <2>1. i - p + 1 \in 1 .. Len(s) - p /\ p - 1 + (i - p + 1) = i /\ p + (i - p + 1) = i + 1
    BY <1>0
  <2>2. (a \o b)[p - 1 + (i - p + 1)] = b[i - p + 1] /\ b[i - p + 1] = s[p + (i - p + 1)]
    BY <2>1, <1>3, <1>5
  <2>3. QED
    BY <2>1, <2>2
<1>7. QED
  BY <1>0, <1>1, <1>4, <1>5, <1>6

\* The queue after an insertion or a removal holds no other timer.
LEMMA QueueMembers ==
    ASSUME Inv1, NEW t \in Timers
    PROVE  /\ \A i \in 1 .. Len(InsertAt(q, InsertPos(t), t)) :
                 \/ InsertAt(q, InsertPos(t), t)[i] = t
                 \/ InQueue(InsertAt(q, InsertPos(t), t)[i])
           /\ InQueue(t) => \A i \in 1 .. Len(Unlinked(t)) : InQueue(Unlinked(t)[i])
           /\ q # <<>> => \A i \in 1 .. Len(Tail(q)) : InQueue(Tail(q)[i])
<1> USE DEF Inv1, TypeOK
<1>1. expiry \in [Timers -> Int] /\ q \in Seq(Timers)
  BY Parameters DEF DrvTypeOK, Word
<1>2. InsertPos(t) \in 1 .. Len(q) + 1
  BY <1>1, InsertPosType
<1>3. ASSUME NEW p \in 1 .. Len(q) + 1, NEW i \in 1 .. Len(InsertAt(q, p, t))
      PROVE  InsertAt(q, p, t)[i] = t \/ InQueue(InsertAt(q, p, t)[i])
  <2>1. Len(q) \in Nat /\ Len(InsertAt(q, p, t)) = Len(q) + 1
    BY <1>1, InsertParts
  <2>2. CASE i < p
    <3>1. i \in 1 .. p - 1 /\ i \in 1 .. Len(q)
      BY <2>1, <2>2
    <3>2. InsertAt(q, p, t)[i] = q[i]
      BY <1>1, <3>1, InsertParts
    <3>3. QED
      BY <3>1, <3>2 DEF InQueue
  <2>3. CASE i = p
    BY <1>1, <2>3, InsertParts
  <2>4. CASE i > p
    <3>1. i \in p + 1 .. Len(q) + 1 /\ i - 1 \in 1 .. Len(q)
      BY <2>1, <2>4
    <3>2. InsertAt(q, p, t)[i] = q[i - 1]
      BY <1>1, <3>1, InsertParts
    <3>3. QED
      BY <3>1, <3>2 DEF InQueue
  <2>5. QED
    BY <2>1, <2>2, <2>3, <2>4
<1>4. ASSUME NEW p \in 1 .. Len(q), NEW i \in 1 .. Len(RemoveAt(q, p))
      PROVE  InQueue(RemoveAt(q, p)[i])
  <2>1. Len(q) \in Nat /\ Len(RemoveAt(q, p)) = Len(q) - 1
    BY <1>1, RemoveParts
  <2>2. CASE i < p
    <3>1. i \in 1 .. p - 1 /\ i \in 1 .. Len(q)
      BY <2>1, <2>2
    <3>2. RemoveAt(q, p)[i] = q[i]
      BY <1>1, <3>1, RemoveParts
    <3>3. QED
      BY <3>1, <3>2 DEF InQueue
  <2>3. CASE i >= p
    <3>1. i \in p .. Len(q) - 1 /\ i + 1 \in 1 .. Len(q)
      BY <2>1, <2>3
    <3>2. RemoveAt(q, p)[i] = q[i + 1]
      BY <1>1, <3>1, RemoveParts
    <3>3. QED
      BY <3>1, <3>2 DEF InQueue
  <2>4. QED
    BY <2>1, <2>2, <2>3
<1>5. ASSUME InQueue(t), NEW i \in 1 .. Len(Unlinked(t))
      PROVE  InQueue(Unlinked(t)[i])
  <2>1. PICK p \in 1 .. Len(q) : Unlinked(t) = RemoveAt(q, p)
    BY <1>1, <1>5, UnlinkedType
  <2>2. QED
    BY <1>4, <1>5, <2>1
<1>6. ASSUME q # <<>>, NEW i \in 1 .. Len(Tail(q))
      PROVE  InQueue(Tail(q)[i])
  BY <1>1, <1>6 DEF InQueue
<1>7. QED
  BY <1>2, <1>3, <1>5, <1>6

\* The distance to a tick that was just computed from the time.
LEMMA SignedOf ==
    ASSUME NEW a \in Word, NEW n \in -Past .. MaxTicks
    PROVE  Signed(Wrap(a + n), a) = n
  BY Parameters DEF Signed, Wrap, Word

\* A context that is in a call keeps the CPU busy while the counter ticks.
LEMMA BusyTick ==
    ASSUME Inv1, Tick, NEW c \in Context, pc[c] \notin {"idle", "off"}
    PROVE  /\ lag' = lag + 1 /\ lag < Latency /\ lag \in Int /\ 0 <= lag
           /\ now' = Wrap(now + 1) /\ now \in Word
<1>1. ~Rest
  BY DEF Rest, IsrOff, Context
<1>2. QED
  BY <1>1, Parameters DEF Tick, Inv1, TypeOK, HistTypeOK

\* While one context executes, the other is not inside a critical section.
LEMMA Alone ==
    ASSUME Inv1, NEW c \in Context, Runs(c), NEW d \in Context, d # c
    PROVE  pc[d] \notin {"rd2", "rd3", "rd4", "cmp"}
  BY DEF Inv1, Control, Runs, Context, IsrOff, Masked, Reading, Setting

\* What callers do with the value read keeps samples and goals fresh.
LEMMA ReadReturnsFresh ==
    ASSUME Inv1, Inv2, SampleFresh, NEW c \in Context, Runs(c), Settle,
           pc[c] = "rd4" \/ (pc[c] = "rd2" /\ ~ovf),
           ReadReturns(c, tcntr[c] + low[c])
    PROVE  SampleFresh' /\ (GoalFresh => GoalFresh')
<1> USE DEF Inv1, Inv2, TypeOK
<1>1. \A d \in Context : d # c => pc[d] \notin {"rd2", "rd3", "rd4", "cmp"}
  BY Alone
<1>2. ASSUME NEW d \in Context, d # c
      PROVE  /\ pc'[d] = pc[d] /\ ret'[d] = ret[d] /\ seen'[d] = seen[d]
             /\ arg'[d] = arg[d] /\ tcntr'[d] = tcntr[d]
  BY <1>2 DEF ReadReturns, Return, Goto, CpuTypeOK
<1>3. now' = now /\ now \in Word /\ lag \in Int /\ 0 <= lag /\ lag <= Latency
  BY Parameters DEF Settle, HistTypeOK
<1>4. (c = "isr" \/ pc'[c] = "start_at") => lag' = lag
  <2>1. CASE c = "isr"
    <3>1. pc'["isr"] # "off" /\ pc'["task"] = pc["task"]
      BY <2>1, <1>2 DEF ReadReturns, Return, Goto, CpuTypeOK, Control, Reading,
         Context
    <3>2. QED
      BY <3>1 DEF Settle, Rest, IsrOff
  <2>2. CASE c = "task" /\ pc'[c] = "start_at"
    BY <2>2 DEF Settle, Rest
  <2>3. QED
    BY <2>1, <2>2 DEF Context
<1>5. pc'[c] \notin {"rd2", "rd4", "insert"}
  BY DEF ReadReturns, Return, Goto, CpuTypeOK
<1>6. ret[c] # "delay" => tcntr[c] + low[c] = seen[c] /\ Behind(c) <= lag
  BY DEF ReadIsTime, SampleFresh
<1>7. SampleFresh'
  <2>1. ASSUME pc'["isr"] = "cmp"
        PROVE  tcntr'["isr"] = seen'["isr"] /\ Behind("isr")' <= lag'
    <3>1. c = "isr"
      BY <2>1, <1>1, <1>2 DEF Context
    <3>2. ret[c] = "chk" /\ tcntr'[c] = tcntr[c] + low[c] /\ seen' = seen
      BY <2>1, <3>1 DEF ReadReturns, Return, Goto, CpuTypeOK
    <3>3. QED
      BY <1>3, <1>4, <1>6, <3>1, <3>2 DEF Behind
  <2>2. ASSUME NEW d \in Context PROVE pc'[d] \notin {"rd2", "rd4"}
    BY <1>1, <1>2, <1>5
  <2>3. QED
    BY <2>1, <2>2 DEF SampleFresh
<1>8. ASSUME GoalFresh PROVE GoalFresh'
  <2>1. ASSUME NEW d \in Context, d # c, pc'[d] \in {"start_at", "insert"}
        PROVE  /\ arg'[d] = seen'[d]
               /\ -(Past + lag') <= Signed(seen'[d], now')
               /\ Signed(seen'[d], now') <= MaxTicks
    <3>1. pc[d] \in {"start_at", "insert"}
      BY <2>1, <1>2
    <3>2. c = "isr"
      BY <2>1, <3>1 DEF Context, Runs, IsrOff
    <3>3. QED
      BY <1>8, <2>1, <3>1, <3>2, <1>2, <1>3, <1>4 DEF GoalFresh
  <2>2. ASSUME pc'[c] = "start_at"
        PROVE  /\ arg'[c] = seen'[c]
               /\ -(Past + lag') <= Signed(seen'[c], now')
               /\ Signed(seen'[c], now') <= MaxTicks
    <3>1. ret[c] = "start"
      BY <2>2 DEF ReadReturns, Return, Goto, CpuTypeOK, Control, Reading
    <3>2. arg[c] \in 0 .. MaxTicks
      <4>1. arg[c] \in TaskTicks \cup CbTicks
        BY <3>1 DEF Control, Reading
      <4>2. QED
        BY <4>1, Parameters
    <3>3. /\ arg'[c] = Wrap(tcntr[c] + low[c] + arg[c])
          /\ seen'[c] = Wrap(seen[c] + arg[c])
      BY <3>1 DEF ReadReturns, CpuTypeOK
    <3>4. seen[c] \in Word
      BY DEF CpuTypeOK
    <3>5. Behind(c) <= Latency /\ Behind(c) \in Int /\ 0 <= Behind(c) /\ Behind(c) <= lag
      BY <1>3, <1>6, <3>1, <3>4, Parameters DEF Behind, Wrap, Word
    <3>6. Signed(Wrap(seen[c] + arg[c]), now) = arg[c] - Behind(c)
      BY <1>3, <3>2, <3>4, <3>5, GoalAhead DEF Behind
    <3>7. QED
      BY <1>3, <1>4, <1>6, <2>2, <3>1, <3>2, <3>3, <3>5, <3>6, Parameters
  <2>3. QED
    BY <1>5, <2>1, <2>2 DEF GoalFresh
<1>9. QED
  BY <1>7, <1>8

\* What the queue holds after the two routines that change it.
LEMMA NewQueue ==
    ASSUME Inv1, NEW c \in Context, StartAtInsert(c) \/ Stop(c),
           NEW u, InQueue(u)'
    PROVE  InQueue(u) \/ (StartAtInsert(c) /\ u = cur[c])
<1>1. cur[c] \in Timers
  BY DEF StartAtInsert, Stop, Inv1, Control
<1>2. CASE StartAtInsert(c)
  <2>1. q' = InsertAt(q, InsertPos(cur[c]), cur[c])
    BY <1>2 DEF StartAtInsert
  <2>2. QED
    BY <1>1, <1>2, <2>1, QueueMembers DEF InQueue
<1>3. CASE Stop(c)
  <2>1. q' = q \/ (InQueue(cur[c]) /\ q' = Unlinked(cur[c]))
    BY <1>3 DEF Stop
  <2>2. QED
    BY <1>1, <2>1, QueueMembers DEF InQueue
<1>4. QED
  BY <1>2, <1>3

LEMMA SampleFreshStep == Inv1 /\ Inv2 /\ SampleFresh /\ [Next]_vars => SampleFresh'
<1> SUFFICES ASSUME Inv1, Inv2, SampleFresh, [Next]_vars PROVE SampleFresh'
  OBVIOUS
<1> USE DEF Inv1, Inv2, TypeOK
<1>0. lag \in Int /\ 0 <= lag /\ Wrap(now - now) = 0
  BY Parameters DEF HistTypeOK, Wrap, Word
<1>1. CASE Tick
  <2>1. pc' = pc /\ ret' = ret /\ tcntr' = tcntr /\ seen' = seen
    BY <1>1 DEF Tick, locals
  <2>2. ASSUME NEW c \in Context, pc[c] \in {"rd2", "rd4", "cmp"}, Behind(c) <= lag
        PROVE  Behind(c)' <= lag'
    <3>1. /\ lag' = lag + 1 /\ lag < Latency /\ lag \in Int
          /\ now' = Wrap(now + 1) /\ now \in Word
      BY <1>1, <2>2, BusyTick
    <3>2. seen[c] \in Word
      BY DEF CpuTypeOK
    <3>3. Wrap(now - seen[c]) < Modulus - 1 /\ Wrap(now - seen[c]) \in Int
      BY <2>2, <3>1, <3>2, Parameters DEF Behind, Wrap, Word
    <3>4. Wrap(Wrap(now + 1) - seen[c]) = Wrap(now - seen[c]) + 1
      BY <3>1, <3>2, <3>3, BehindTick
    <3>5. QED
      BY <2>1, <2>2, <3>1, <3>3, <3>4 DEF Behind
  <2>3. QED
    BY <2>1, <2>2 DEF SampleFresh, Context
<1>2. ASSUME NEW c \in Context, ReadCount(c) PROVE SampleFresh'
  BY <1>2, <1>0
     DEF ReadCount, SampleFresh, Behind, Control, Runs, Goto, Settle, Rest,
         Context, IsrOff, Masked, Reading, CpuTypeOK, locals
<1>3. ASSUME NEW c \in Context, ReadNoOvf(c) PROVE SampleFresh'
  BY <1>3, ReadReturnsFresh DEF ReadNoOvf
<1>4. ASSUME NEW c \in Context, ReadOvf(c) PROVE SampleFresh'
  BY <1>4, <1>0
     DEF ReadOvf, SampleFresh, Behind, Control, Runs, Goto, Settle, Rest,
         Context, IsrOff, Masked, Reading, CpuTypeOK, locals
<1>5. ASSUME NEW c \in Context, ReadAgain(c) PROVE SampleFresh'
  BY <1>5, <1>0
     DEF ReadAgain, SampleFresh, Behind, Control, Runs, Goto, Settle, Rest,
         Context, IsrOff, Masked, Reading, CpuTypeOK, locals
<1>6. ASSUME NEW c \in Context, ReadDone(c) PROVE SampleFresh'
  BY <1>6, ReadReturnsFresh DEF ReadDone
<1>7. ASSUME NEW c \in Context, OcmpEpoch(c) PROVE SampleFresh'
  BY <1>7, <1>0
     DEF OcmpEpoch, OcmpReturns, Return, Home, SampleFresh, Behind, Control,
         Runs, Goto, Settle, Rest, Context, IsrOff, Masked, Reading, CpuTypeOK,
         locals
<1>8. ASSUME NEW c \in Context, OcmpSetCompare(c) PROVE SampleFresh'
  BY <1>8, <1>0
     DEF OcmpSetCompare, SampleFresh, Behind, Control, Runs, Goto, Settle,
         Rest, Context, IsrOff, Masked, Reading, CpuTypeOK, locals
<1>9. ASSUME NEW c \in Context, OcmpClearFlag(c) PROVE SampleFresh'
  BY <1>9, <1>0
     DEF OcmpClearFlag, SampleFresh, Behind, Control, Runs, Goto, Settle, Rest,
         Context, IsrOff, Masked, Reading, CpuTypeOK, locals
<1>10. ASSUME NEW c \in Context, OcmpEnable(c) PROVE SampleFresh'
  BY <1>10, <1>0
     DEF OcmpEnable, SampleFresh, Behind, Control, Runs, Goto, Settle, Rest,
         Context, IsrOff, Masked, Reading, CpuTypeOK, locals
<1>11. ASSUME NEW c \in Context, OcmpCheckLate(c) PROVE SampleFresh'
  BY <1>11, <1>0
     DEF OcmpCheckLate, OcmpReturns, Return, Home, SampleFresh, Behind,
         Control, Runs, Goto, Settle, Rest, Context, IsrOff, Masked, Reading,
         CpuTypeOK, locals
<1>12. ASSUME NEW c \in Context, StartAtCheck(c) PROVE SampleFresh'
  BY <1>12, <1>0
     DEF StartAtCheck, Return, Home, SampleFresh, Behind, Control, Runs, Goto,
         Settle, Rest, Context, IsrOff, Masked, Reading, CpuTypeOK, locals
<1>13. ASSUME NEW c \in Context, StartAtInsert(c) PROVE SampleFresh'
  BY <1>13, <1>0
     DEF StartAtInsert, Return, Home, SampleFresh, Behind, Control, Runs, Goto,
         Settle, Rest, Context, IsrOff, Masked, Reading, CpuTypeOK, locals
<1>14. ASSUME NEW c \in Context, Stop(c) PROVE SampleFresh'
  BY <1>14, <1>0
     DEF Stop, Return, Home, SampleFresh, Behind, Control, Runs, Goto, Settle,
         Rest, Context, IsrOff, Masked, Reading, CpuTypeOK, locals
<1>15. CASE IrqEnter
  BY <1>15, <1>0
     DEF IrqEnter, SampleFresh, Behind, Control, Runs, Goto, Settle, Rest,
         Context, IsrOff, Masked, Reading, CpuTypeOK, locals
<1>16. CASE IrqCompare
  BY <1>16, <1>0
     DEF IrqCompare, SampleFresh, Behind, Control, Runs, Goto, Settle, Rest,
         Context, IsrOff, Masked, Reading, CpuTypeOK, locals
<1>17. CASE IrqOverflow
  BY <1>17, <1>0
     DEF IrqOverflow, SampleFresh, Behind, Control, Runs, Goto, Settle, Rest,
         Context, IsrOff, Masked, Reading, CpuTypeOK, locals
<1>18. CASE ChkEmpty
  BY <1>18, <1>0
     DEF ChkEmpty, SampleFresh, Behind, Control, Runs, Goto, Settle, Rest,
         Context, IsrOff, Masked, Reading, CpuTypeOK, locals
<1>19. CASE ChkFirst
  BY <1>19, <1>0
     DEF ChkFirst, SampleFresh, Behind, Control, Runs, Goto, Settle, Rest,
         Context, IsrOff, Masked, Reading, CpuTypeOK, locals
<1>20. CASE ChkFire
  BY <1>20, <1>0
     DEF ChkFire, SampleFresh, Behind, Control, Runs, Goto, Settle, Rest,
         Context, IsrOff, Masked, Reading, CpuTypeOK, locals
<1>21. CASE ChkWait
  BY <1>21, <1>0
     DEF ChkWait, SampleFresh, Behind, Control, Runs, Goto, Settle, Rest,
         Context, IsrOff, Masked, Reading, CpuTypeOK, locals
<1>22. CASE IrqExit
  BY <1>22, <1>0
     DEF IrqExit, SampleFresh, Behind, Control, Runs, Goto, Settle, Rest,
         Context, IsrOff, Masked, Reading, CpuTypeOK, locals
<1>23. CASE CbReturn
  BY <1>23, <1>0
     DEF CbReturn, Return, SampleFresh, Behind, Control, Runs, Goto, Settle,
         Rest, Context, IsrOff, Masked, Reading, CpuTypeOK, locals
<1>24. ASSUME NEW t \in Timers, NEW n \in CbTicks, CbStart(t, n) PROVE SampleFresh'
  BY <1>24, <1>0
     DEF CbStart, Begin, SampleFresh, Behind, Control, Runs, Goto, Settle,
         Rest, Context, IsrOff, Masked, Reading, CpuTypeOK, locals
<1>25. ASSUME NEW t \in Timers, CbStop(t) PROVE SampleFresh'
  BY <1>25, <1>0
     DEF CbStop, Begin, SampleFresh, Behind, Control, Runs, Goto, Settle, Rest,
         Context, IsrOff, Masked, Reading, CpuTypeOK, locals
<1>26. ASSUME NEW t \in Timers, NEW n \in TaskTicks, TaskStart(t, n) PROVE SampleFresh'
  BY <1>26, <1>0
     DEF TaskStart, Begin, SampleFresh, Behind, Control, Runs, Goto, Settle,
         Rest, Context, IsrOff, Masked, Reading, CpuTypeOK, locals
<1>27. ASSUME NEW t \in Timers, NEW n \in -Past .. MaxTicks, TaskStartAt(t, n) PROVE SampleFresh'
  BY <1>27, <1>0
     DEF TaskStartAt, Begin, SampleFresh, Behind, Control, Runs, Goto, Settle,
         Rest, Context, IsrOff, Masked, Reading, CpuTypeOK, locals
<1>28. ASSUME NEW t \in Timers, TaskStop(t) PROVE SampleFresh'
  BY <1>28, <1>0
     DEF TaskStop, Begin, SampleFresh, Behind, Control, Runs, Goto, Settle,
         Rest, Context, IsrOff, Masked, Reading, CpuTypeOK, locals
<1>29. CASE TaskRead
  BY <1>29, <1>0
     DEF TaskRead, Begin, SampleFresh, Behind, Control, Runs, Goto, Settle,
         Rest, Context, IsrOff, Masked, Reading, CpuTypeOK, locals
<1>30. ASSUME NEW n \in TaskTicks, TaskDelay(n) PROVE SampleFresh'
  BY <1>30, <1>0
     DEF TaskDelay, Begin, SampleFresh, Behind, Control, Runs, Goto, Settle,
         Rest, Context, IsrOff, Masked, Reading, CpuTypeOK, locals
<1>31. CASE DelayLoop
  BY <1>31, <1>0
     DEF DelayLoop, Begin, SampleFresh, Behind, Control, Runs, Goto, Settle,
         Rest, Context, IsrOff, Masked, Reading, CpuTypeOK, locals
<1>32. CASE UNCHANGED vars
  BY <1>32 DEF vars, SampleFresh, Behind, Control, Runs, Goto, Settle, Rest,
     Context, IsrOff, Masked, Reading, CpuTypeOK, locals, hwVars, drvVars,
     locals
<1>33. QED
  BY <1>1, <1>2, <1>3, <1>4, <1>5, <1>6, <1>7, <1>8, <1>9, <1>10, <1>11, <1>12,
     <1>13, <1>14, <1>15, <1>16, <1>17, <1>18, <1>19, <1>20, <1>21, <1>22,
     <1>23, <1>24, <1>25, <1>26, <1>27, <1>28, <1>29, <1>30, <1>31, <1>32
     DEF Next, Isr, Task, Driver

LEMMA OwnedStep == Inv1 /\ Inv2 /\ Inv3 /\ [Next]_vars /\ ~contested' => Owned'
<1> SUFFICES ASSUME Inv1, Inv2, Inv3, [Next]_vars, ~contested' PROVE Owned'
  OBVIOUS
<1> USE DEF Inv1, Inv2, Inv3, TypeOK
<1>1. CASE Tick
  BY <1>1
     DEF Tick, Owned, InQueue, Control, Runs, Goto, Context,
         IsrOff, Masked, Reading, CpuTypeOK, DrvTypeOK, locals, drvVars
<1>2. ASSUME NEW c \in Context, ReadCount(c) PROVE Owned'
  BY <1>2
     DEF ReadCount, Owned, InQueue, Control, Runs, Goto, Context,
         IsrOff, Masked, Reading, CpuTypeOK, DrvTypeOK, locals, drvVars
<1>3. ASSUME NEW c \in Context, ReadNoOvf(c) PROVE Owned'
  BY <1>3
     DEF ReadNoOvf, ReadReturns, DelayGoesOn, Return, Owned, InQueue, Control, Runs, Goto, Context, IsrOff, Masked, Reading,
         CpuTypeOK, DrvTypeOK, locals, drvVars
<1>4. ASSUME NEW c \in Context, ReadOvf(c) PROVE Owned'
  BY <1>4
     DEF ReadOvf, Owned, InQueue, Control, Runs, Goto, Context,
         IsrOff, Masked, Reading, CpuTypeOK, DrvTypeOK, locals, drvVars
<1>5. ASSUME NEW c \in Context, ReadAgain(c) PROVE Owned'
  BY <1>5
     DEF ReadAgain, Owned, InQueue, Control, Runs, Goto, Context,
         IsrOff, Masked, Reading, CpuTypeOK, DrvTypeOK, locals, drvVars
<1>6. ASSUME NEW c \in Context, ReadDone(c) PROVE Owned'
  BY <1>6
     DEF ReadDone, ReadReturns, DelayGoesOn, Return, Owned, InQueue, Control, Runs, Goto, Context, IsrOff, Masked, Reading,
         CpuTypeOK, DrvTypeOK, locals, drvVars
<1>7. ASSUME NEW c \in Context, OcmpEpoch(c) PROVE Owned'
  BY <1>7
     DEF OcmpEpoch, OcmpReturns, Return, Home, Owned, InQueue,
         Control, Runs, Goto, Context, IsrOff, Masked, Reading, CpuTypeOK,
         DrvTypeOK, locals, drvVars
<1>8. ASSUME NEW c \in Context, OcmpSetCompare(c) PROVE Owned'
  BY <1>8
     DEF OcmpSetCompare, Owned, InQueue, Control, Runs, Goto,
         Context, IsrOff, Masked, Reading, CpuTypeOK, DrvTypeOK, locals, drvVars
<1>9. ASSUME NEW c \in Context, OcmpClearFlag(c) PROVE Owned'
  BY <1>9
     DEF OcmpClearFlag, Owned, InQueue, Control, Runs, Goto,
         Context, IsrOff, Masked, Reading, CpuTypeOK, DrvTypeOK, locals, drvVars
<1>10. ASSUME NEW c \in Context, OcmpEnable(c) PROVE Owned'
  BY <1>10
     DEF OcmpEnable, Owned, InQueue, Control, Runs, Goto, Context,
         IsrOff, Masked, Reading, CpuTypeOK, DrvTypeOK, locals, drvVars
<1>11. ASSUME NEW c \in Context, OcmpCheckLate(c) PROVE Owned'
  BY <1>11
     DEF OcmpCheckLate, OcmpReturns, Return, Home, Owned, InQueue,
         Control, Runs, Goto, Context, IsrOff, Masked, Reading, CpuTypeOK,
         DrvTypeOK, locals, drvVars
<1>12. ASSUME NEW c \in Context, StartAtCheck(c) PROVE Owned'
  <2>2. CASE c = "task"
    BY <1>12, <2>2
       DEF StartAtCheck, Return, Home, Owned, InQueue, Control, Runs, Goto,
           Context, IsrOff, CpuTypeOK, DrvTypeOK, locals, drvVars
  <2>3. CASE c = "isr"
    <3>1. pc'["isr"] = "insert" /\ pc["task"] = "insert" => cur["isr"] # cur["task"]
      BY <1>12, <2>3 DEF StartAtCheck, Settle, Contends
    <3>2. QED
      BY <1>12, <2>3, <3>1
         DEF StartAtCheck, Return, Home, Owned, InQueue, Control, Goto,
             Context, CpuTypeOK, DrvTypeOK, locals, drvVars
  <2>4. QED
    BY <2>2, <2>3 DEF Context
<1>13. ASSUME NEW c \in Context, StartAtInsert(c) PROVE Owned'
  <2>1. \A u : InQueue(u)' => InQueue(u) \/ u = cur[c]
    BY <1>13, NewQueue
  <2>2. pc'[c] # "insert" /\ expiry' = expiry
    BY <1>13 DEF StartAtInsert, Return, Home, Goto, CpuTypeOK
  <2>3. \A d \in Context : d # c => pc'[d] = pc[d] /\ arg'[d] = arg[d] /\ cur'[d] = cur[d]
    BY <1>13 DEF StartAtInsert, Return, Goto, CpuTypeOK, locals
  <2>4. CASE c = "task"
    BY <1>13, <2>2, <2>3, <2>4 DEF StartAtInsert, Runs, IsrOff, Owned, Context
  <2>5. CASE c = "isr"
    BY <1>13, <2>1, <2>2, <2>3, <2>5 DEF StartAtInsert, Owned, Context
  <2>6. QED
    BY <2>4, <2>5 DEF Context
<1>14. ASSUME NEW c \in Context, Stop(c) PROVE Owned'
  <2>1. \A u : InQueue(u)' => InQueue(u)
    BY <1>14, NewQueue DEF Stop, StartAtInsert
  <2>2. pc'[c] # "insert" /\ expiry' = expiry
    BY <1>14 DEF Stop, Return, Home, Goto, CpuTypeOK
  <2>3. \A d \in Context : d # c => pc'[d] = pc[d] /\ arg'[d] = arg[d] /\ cur'[d] = cur[d]
    BY <1>14 DEF Stop, Return, Goto, CpuTypeOK, locals
  <2>4. CASE c = "task"
    BY <1>14, <2>2, <2>3, <2>4 DEF Stop, Runs, IsrOff, Owned, Context
  <2>5. CASE c = "isr"
    BY <1>14, <2>1, <2>2, <2>3, <2>5 DEF Stop, Owned, Context
  <2>6. QED
    BY <2>4, <2>5 DEF Context
<1>15. CASE IrqEnter
  BY <1>15
     DEF IrqEnter, Owned, InQueue, Control, Runs, Goto, Context,
         IsrOff, Masked, Reading, CpuTypeOK, DrvTypeOK, locals, drvVars
<1>16. CASE IrqCompare
  BY <1>16
     DEF IrqCompare, Owned, InQueue, Control, Runs, Goto, Context,
         IsrOff, Masked, Reading, CpuTypeOK, DrvTypeOK, locals, drvVars
<1>17. CASE IrqOverflow
  BY <1>17
     DEF IrqOverflow, Owned, InQueue, Control, Runs, Goto,
         Context, IsrOff, Masked, Reading, CpuTypeOK, DrvTypeOK, locals, drvVars
<1>18. CASE ChkEmpty
  BY <1>18
     DEF ChkEmpty, Owned, InQueue, Control, Runs, Goto, Context,
         IsrOff, Masked, Reading, CpuTypeOK, DrvTypeOK, locals, drvVars
<1>19. CASE ChkFirst
  BY <1>19
     DEF ChkFirst, Owned, InQueue, Control, Runs, Goto, Context,
         IsrOff, Masked, Reading, CpuTypeOK, DrvTypeOK, locals, drvVars
<1>20. CASE ChkFire
  BY <1>20
     DEF ChkFire, Owned, InQueue, Control, Runs, Goto, Context,
         IsrOff, Masked, Reading, CpuTypeOK, DrvTypeOK, locals, drvVars
<1>21. CASE ChkWait
  BY <1>21
     DEF ChkWait, Owned, InQueue, Control, Runs, Goto, Context,
         IsrOff, Masked, Reading, CpuTypeOK, DrvTypeOK, locals, drvVars
<1>22. CASE IrqExit
  BY <1>22
     DEF IrqExit, Owned, InQueue, Control, Runs, Goto, Context,
         IsrOff, Masked, Reading, CpuTypeOK, DrvTypeOK, locals, drvVars
<1>23. CASE CbReturn
  BY <1>23
     DEF CbReturn, Return, Owned, InQueue, Control, Runs, Goto,
         Context, IsrOff, Masked, Reading, CpuTypeOK, DrvTypeOK, locals, drvVars
<1>24. ASSUME NEW t \in Timers, NEW n \in CbTicks, CbStart(t, n) PROVE Owned'
  BY <1>24
     DEF CbStart, Begin, Owned, InQueue, Control, Runs, Goto,
         Context, IsrOff, Masked, Reading, CpuTypeOK, DrvTypeOK, locals, drvVars
<1>25. ASSUME NEW t \in Timers, CbStop(t) PROVE Owned'
  BY <1>25
     DEF CbStop, Begin, Owned, InQueue, Control, Runs, Goto,
         Context, IsrOff, Masked, Reading, CpuTypeOK, DrvTypeOK, locals, drvVars
<1>26. ASSUME NEW t \in Timers, NEW n \in TaskTicks, TaskStart(t, n) PROVE Owned'
  BY <1>26
     DEF TaskStart, Begin, Owned, InQueue, Control, Runs, Goto,
         Context, IsrOff, Masked, Reading, CpuTypeOK, DrvTypeOK, locals, drvVars
<1>27. ASSUME NEW t \in Timers, NEW n \in -Past .. MaxTicks, TaskStartAt(t, n) PROVE Owned'
  BY <1>27
     DEF TaskStartAt, Begin, Owned, InQueue, Control, Runs, Goto,
         Context, IsrOff, Masked, Reading, CpuTypeOK, DrvTypeOK, locals, drvVars
<1>28. ASSUME NEW t \in Timers, TaskStop(t) PROVE Owned'
  BY <1>28
     DEF TaskStop, Begin, Owned, InQueue, Control, Runs, Goto,
         Context, IsrOff, Masked, Reading, CpuTypeOK, DrvTypeOK, locals, drvVars
<1>29. CASE TaskRead
  BY <1>29
     DEF TaskRead, Begin, Owned, InQueue, Control, Runs, Goto,
         Context, IsrOff, Masked, Reading, CpuTypeOK, DrvTypeOK, locals, drvVars
<1>30. ASSUME NEW n \in TaskTicks, TaskDelay(n) PROVE Owned'
  BY <1>30
     DEF TaskDelay, Begin, Owned, InQueue, Control, Runs, Goto,
         Context, IsrOff, Masked, Reading, CpuTypeOK, DrvTypeOK, locals, drvVars
<1>31. CASE DelayLoop
  BY <1>31
     DEF DelayLoop, Begin, Owned, InQueue, Control, Runs, Goto,
         Context, IsrOff, Masked, Reading, CpuTypeOK, DrvTypeOK, locals, drvVars
<1>32. CASE UNCHANGED vars
  BY <1>32 DEF vars, Owned, InQueue, Control, Runs, Goto, Context,
     IsrOff, Masked, Reading, CpuTypeOK, DrvTypeOK, locals, drvVars, hwVars,
     drvVars, locals
<1>33. QED
  BY <1>1, <1>2, <1>3, <1>4, <1>5, <1>6, <1>7, <1>8, <1>9, <1>10, <1>11, <1>12,
     <1>13, <1>14, <1>15, <1>16, <1>17, <1>18, <1>19, <1>20, <1>21, <1>22,
     <1>23, <1>24, <1>25, <1>26, <1>27, <1>28, <1>29, <1>30, <1>31, <1>32
     DEF Next, Isr, Task, Driver

LEMMA GoalFreshStep == Inv1 /\ Inv2 /\ Inv3 /\ [Next]_vars => GoalFresh'
<1> SUFFICES ASSUME Inv1, Inv2, Inv3, [Next]_vars PROVE GoalFresh'
  OBVIOUS
<1> USE DEF Inv1, Inv2, Inv3, TypeOK
<1>1. CASE Tick
  <2>1. pc' = pc /\ arg' = arg /\ seen' = seen
    BY <1>1 DEF Tick, locals
  <2>2. ASSUME NEW c \in Context, pc[c] \in {"start_at", "insert"}
        PROVE  /\ -(Past + lag') <= Signed(seen[c], now')
               /\ Signed(seen[c], now') <= MaxTicks
    <3>1. /\ lag' = lag + 1 /\ lag < Latency /\ lag \in Int
          /\ now' = Wrap(now + 1) /\ now \in Word
      BY <1>1, <2>2, BusyTick
    <3>2. seen[c] \in Word
      BY DEF CpuTypeOK
    <3>3. /\ -(Past + lag) <= Signed(seen[c], now) /\ Signed(seen[c], now) <= MaxTicks
          /\ Signed(seen[c], now) \in Int
      BY <2>2, <3>1, <3>2, SignedWrap DEF GoalFresh
    <3>4. Signed(seen[c], now) > -Half
      BY <3>1, <3>3, Parameters
    <3>5. Signed(seen[c], Wrap(now + 1)) = Signed(seen[c], now) - 1
      BY <3>1, <3>2, <3>4, SignedTick
    <3>6. QED
      BY <3>1, <3>3, <3>5, Parameters
  <2>3. QED
    BY <2>1, <2>2 DEF GoalFresh
<1>2. ASSUME NEW c \in Context, ReadCount(c) PROVE GoalFresh'
  BY <1>2
     DEF ReadCount, GoalFresh, Control, Runs, Goto, Settle, Rest, Context,
         IsrOff, Masked, Reading, CpuTypeOK, HistTypeOK, locals
<1>3. ASSUME NEW c \in Context, ReadNoOvf(c) PROVE GoalFresh'
  BY <1>3, ReadReturnsFresh DEF ReadNoOvf
<1>4. ASSUME NEW c \in Context, ReadOvf(c) PROVE GoalFresh'
  BY <1>4
     DEF ReadOvf, GoalFresh, Control, Runs, Goto, Settle, Rest, Context,
         IsrOff, Masked, Reading, CpuTypeOK, HistTypeOK, locals
<1>5. ASSUME NEW c \in Context, ReadAgain(c) PROVE GoalFresh'
  BY <1>5
     DEF ReadAgain, GoalFresh, Control, Runs, Goto, Settle, Rest, Context,
         IsrOff, Masked, Reading, CpuTypeOK, HistTypeOK, locals
<1>6. ASSUME NEW c \in Context, ReadDone(c) PROVE GoalFresh'
  BY <1>6, ReadReturnsFresh DEF ReadDone
<1>7. ASSUME NEW c \in Context, OcmpEpoch(c) PROVE GoalFresh'
  BY <1>7
     DEF OcmpEpoch, OcmpReturns, Return, Home, GoalFresh, Control, Runs, Goto,
         Settle, Rest, Context, IsrOff, Masked, Reading, CpuTypeOK, HistTypeOK,
         locals
<1>8. ASSUME NEW c \in Context, OcmpSetCompare(c) PROVE GoalFresh'
  BY <1>8
     DEF OcmpSetCompare, GoalFresh, Control, Runs, Goto, Settle, Rest, Context,
         IsrOff, Masked, Reading, CpuTypeOK, HistTypeOK, locals
<1>9. ASSUME NEW c \in Context, OcmpClearFlag(c) PROVE GoalFresh'
  BY <1>9
     DEF OcmpClearFlag, GoalFresh, Control, Runs, Goto, Settle, Rest, Context,
         IsrOff, Masked, Reading, CpuTypeOK, HistTypeOK, locals
<1>10. ASSUME NEW c \in Context, OcmpEnable(c) PROVE GoalFresh'
  BY <1>10
     DEF OcmpEnable, GoalFresh, Control, Runs, Goto, Settle, Rest, Context,
         IsrOff, Masked, Reading, CpuTypeOK, HistTypeOK, locals
<1>11. ASSUME NEW c \in Context, OcmpCheckLate(c) PROVE GoalFresh'
  BY <1>11
     DEF OcmpCheckLate, OcmpReturns, Return, Home, GoalFresh, Control, Runs,
         Goto, Settle, Rest, Context, IsrOff, Masked, Reading, CpuTypeOK,
         HistTypeOK, locals
<1>12. ASSUME NEW c \in Context, StartAtCheck(c) PROVE GoalFresh'
  BY <1>12
     DEF StartAtCheck, Return, Home, GoalFresh, Control, Runs, Goto, Settle,
         Rest, Context, IsrOff, Masked, Reading, CpuTypeOK, HistTypeOK, locals
<1>13. ASSUME NEW c \in Context, StartAtInsert(c) PROVE GoalFresh'
  BY <1>13
     DEF StartAtInsert, Return, Home, GoalFresh, Control, Runs, Goto, Settle,
         Rest, Context, IsrOff, Masked, Reading, CpuTypeOK, HistTypeOK, locals
<1>14. ASSUME NEW c \in Context, Stop(c) PROVE GoalFresh'
  BY <1>14
     DEF Stop, Return, Home, GoalFresh, Control, Runs, Goto, Settle, Rest,
         Context, IsrOff, Masked, Reading, CpuTypeOK, HistTypeOK, locals
<1>15. CASE IrqEnter
  BY <1>15
     DEF IrqEnter, GoalFresh, Control, Runs, Goto, Settle, Rest, Context,
         IsrOff, Masked, Reading, CpuTypeOK, HistTypeOK, locals
<1>16. CASE IrqCompare
  BY <1>16
     DEF IrqCompare, GoalFresh, Control, Runs, Goto, Settle, Rest, Context,
         IsrOff, Masked, Reading, CpuTypeOK, HistTypeOK, locals
<1>17. CASE IrqOverflow
  BY <1>17
     DEF IrqOverflow, GoalFresh, Control, Runs, Goto, Settle, Rest, Context,
         IsrOff, Masked, Reading, CpuTypeOK, HistTypeOK, locals
<1>18. CASE ChkEmpty
  BY <1>18
     DEF ChkEmpty, GoalFresh, Control, Runs, Goto, Settle, Rest, Context,
         IsrOff, Masked, Reading, CpuTypeOK, HistTypeOK, locals
<1>19. CASE ChkFirst
  BY <1>19
     DEF ChkFirst, GoalFresh, Control, Runs, Goto, Settle, Rest, Context,
         IsrOff, Masked, Reading, CpuTypeOK, HistTypeOK, locals
<1>20. CASE ChkFire
  BY <1>20
     DEF ChkFire, GoalFresh, Control, Runs, Goto, Settle, Rest, Context,
         IsrOff, Masked, Reading, CpuTypeOK, HistTypeOK, locals
<1>21. CASE ChkWait
  BY <1>21
     DEF ChkWait, GoalFresh, Control, Runs, Goto, Settle, Rest, Context,
         IsrOff, Masked, Reading, CpuTypeOK, HistTypeOK, locals
<1>22. CASE IrqExit
  BY <1>22
     DEF IrqExit, GoalFresh, Control, Runs, Goto, Settle, Rest, Context,
         IsrOff, Masked, Reading, CpuTypeOK, HistTypeOK, locals
<1>23. CASE CbReturn
  BY <1>23
     DEF CbReturn, Return, GoalFresh, Control, Runs, Goto, Settle, Rest,
         Context, IsrOff, Masked, Reading, CpuTypeOK, HistTypeOK, locals
<1>24. ASSUME NEW t \in Timers, NEW n \in CbTicks, CbStart(t, n) PROVE GoalFresh'
  BY <1>24
     DEF CbStart, Begin, GoalFresh, Control, Runs, Goto, Settle, Rest,
         Context, IsrOff, Masked, Reading, CpuTypeOK, HistTypeOK, locals
<1>25. ASSUME NEW t \in Timers, CbStop(t) PROVE GoalFresh'
  BY <1>25
     DEF CbStop, Begin, GoalFresh, Control, Runs, Goto, Settle, Rest, Context,
         IsrOff, Masked, Reading, CpuTypeOK, HistTypeOK, locals
<1>26. ASSUME NEW t \in Timers, NEW n \in TaskTicks, TaskStart(t, n) PROVE GoalFresh'
  BY <1>26
     DEF TaskStart, Begin, GoalFresh, Control, Runs, Goto, Settle, Rest,
         Context, IsrOff, Masked, Reading, CpuTypeOK, HistTypeOK, locals
<1>27. ASSUME NEW t \in Timers, NEW n \in -Past .. MaxTicks, TaskStartAt(t, n) PROVE GoalFresh'
  <2>1. now' = now /\ now \in Word /\ lag' \in Int /\ 0 <= lag'
    BY <1>27, Parameters DEF TaskStartAt, Begin, Settle, HistTypeOK
  <2>2. /\ seen'["task"] = Wrap(now + n) /\ arg'["task"] = Wrap(now + n)
        /\ pc'["isr"] = "off"
    BY <1>27 DEF TaskStartAt, Begin, Goto, Runs, IsrOff, CpuTypeOK, Context
  <2>3. Signed(Wrap(now + n), now) = n
    BY <2>1, SignedOf
  <2>4. n \in Int /\ -Past <= n /\ n <= MaxTicks
    BY Parameters
  <2>5. QED
    BY <2>1, <2>2, <2>3, <2>4, Parameters DEF GoalFresh, Context
<1>28. ASSUME NEW t \in Timers, TaskStop(t) PROVE GoalFresh'
  BY <1>28
     DEF TaskStop, Begin, GoalFresh, Control, Runs, Goto, Settle, Rest,
         Context, IsrOff, Masked, Reading, CpuTypeOK, HistTypeOK, locals
<1>29. CASE TaskRead
  BY <1>29
     DEF TaskRead, Begin, GoalFresh, Control, Runs, Goto, Settle, Rest,
         Context, IsrOff, Masked, Reading, CpuTypeOK, HistTypeOK, locals
<1>30. ASSUME NEW n \in TaskTicks, TaskDelay(n) PROVE GoalFresh'
  BY <1>30
     DEF TaskDelay, Begin, GoalFresh, Control, Runs, Goto, Settle, Rest,
         Context, IsrOff, Masked, Reading, CpuTypeOK, HistTypeOK, locals
<1>31. CASE DelayLoop
  BY <1>31
     DEF DelayLoop, Begin, GoalFresh, Control, Runs, Goto, Settle, Rest,
         Context, IsrOff, Masked, Reading, CpuTypeOK, HistTypeOK, locals
<1>32. CASE UNCHANGED vars
  BY <1>32 DEF vars, GoalFresh, Control, Runs, Goto, Settle, Rest, Context,
     IsrOff, Masked, Reading, CpuTypeOK, HistTypeOK, locals, hwVars, drvVars,
     locals
<1>33. QED
  BY <1>1, <1>2, <1>3, <1>4, <1>5, <1>6, <1>7, <1>8, <1>9, <1>10, <1>11, <1>12,
     <1>13, <1>14, <1>15, <1>16, <1>17, <1>18, <1>19, <1>20, <1>21, <1>22,
     <1>23, <1>24, <1>25, <1>26, <1>27, <1>28, <1>29, <1>30, <1>31, <1>32
     DEF Next, Isr, Task, Driver

LEMMA QueueTimesStep == Inv1 /\ Inv2 /\ Inv3 /\ [Next]_vars => QueueTimes'
<1> SUFFICES ASSUME Inv1, Inv2, Inv3, [Next]_vars PROVE QueueTimes'
  OBVIOUS
<1> USE DEF Inv1, Inv2, Inv3, TypeOK
<1>1. CASE Tick
  <2>1. SUFFICES ASSUME NEW t \in Timers, InQueue(t)'
                 PROVE  due'[t] <= MaxTicks /\ (due'[t] > 0 => expiry'[t] = Wrap(now' + due'[t]))
    BY DEF QueueTimes
  <2>2. InQueue(t) /\ expiry' = expiry /\ now' = Wrap(now + 1)
    BY <1>1, <2>1 DEF Tick, InQueue, drvVars
  <2>3. due'[t] = due[t] - 1 /\ due[t] \in Int /\ now \in Word
    BY <1>1, <2>2 DEF Tick, HistTypeOK
  <2>4. due[t] <= MaxTicks /\ (due[t] > 0 => expiry[t] = Wrap(now + due[t]))
    BY <2>2 DEF QueueTimes
  <2>5. due[t] > 0 => Wrap(Wrap(now + 1) + (due[t] - 1)) = Wrap(now + due[t])
    BY <2>3, <2>4, DueTick, Parameters
  <2>6. QED
    BY <2>2, <2>3, <2>4, <2>5, Parameters
<1>2. ASSUME NEW c \in Context, ReadCount(c) PROVE QueueTimes'
  BY <1>2
     DEF ReadCount, QueueTimes, InQueue, Settle, drvVars
<1>3. ASSUME NEW c \in Context, ReadNoOvf(c) PROVE QueueTimes'
  BY <1>3
     DEF ReadNoOvf, ReadReturns, DelayGoesOn, Return, QueueTimes, InQueue,
         Settle, drvVars
<1>4. ASSUME NEW c \in Context, ReadOvf(c) PROVE QueueTimes'
  BY <1>4
     DEF ReadOvf, QueueTimes, InQueue, Settle, drvVars
<1>5. ASSUME NEW c \in Context, ReadAgain(c) PROVE QueueTimes'
  BY <1>5
     DEF ReadAgain, QueueTimes, InQueue, Settle, drvVars
<1>6. ASSUME NEW c \in Context, ReadDone(c) PROVE QueueTimes'
  BY <1>6
     DEF ReadDone, ReadReturns, DelayGoesOn, Return, QueueTimes, InQueue,
         Settle, drvVars
<1>7. ASSUME NEW c \in Context, OcmpEpoch(c) PROVE QueueTimes'
  BY <1>7
     DEF OcmpEpoch, OcmpReturns, Return, Home, QueueTimes, InQueue, Settle,
         drvVars
<1>8. ASSUME NEW c \in Context, OcmpSetCompare(c) PROVE QueueTimes'
  BY <1>8
     DEF OcmpSetCompare, QueueTimes, InQueue, Settle, drvVars
<1>9. ASSUME NEW c \in Context, OcmpClearFlag(c) PROVE QueueTimes'
  BY <1>9
     DEF OcmpClearFlag, QueueTimes, InQueue, Settle, drvVars
<1>10. ASSUME NEW c \in Context, OcmpEnable(c) PROVE QueueTimes'
  BY <1>10
     DEF OcmpEnable, QueueTimes, InQueue, Settle, drvVars
<1>11. ASSUME NEW c \in Context, OcmpCheckLate(c) PROVE QueueTimes'
  BY <1>11
     DEF OcmpCheckLate, OcmpReturns, Return, Home, QueueTimes, InQueue, Settle,
         drvVars
<1>12. ASSUME NEW c \in Context, StartAtCheck(c) PROVE QueueTimes'
  <2>1. q' = q /\ due' = due /\ now' = now
    BY <1>12 DEF StartAtCheck, Settle
  <2>2. \A t \in Timers : InQueue(t) => expiry'[t] = expiry[t]
    BY <1>12 DEF StartAtCheck, DrvTypeOK
  <2>3. QED
    BY <2>1, <2>2 DEF QueueTimes, InQueue
<1>13. ASSUME NEW c \in Context, StartAtInsert(c) PROVE QueueTimes'
  <2>1. expiry' = expiry /\ now' = now /\ cur[c] \in Timers /\ pc[c] = "insert"
    BY <1>13 DEF StartAtInsert, Settle, Control
  <2>2. SUFFICES ASSUME NEW t \in Timers, InQueue(t)'
                 PROVE  due'[t] <= MaxTicks /\ (due'[t] > 0 => expiry'[t] = Wrap(now' + due'[t]))
    BY DEF QueueTimes
  <2>3. CASE t = cur[c]
    <3>1. due'[t] = Signed(seen[c], now)
      BY <1>13, <2>3 DEF StartAtInsert, HistTypeOK
    <3>2. expiry[t] = seen[c] /\ Signed(seen[c], now) <= MaxTicks
      BY <2>1, <2>3 DEF Owned, GoalFresh
    <3>3. Wrap(now + Signed(seen[c], now)) = seen[c]
      BY SignedWrap DEF CpuTypeOK, HistTypeOK
    <3>4. QED
      BY <2>1, <3>1, <3>2, <3>3
  <2>4. CASE t # cur[c]
    <3>1. InQueue(t)
      BY <1>13, <2>2, <2>4, NewQueue
    <3>2. due'[t] = due[t]
      BY <1>13, <2>4 DEF StartAtInsert, HistTypeOK
    <3>3. QED
      BY <2>1, <3>1, <3>2 DEF QueueTimes
  <2>5. QED
    BY <2>3, <2>4
<1>14. ASSUME NEW c \in Context, Stop(c) PROVE QueueTimes'
  <2>1. \A t : InQueue(t)' => InQueue(t)
    BY <1>14, NewQueue DEF Stop, StartAtInsert
  <2>2. expiry' = expiry /\ now' = now
    BY <1>14 DEF Stop, Settle
  <2>3. \A t \in Timers : due'[t] = due[t] \/ due'[t] = 0
    BY <1>14 DEF Stop, HistTypeOK
  <2>4. QED
    BY <2>1, <2>2, <2>3, Parameters DEF QueueTimes
<1>15. CASE IrqEnter
  BY <1>15
     DEF IrqEnter, QueueTimes, InQueue, Settle, drvVars
<1>16. CASE IrqCompare
  BY <1>16
     DEF IrqCompare, QueueTimes, InQueue, Settle, drvVars
<1>17. CASE IrqOverflow
  BY <1>17
     DEF IrqOverflow, QueueTimes, InQueue, Settle, drvVars
<1>18. CASE ChkEmpty
  BY <1>18
     DEF ChkEmpty, QueueTimes, InQueue, Settle, drvVars
<1>19. CASE ChkFirst
  BY <1>19
     DEF ChkFirst, QueueTimes, InQueue, Settle, drvVars
<1>20. CASE ChkFire
  <2>1. \A t : InQueue(t)' => InQueue(t)
    <3>1. q # <<>> /\ q' = Tail(q) /\ Head(q) \in Timers
      BY <1>20 DEF ChkFire, Control, DrvTypeOK
    <3>2. QED
      BY <3>1, QueueMembers DEF InQueue
  <2>2. expiry' = expiry /\ now' = now
    BY <1>20 DEF ChkFire, Settle
  <2>3. \A t \in Timers : due'[t] = due[t] \/ due'[t] = 0
    BY <1>20 DEF ChkFire, HistTypeOK
  <2>4. QED
    BY <2>1, <2>2, <2>3, Parameters DEF QueueTimes
<1>21. CASE ChkWait
  BY <1>21
     DEF ChkWait, QueueTimes, InQueue, Settle, drvVars
<1>22. CASE IrqExit
  BY <1>22
     DEF IrqExit, QueueTimes, InQueue, Settle, drvVars
<1>23. CASE CbReturn
  BY <1>23
     DEF CbReturn, Return, QueueTimes, InQueue, Settle, drvVars
<1>24. ASSUME NEW t \in Timers, NEW n \in CbTicks, CbStart(t, n) PROVE QueueTimes'
  BY <1>24
     DEF CbStart, Begin, QueueTimes, InQueue, Settle, drvVars
<1>25. ASSUME NEW t \in Timers, CbStop(t) PROVE QueueTimes'
  BY <1>25
     DEF CbStop, Begin, QueueTimes, InQueue, Settle, drvVars
<1>26. ASSUME NEW t \in Timers, NEW n \in TaskTicks, TaskStart(t, n) PROVE QueueTimes'
  BY <1>26
     DEF TaskStart, Begin, QueueTimes, InQueue, Settle, drvVars
<1>27. ASSUME NEW t \in Timers, NEW n \in -Past .. MaxTicks, TaskStartAt(t, n) PROVE QueueTimes'
  BY <1>27
     DEF TaskStartAt, Begin, QueueTimes, InQueue, Settle, drvVars
<1>28. ASSUME NEW t \in Timers, TaskStop(t) PROVE QueueTimes'
  BY <1>28
     DEF TaskStop, Begin, QueueTimes, InQueue, Settle, drvVars
<1>29. CASE TaskRead
  BY <1>29
     DEF TaskRead, Begin, QueueTimes, InQueue, Settle, drvVars
<1>30. ASSUME NEW n \in TaskTicks, TaskDelay(n) PROVE QueueTimes'
  BY <1>30
     DEF TaskDelay, Begin, QueueTimes, InQueue, Settle, drvVars
<1>31. CASE DelayLoop
  BY <1>31
     DEF DelayLoop, Begin, QueueTimes, InQueue, Settle, drvVars
<1>32. CASE UNCHANGED vars
  BY <1>32 DEF vars, QueueTimes, InQueue, Settle, drvVars, hwVars, drvVars,
     locals
<1>33. QED
  BY <1>1, <1>2, <1>3, <1>4, <1>5, <1>6, <1>7, <1>8, <1>9, <1>10, <1>11, <1>12,
     <1>13, <1>14, <1>15, <1>16, <1>17, <1>18, <1>19, <1>20, <1>21, <1>22,
     <1>23, <1>24, <1>25, <1>26, <1>27, <1>28, <1>29, <1>30, <1>31, <1>32
     DEF Next, Isr, Task, Driver

LEMMA Step3 == Inv1 /\ Inv2 /\ Inv3 /\ [Next]_vars /\ ~contested' => Inv3'
  BY SampleFreshStep, OwnedStep, GoalFreshStep, QueueTimesStep DEF Inv3

\* What happened between the test and the insertion stays on record.
LEMMA ContestedStep == [Next]_vars /\ contested => contested'
<1> SUFFICES ASSUME [Next]_vars, contested PROVE contested'
  OBVIOUS
<1>1. CASE Tick \/ IrqEnter \/ UNCHANGED vars
  BY <1>1 DEF Tick, IrqEnter, vars
<1>2. CASE Settle
  BY <1>2 DEF Settle
<1>3. Tick \/ IrqEnter \/ UNCHANGED vars \/ Settle
  BY DEF Next, Isr, Task, Driver, ReadCount, ReadNoOvf, ReadOvf, ReadAgain,
     ReadDone, OcmpEpoch, OcmpSetCompare, OcmpClearFlag, OcmpEnable,
     OcmpCheckLate, StartAtCheck, StartAtInsert, Stop, IrqCompare, IrqOverflow,
     ChkEmpty, ChkFirst, ChkFire, ChkWait, IrqExit, CbReturn, CbStart, CbStop,
     TaskStart, TaskStartAt, TaskStop, TaskRead, TaskDelay, DelayLoop, Begin
<1>4. QED
  BY <1>1, <1>2, <1>3

\* Only hal_timer_chk_queue calls a callback, and only when it is due.
LEMMA FiresDue ==
    ASSUME Inv1, Inv2, Inv3, ChkFire
    PROVE  due[Head(q)] <= 0
<1> USE DEF Inv1, Inv2, Inv3, TypeOK
<1>1. pc["isr"] = "cmp" /\ q # <<>> /\ Head(q) \in Timers
  BY DEF ChkFire, Control, DrvTypeOK
<1>2. InQueue(Head(q))
  BY <1>1 DEF InQueue, DrvTypeOK
<1>3. due[Head(q)] \in Int /\ now \in Word /\ seen["isr"] \in Word
  BY <1>1 DEF HistTypeOK, CpuTypeOK, Context
<1>4. SUFFICES ASSUME due[Head(q)] > 0 PROVE FALSE
  BY <1>3
<1>5. due[Head(q)] \in 1 .. MaxTicks /\ HeadExpiry = Wrap(now + due[Head(q)])
  BY <1>1, <1>2, <1>3, <1>4, Parameters DEF QueueTimes, HeadExpiry
<1>6. Wrap(now - seen["isr"]) <= Latency
  BY <1>1, <1>3, Parameters DEF SampleFresh, Behind, HistTypeOK, Wrap, Word
<1>7. Signed(seen["isr"], HeadExpiry) < 0
  BY <1>3, <1>5, <1>6, NotYet
<1>8. tcntr["isr"] = seen["isr"] /\ Signed(tcntr["isr"], HeadExpiry) >= 0
  BY <1>1 DEF SampleFresh, ChkFire
<1>9. Signed(seen["isr"], HeadExpiry) \in Int
  BY <1>3, <1>5, Parameters DEF Signed, Wrap, Word
<1>10. QED
  BY <1>7, <1>8, <1>9

LEMMA EarlyStep ==
    Inv1 /\ Inv2 /\ Inv3 /\ [Next]_vars
        => (pc'["isr"] = "cb" /\ pc["isr"] # "cb" => due[Head(q)] <= 0)
<1> SUFFICES ASSUME Inv1, Inv2, Inv3, [Next]_vars, pc'["isr"] = "cb", pc["isr"] # "cb"
             PROVE  ChkFire
  BY FiresDue
<1> USE DEF Inv1, TypeOK
<1>1. CASE Tick
  BY <1>1
     DEF Tick, Goto, CpuTypeOK, Context, locals
<1>2. ASSUME NEW c \in Context, ReadCount(c) PROVE ChkFire
  BY <1>2
     DEF ReadCount, Goto, CpuTypeOK, Context, locals
<1>3. ASSUME NEW c \in Context, ReadNoOvf(c) PROVE ChkFire
  BY <1>3
     DEF ReadNoOvf, ReadReturns, DelayGoesOn, Return, Goto, CpuTypeOK, Context,
         locals
<1>4. ASSUME NEW c \in Context, ReadOvf(c) PROVE ChkFire
  BY <1>4
     DEF ReadOvf, Goto, CpuTypeOK, Context, locals
<1>5. ASSUME NEW c \in Context, ReadAgain(c) PROVE ChkFire
  BY <1>5
     DEF ReadAgain, Goto, CpuTypeOK, Context, locals
<1>6. ASSUME NEW c \in Context, ReadDone(c) PROVE ChkFire
  BY <1>6
     DEF ReadDone, ReadReturns, DelayGoesOn, Return, Goto, CpuTypeOK, Context,
         locals
<1>7. ASSUME NEW c \in Context, OcmpEpoch(c) PROVE ChkFire
  BY <1>7
     DEF OcmpEpoch, OcmpReturns, Return, Home, Goto, CpuTypeOK, Context, locals
<1>8. ASSUME NEW c \in Context, OcmpSetCompare(c) PROVE ChkFire
  BY <1>8
     DEF OcmpSetCompare, Goto, CpuTypeOK, Context, locals
<1>9. ASSUME NEW c \in Context, OcmpClearFlag(c) PROVE ChkFire
  BY <1>9
     DEF OcmpClearFlag, Goto, CpuTypeOK, Context, locals
<1>10. ASSUME NEW c \in Context, OcmpEnable(c) PROVE ChkFire
  BY <1>10
     DEF OcmpEnable, Goto, CpuTypeOK, Context, locals
<1>11. ASSUME NEW c \in Context, OcmpCheckLate(c) PROVE ChkFire
  BY <1>11
     DEF OcmpCheckLate, OcmpReturns, Return, Home, Goto, CpuTypeOK, Context,
         locals
<1>12. ASSUME NEW c \in Context, StartAtCheck(c) PROVE ChkFire
  BY <1>12
     DEF StartAtCheck, Return, Home, Goto, CpuTypeOK, Context, locals
<1>13. ASSUME NEW c \in Context, StartAtInsert(c) PROVE ChkFire
  BY <1>13
     DEF StartAtInsert, Return, Home, Goto, CpuTypeOK, Context, locals
<1>14. ASSUME NEW c \in Context, Stop(c) PROVE ChkFire
  BY <1>14
     DEF Stop, Return, Home, Goto, CpuTypeOK, Context, locals
<1>15. CASE IrqEnter
  BY <1>15
     DEF IrqEnter, Goto, CpuTypeOK, Context, locals
<1>16. CASE IrqCompare
  BY <1>16
     DEF IrqCompare, Goto, CpuTypeOK, Context, locals
<1>17. CASE IrqOverflow
  BY <1>17
     DEF IrqOverflow, Goto, CpuTypeOK, Context, locals
<1>18. CASE ChkEmpty
  BY <1>18
     DEF ChkEmpty, Goto, CpuTypeOK, Context, locals
<1>19. CASE ChkFirst
  BY <1>19
     DEF ChkFirst, Goto, CpuTypeOK, Context, locals
<1>20. CASE ChkFire
  BY <1>20
     DEF ChkFire, Goto, CpuTypeOK, Context, locals
<1>21. CASE ChkWait
  BY <1>21
     DEF ChkWait, Goto, CpuTypeOK, Context, locals
<1>22. CASE IrqExit
  BY <1>22
     DEF IrqExit, Goto, CpuTypeOK, Context, locals
<1>23. CASE CbReturn
  BY <1>23
     DEF CbReturn, Return, Goto, CpuTypeOK, Context, locals
<1>24. ASSUME NEW t \in Timers, NEW n \in CbTicks, CbStart(t, n) PROVE ChkFire
  BY <1>24
     DEF CbStart, Begin, Goto, CpuTypeOK, Context, locals
<1>25. ASSUME NEW t \in Timers, CbStop(t) PROVE ChkFire
  BY <1>25
     DEF CbStop, Begin, Goto, CpuTypeOK, Context, locals
<1>26. ASSUME NEW t \in Timers, NEW n \in TaskTicks, TaskStart(t, n) PROVE ChkFire
  BY <1>26
     DEF TaskStart, Begin, Goto, CpuTypeOK, Context, locals
<1>27. ASSUME NEW t \in Timers, NEW n \in -Past .. MaxTicks, TaskStartAt(t, n) PROVE ChkFire
  BY <1>27
     DEF TaskStartAt, Begin, Goto, CpuTypeOK, Context, locals
<1>28. ASSUME NEW t \in Timers, TaskStop(t) PROVE ChkFire
  BY <1>28
     DEF TaskStop, Begin, Goto, CpuTypeOK, Context, locals
<1>29. CASE TaskRead
  BY <1>29
     DEF TaskRead, Begin, Goto, CpuTypeOK, Context, locals
<1>30. ASSUME NEW n \in TaskTicks, TaskDelay(n) PROVE ChkFire
  BY <1>30
     DEF TaskDelay, Begin, Goto, CpuTypeOK, Context, locals
<1>31. CASE DelayLoop
  BY <1>31
     DEF DelayLoop, Begin, Goto, CpuTypeOK, Context, locals
<1>32. CASE UNCHANGED vars
  BY <1>32 DEF vars, Goto, CpuTypeOK, Context, locals, hwVars, drvVars, locals
<1>33. QED
  BY <1>1, <1>2, <1>3, <1>4, <1>5, <1>6, <1>7, <1>8, <1>9, <1>10, <1>11, <1>12,
     <1>13, <1>14, <1>15, <1>16, <1>17, <1>18, <1>19, <1>20, <1>21, <1>22,
     <1>23, <1>24, <1>25, <1>26, <1>27, <1>28, <1>29, <1>30, <1>31, <1>32
     DEF Next, Isr, Task, Driver

\* No callback runs before the ticks asked for in hal_timer_start or
\* hal_timer_start_at have passed, however the counter, the interrupt and the
\* calls interleave and wherever the 32-bit time wraps, unless a timer has been
\* linked twice.
THEOREM TimerNeverEarly == Spec => NeverEarly
<1>1. Init => Inv1 /\ Inv2 /\ (contested \/ Inv3)
  BY Init1, Init2, Init3
<1>2. Inv1 /\ Inv2 /\ (contested \/ Inv3) /\ [Next]_vars
        => Inv1' /\ Inv2' /\ (contested \/ Inv3)'
  BY Step1, Step2, Step3, ContestedStep
<1>3. Inv1 /\ Inv2 /\ (contested \/ Inv3) /\ [Next]_vars
        => [pc'["isr"] = "cb" /\ pc["isr"] # "cb" => contested \/ due[Head(q)] <= 0]_vars
  BY EarlyStep
<1>4. QED
  BY <1>1, <1>2, <1>3, PTL DEF Spec, NeverEarly

-----------------------------------------------------------------------------
(* The queue and the compare register *)

\* A sequence without repetitions in the order of d.
Ordered(s, d) ==
    \A i, j \in 1 .. Len(s) : i < j => s[i] # s[j] /\ d[s[i]] <= d[s[j]]

\* Queued timers are late by no more than the CPU has been busy, and their
\* expiry is the time they are really due.
Late ==
    \A t \in Timers : InQueue(t) =>
        /\ due[t] >= -(Past + lag)
        /\ expiry[t] = Wrap(now + due[t])

\* The first timer is ahead of the counter, and the compare register or an
\* overflow will come before it or on its tick.
Covered ==
    /\ due[Head(q)] > 0
    /\ \/ mc0en /\ ~mc0 /\ cc0 = count + due[Head(q)]
       \/ count + due[Head(q)] >= Low

\* With nothing pending, and nobody on the way to the compare register, the
\* first timer is covered.
Armed ==
    q # <<>> /\ ~pend /\ ~ovf /\ pc["task"] \notin Setting
        /\ pc["isr"] \in {"off", "exit"} => Covered

\* samd21_timer_set_ocmp on its way: the expiry is in this epoch, the register
\* is set for it, and a match since then is pending.
Arming ==
    \A c \in Context :
        /\ pc[c] \in Setting \ {"oc1"} => HeadExpiry = tmr_cntr + Low16(HeadExpiry)
        /\ pc[c] \in {"oc3", "oc4", "oc5"} => cc0 = Low16(HeadExpiry)
        /\ pc[c] = "oc5" => mc0en /\ (mc0 => pend)

\* The queue is ordered by the time that is left.
QueueOrdered == Ordered(q, due)

Inv4 == QueueOrdered /\ Late /\ Armed /\ Arming

\* Nothing is queued at first.
LEMMA Init4 == Init => Inv4
  BY DEF Init, Inv4, QueueOrdered, Ordered, Late, Armed, Arming, InQueue, Context, Setting

\* Removing, taking the first and inserting at the right place keep the order.
LEMMA OrderedRemove ==
    ASSUME NEW S, NEW s \in Seq(S), NEW d, Ordered(s, d), NEW p \in 1 .. Len(s)
    PROVE  /\ Ordered(RemoveAt(s, p), d)
           /\ \A i \in 1 .. Len(RemoveAt(s, p)) : RemoveAt(s, p)[i] # s[p]
<1> DEFINE k(i) == IF i < p THEN i ELSE i + 1
           r == RemoveAt(s, p)
<1>1. Len(s) \in Nat /\ p \in Nat /\ Len(r) = Len(s) - 1
  BY RemoveParts
<1>2. ASSUME NEW i \in 1 .. Len(r)
      PROVE  k(i) \in 1 .. Len(s) /\ k(i) # p /\ r[i] = s[k(i)]
  <2>1. CASE i < p
    <3>1. i \in 1 .. p - 1 /\ i \in 1 .. Len(s)
      BY <1>1, <2>1
    <3>2. r[i] = s[i]
      BY <3>1, RemoveParts
    <3>3. QED
      BY <2>1, <3>1, <3>2
  <2>2. CASE ~(i < p)
    <3>1. i \in p .. Len(s) - 1 /\ i + 1 \in 1 .. Len(s) /\ i + 1 # p
      BY <1>1, <2>2
    <3>2. r[i] = s[i + 1]
      BY <3>1, RemoveParts
    <3>3. QED
      BY <2>2, <3>1, <3>2
  <2>3. QED
    BY <2>1, <2>2
<1>3. \A i, j \in 1 .. Len(r) : i < j => k(i) < k(j)
  BY <1>1
<1> HIDE DEF k, r
<1>4. \A i \in 1 .. Len(r) : r[i] # s[p]
  <2>1. ASSUME NEW i \in 1 .. Len(r) PROVE r[i] # s[p]
    <3>1. k(i) \in 1 .. Len(s) /\ p \in 1 .. Len(s) /\ (k(i) < p \/ p < k(i))
      BY <1>1, <1>2
    <3>2. QED
      BY <1>2, <3>1 DEF Ordered
  <2>2. QED
    BY <2>1
<1>5. Ordered(r, d)
  BY <1>2, <1>3 DEF Ordered
<1>6. QED
  BY <1>4, <1>5 DEF r

LEMMA OrderedTail ==
    ASSUME NEW S, NEW s \in Seq(S), NEW d, Ordered(s, d), s # <<>>
    PROVE  /\ Ordered(Tail(s), d)
           /\ \A i \in 1 .. Len(Tail(s)) : Tail(s)[i] # Head(s)
<1>1. Len(s) \in Nat /\ Len(s) >= 1 /\ Len(Tail(s)) = Len(s) - 1 /\ Head(s) = s[1]
  OBVIOUS
<1>2. \A i \in 1 .. Len(Tail(s)) : Tail(s)[i] = s[i + 1] /\ i + 1 \in 1 .. Len(s)
  BY <1>1
<1>3. \A i \in 1 .. Len(Tail(s)) : Tail(s)[i] # Head(s)
  BY <1>1, <1>2 DEF Ordered
<1>4. Ordered(Tail(s), d)
  <2>1. ASSUME NEW i \in 1 .. Len(Tail(s)), NEW j \in 1 .. Len(Tail(s)), i < j
        PROVE  Tail(s)[i] # Tail(s)[j] /\ d[Tail(s)[i]] <= d[Tail(s)[j]]
    <3>1. i + 1 \in 1 .. Len(s) /\ j + 1 \in 1 .. Len(s) /\ i + 1 < j + 1
      BY <2>1, <1>1
    <3>2. s[i + 1] # s[j + 1] /\ d[s[i + 1]] <= d[s[j + 1]]
      BY <3>1 DEF Ordered
    <3>3. QED
      BY <3>2, <1>2, <2>1
  <2>2. QED
    BY <2>1 DEF Ordered
<1>5. QED
  BY <1>3, <1>4

LEMMA OrderedInsert ==
    ASSUME NEW S, NEW s \in Seq(S), NEW d \in [S -> Int], Ordered(s, d),
           NEW t \in S, NEW p \in 1 .. Len(s) + 1,
           \A i \in 1 .. Len(s) : s[i] # t,
           \A j \in 1 .. p - 1 : d[s[j]] <= d[t],
           p <= Len(s) => d[t] <= d[s[p]]
    PROVE  Ordered(InsertAt(s, p, t), d)
<1> DEFINE r == InsertAt(s, p, t)
<1>1. Len(s) \in Nat /\ p \in Nat /\ Len(r) = Len(s) + 1
  BY InsertParts
<1>2. \A i \in 1 .. p - 1 : r[i] = s[i] /\ i \in 1 .. Len(s)
  <2>1. \A i \in 1 .. p - 1 : r[i] = s[i]
    BY InsertParts
  <2>2. \A i \in 1 .. p - 1 : i \in 1 .. Len(s)
    BY <1>1
  <2>3. QED
    BY <2>1, <2>2
<1>3. r[p] = t
  BY InsertParts
<1>4. \A i \in p + 1 .. Len(s) + 1 : r[i] = s[i - 1] /\ i - 1 \in 1 .. Len(s) /\ p <= i - 1
  BY <1>1, InsertParts
<1> HIDE DEF r
<1>5. \A i \in 1 .. Len(s) : s[i] \in S /\ d[s[i]] \in Int /\ d[t] \in Int
  OBVIOUS
<1>6. \A i \in 1 .. Len(s) : p <= i => d[t] <= d[s[i]]
  <2>1. ASSUME NEW i \in 1 .. Len(s), p <= i PROVE d[t] <= d[s[i]]
    <3>1. p \in 1 .. Len(s) /\ d[t] <= d[s[p]]
      BY <1>1, <2>1
    <3>2. p = i \/ d[s[p]] <= d[s[i]]
      BY <2>1, <3>1 DEF Ordered
    <3>3. QED
      BY <1>5, <3>1, <3>2
  <2>2. QED
    BY <2>1
<1>7. ASSUME NEW i \in 1 .. Len(r), NEW j \in 1 .. Len(r), i < j
      PROVE  r[i] # r[j] /\ d[r[i]] <= d[r[j]]
  <2>1. CASE j < p
    <3>1. i \in 1 .. p - 1 /\ j \in 1 .. p - 1
      BY <1>1, <1>7, <2>1
    <3>2. i \in 1 .. Len(s) /\ j \in 1 .. Len(s) /\ r[i] = s[i] /\ r[j] = s[j]
      BY <1>2, <3>1
    <3>3. QED
      BY <1>7, <3>2 DEF Ordered
  <2>2. CASE j = p
    <3>1. i \in 1 .. p - 1
      BY <1>1, <1>7, <2>2
    <3>2. i \in 1 .. Len(s) /\ r[i] = s[i] /\ d[s[i]] <= d[t]
      BY <1>2, <3>1
    <3>3. QED
      BY <1>3, <2>2, <3>2
  <2>3. CASE j > p /\ i < p
    <3>1. j - 1 \in 1 .. Len(s) /\ r[j] = s[j - 1] /\ i < j - 1
      BY <1>1, <1>4, <1>7, <2>3
    <3>2. i \in 1 .. Len(s) /\ r[i] = s[i]
      BY <1>1, <1>2, <2>3
    <3>3. QED
      BY <3>1, <3>2 DEF Ordered
  <2>4. CASE j > p /\ i = p
    <3>1. j - 1 \in 1 .. Len(s) /\ r[j] = s[j - 1] /\ p <= j - 1
      BY <1>1, <1>4, <1>7, <2>4
    <3>2. QED
      BY <3>1, <1>3, <1>6, <2>4
  <2>5. CASE j > p /\ i > p
    <3>1. i \in p + 1 .. Len(s) + 1 /\ j \in p + 1 .. Len(s) + 1 /\ i - 1 < j - 1
      BY <1>1, <1>7, <2>5
    <3>2. j - 1 \in 1 .. Len(s) /\ r[j] = s[j - 1]
      BY <1>4, <3>1
    <3>3. i - 1 \in 1 .. Len(s) /\ r[i] = s[i - 1]
      BY <1>4, <3>1
    <3>4. QED
      BY <3>1, <3>2, <3>3 DEF Ordered
  <2>6. QED
    BY <1>1, <2>1, <2>2, <2>3, <2>4, <2>5
<1>8. QED
  BY <1>7 DEF Ordered, r

\* The order depends on d at the members only.
LEMMA OrderedSame ==
    ASSUME NEW s, NEW d, NEW e, Ordered(s, d), \A i \in 1 .. Len(s) : e[s[i]] = d[s[i]]
    PROVE  Ordered(s, e)
  BY DEF Ordered

\* Expiries of timers that are near compare as the times they are due.
LEMMA ExpiryOrder ==
    ASSUME NEW a \in Word, NEW d \in -(Past + Latency) .. MaxTicks,
           NEW e \in -(Past + Latency) .. MaxTicks
    PROVE  Signed(Wrap(a + d), Wrap(a + e)) = d - e
  BY Parameters DEF Signed, Wrap, Word

\* The halves of a 32-bit value.
LEMMA Halves ==
    ASSUME NEW x \in Word
    PROVE  /\ Low16(x) \in 0 .. Low - 1 /\ High16(x) \in EpochStarts
           /\ High16(x) + Low16(x) = x
<1>1. x \in Nat /\ Low \in Nat /\ Low > 0 /\ Epochs \in Nat /\ x < Low * Epochs
  BY Parameters, HalTimerAssumption DEF Word, Modulus
<1>2. x % Low \in 0 .. Low - 1 /\ x \div Low \in Nat /\ x = Low * (x \div Low) + (x % Low)
  BY <1>1
<1>3. High16(x) = Low * (x \div Low) /\ Low16(x) = x % Low
  BY <1>1, <1>2 DEF High16, Low16
<1>4. x \div Low < Epochs
  <2>1. SUFFICES ASSUME x \div Low >= Epochs PROVE FALSE
    BY <1>1, <1>2
  <2>2. Low * (x \div Low) >= Low * Epochs
    BY <1>1, <1>2, <2>1
  <2>3. QED
    BY <1>1, <1>2, <2>2
<1>5. QED
  BY <1>1, <1>2, <1>3, <1>4 DEF EpochStarts

\* Two epochs that differ are at least an epoch apart.
LEMMA EpochGap ==
    ASSUME NEW a \in EpochStarts, NEW b \in EpochStarts
    PROVE  /\ a \in Word /\ b \in Word
           /\ Signed(a, b) > 0 => Signed(a, b) >= Low
<1>1. PICK k \in 0 .. Epochs - 1, m \in 0 .. Epochs - 1 : a = Low * k /\ b = Low * m
  BY DEF EpochStarts
<1>2. Low \in Nat /\ Low > 0 /\ Epochs \in Nat /\ k \in Nat /\ m \in Nat
  BY HalTimerAssumption
<1>3. a \in Word /\ b \in Word
  BY EpochStep, Parameters DEF Word
<1>4. /\ Signed(a, b) \in Int
      /\ \/ Signed(a, b) = Low * (k - m) \/ Signed(a, b) = Low * (k - m - Epochs)
         \/ Signed(a, b) = Low * (k - m + Epochs)
  BY <1>1, <1>2, <1>3, Parameters DEF Signed, Modulus
<1>5. \A n \in Int : Low * n > 0 => Low * n >= Low
  BY <1>2
<1>6. QED
  BY <1>2, <1>3, <1>4, <1>5

\* An expiry in a later epoch is not reached before the counter overflows.
LEMMA LaterEpoch ==
    ASSUME NEW e \in EpochStarts, NEW c \in 0 .. Low - 1, NEW x \in Word,
           NEW d \in -(Past + Latency) .. MaxTicks,
           x = Wrap(e + c + d), Signed(High16(x), e) > 0
    PROVE  c + d >= Low
<1> DEFINE h == High16(x)
           l == Low16(x)
<1>1. h \in EpochStarts /\ l \in 0 .. Low - 1 /\ x = h + l
  BY Halves
<1>2. h \in Word /\ e \in Word /\ Signed(h, e) >= Low
  BY <1>1, EpochGap
<1> HIDE DEF h, l
<1>3. QED
  BY <1>1, <1>2, Parameters DEF Signed, Wrap, Word

\* An expiry in this epoch is reached on the match.
LEMMA ThisEpoch ==
    ASSUME NEW e \in EpochStarts, NEW c \in 0 .. Low - 1, NEW x \in Word,
           NEW d \in -(Past + Latency) .. MaxTicks,
           x = Wrap(e + c + d), x = e + Low16(x)
    PROVE  Low16(x) = c + d
<1> DEFINE l == Low16(x)
<1>1. l \in 0 .. Low - 1
  BY Halves
<1>2. e \in Nat /\ e + Low <= Modulus
  BY EpochStep
<1> HIDE DEF l
<1>3. QED
  BY <1>1, <1>2, Parameters DEF Wrap, Word, l

\* The same epoch, when the signed difference is zero.
LEMMA SameEpoch ==
    ASSUME NEW e \in EpochStarts, NEW x \in Word, Signed(High16(x), e) = 0
    PROVE  x = e + Low16(x)
<1>1. High16(x) \in EpochStarts /\ Low16(x) \in Int /\ x = High16(x) + Low16(x)
  BY Halves
<1>2. High16(x) \in Word /\ e \in Word
  BY <1>1, EpochGap
<1>3. High16(x) = e
  BY <1>2, Parameters DEF Signed, Word
<1>4. QED
  BY <1>1, <1>3

\* Only the counter, hal_timer_start_at, hal_timer_stop and a timer that fires
\* touch the queue and its times.
LEMMA QuietStep ==
    ASSUME [Next]_vars
    PROVE  \/ Tick \/ ChkFire
           \/ \E c \in Context : StartAtCheck(c) \/ StartAtInsert(c) \/ Stop(c)
           \/ UNCHANGED <<q, due, expiry, now>>
<1> DEFINE Quiet == UNCHANGED <<q, due, expiry, now>>
<1>1. ASSUME NEW c \in Context, Driver(c)
      PROVE  StartAtCheck(c) \/ StartAtInsert(c) \/ Stop(c) \/ Quiet
  BY <1>1 DEF Driver, ReadCount, ReadNoOvf, ReadOvf, ReadAgain, ReadDone, OcmpEpoch,
     OcmpSetCompare, OcmpClearFlag, OcmpEnable, OcmpCheckLate, Settle, drvVars
<1>2. CASE Isr
  BY <1>2 DEF Isr, IrqEnter, IrqCompare, IrqOverflow, ChkEmpty, ChkFirst, ChkWait,
     IrqExit, CbReturn, CbStart, CbStop, Begin, Settle, drvVars
<1>3. CASE Task \/ DelayLoop
  BY <1>3 DEF Task, DelayLoop, TaskStart, TaskStartAt, TaskStop, TaskRead, TaskDelay,
     Begin, Settle, drvVars
<1>4. CASE UNCHANGED vars
  BY <1>4 DEF vars, drvVars
<1>5. QED
  BY <1>1, <1>2, <1>3, <1>4 DEF Next

\* The queue keeps its order: the place hal_timer_start_at finds by comparing
\* wrapped expiries is the place by the time that is left.
LEMMA SortedStep ==
    ASSUME Inv1, Inv2, Inv3, QueueOrdered, Late, [Next]_vars
    PROVE  QueueOrdered'
<1> USE DEF Inv1, Inv2, Inv3, TypeOK
<1>0. /\ q \in Seq(Timers) /\ due \in [Timers -> Int] /\ now \in Word
      /\ expiry \in [Timers -> Int] /\ lag \in 0 .. Latency
  BY Parameters DEF DrvTypeOK, HistTypeOK, Word
<1>1. Ordered(q, due)
  BY DEF QueueOrdered
<1>2. SUFFICES Ordered(q', due')
  BY DEF QueueOrdered
<1>3. \A i \in 1 .. Len(q) : q[i] \in Timers /\ InQueue(q[i])
  BY <1>0 DEF InQueue
<1>4. CASE Tick
  <2>1. q' = q
    BY <1>4 DEF Tick, drvVars
  <2>2. \A i \in 1 .. Len(q) : due'[q[i]] = due[q[i]] - 1 /\ due[q[i]] \in Int
    BY <1>0, <1>3, <1>4 DEF Tick
  <2>3. QED
    BY <1>1, <2>1, <2>2 DEF Ordered
<1>5. CASE ChkFire
  <2>1. q' = Tail(q) /\ q # <<>> /\ due' = [due EXCEPT ![Head(q)] = 0]
    BY <1>5 DEF ChkFire, Control
  <2>2. /\ Ordered(Tail(q), due)
        /\ \A i \in 1 .. Len(Tail(q)) : Tail(q)[i] # Head(q)
    BY <1>0, <1>1, <2>1, OrderedTail
  <2>3. \A i \in 1 .. Len(Tail(q)) : Tail(q)[i] \in Timers
    BY <1>0, <2>1
  <2>4. \A i \in 1 .. Len(Tail(q)) : due'[Tail(q)[i]] = due[Tail(q)[i]]
    BY <1>0, <2>1, <2>2, <2>3
  <2>5. QED
    BY <2>1, <2>2, <2>4, OrderedSame
<1>6. ASSUME NEW c \in Context, StartAtCheck(c) PROVE Ordered(q', due')
  BY <1>1, <1>6 DEF StartAtCheck
<1>7. ASSUME NEW c \in Context, Stop(c) PROVE Ordered(q', due')
  <2>1. CASE q' = q /\ due' = due
    BY <1>1, <2>1
  <2>2. CASE InQueue(cur[c]) /\ q' = Unlinked(cur[c]) /\ due' = [due EXCEPT ![cur[c]] = 0]
    <3>1. cur[c] \in Timers
      BY <1>7 DEF Stop, Control
    <3>2. PICK p \in 1 .. Len(q) : q[p] = cur[c] /\ Unlinked(cur[c]) = RemoveAt(q, p)
      BY <1>0, <2>2, <3>1, UnlinkedType
    <3>3. /\ Ordered(RemoveAt(q, p), due)
          /\ \A i \in 1 .. Len(RemoveAt(q, p)) : RemoveAt(q, p)[i] # q[p]
      BY <1>0, <1>1, OrderedRemove
    <3>4. RemoveAt(q, p) \in Seq(Timers)
      BY <1>0, RemoveType
    <3> DEFINE r == RemoveAt(q, p)
    <3> HIDE DEF r
    <3>5. \A i \in 1 .. Len(r) : due'[r[i]] = due[r[i]]
      <4>1. ASSUME NEW i \in 1 .. Len(r) PROVE due'[r[i]] = due[r[i]]
        <5>1. r[i] \in Timers /\ r[i] # cur[c]
          BY <3>2, <3>3, <3>4 DEF r
        <5>2. QED
          BY <1>0, <2>2, <5>1
      <4>2. QED
        BY <4>1
    <3>6. QED
      BY <2>2, <3>2, <3>3, <3>5, OrderedSame DEF r
  <2>3. QED
    BY <1>7, <2>1, <2>2 DEF Stop
<1>8. ASSUME NEW c \in Context, StartAtInsert(c) PROVE Ordered(q', due')
  <2> DEFINE t == cur[c]
             p == InsertPos(t)
             d == Signed(seen[c], now)
  <2>1. /\ t \in Timers /\ pc[c] = "insert" /\ q' = InsertAt(q, p, t)
        /\ due' = [due EXCEPT ![t] = d]
    BY <1>8 DEF StartAtInsert, Control
  <2>2. expiry[t] = seen[c] /\ seen[c] \in Word /\ d >= -(Past + lag) /\ d <= MaxTicks
    BY <2>1 DEF Owned, GoalFresh, CpuTypeOK
  <2>3. d \in Int /\ Wrap(now + d) = seen[c]
    BY <1>0, <2>2, SignedWrap
  <2>4. d \in -(Past + Latency) .. MaxTicks
    BY <1>0, <2>2, <2>3, Parameters
  <2>5. \A i \in 1 .. Len(q) : q[i] # t
    <3>1. ~InQueue(t)
      BY <2>1 DEF Owned, Context
    <3>2. QED
      BY <3>1 DEF InQueue
  <2>6. /\ p \in 1 .. Len(q) + 1
        /\ \A j \in 1 .. p - 1 : Signed(expiry[t], expiry[q[j]]) >= 0
        /\ p <= Len(q) => Signed(expiry[t], expiry[q[p]]) < 0
    BY <1>0, <2>1, InsertPosType
  <2> HIDE DEF t, p, d
  <2>7. ASSUME NEW j \in 1 .. Len(q)
        PROVE  /\ Signed(expiry[t], expiry[q[j]]) = d - due[q[j]]
               /\ due[q[j]] \in Int /\ due'[q[j]] = due[q[j]]
    <3>1. q[j] \in Timers /\ InQueue(q[j])
      BY <1>3
    <3>2. due[q[j]] \in -(Past + Latency) .. MaxTicks /\ expiry[q[j]] = Wrap(now + due[q[j]])
      BY <1>0, <3>1, Parameters DEF Late, QueueTimes
    <3>3. Signed(Wrap(now + d), Wrap(now + due[q[j]])) = d - due[q[j]]
      BY <1>0, <2>4, <3>2, ExpiryOrder
    <3>4. QED
      BY <1>0, <2>1, <2>2, <2>3, <2>5, <3>1, <3>2, <3>3
  <2>8. due' \in [Timers -> Int] /\ due'[t] = d
    BY <1>0, <2>1, <2>3
  <2>9. Ordered(q, due')
    BY <1>1, <2>7, OrderedSame
  <2>10. \A j \in 1 .. p - 1 : due'[q[j]] <= due'[t]
    <3>1. ASSUME NEW j \in 1 .. p - 1 PROVE due'[q[j]] <= due'[t]
      <4>1. j \in 1 .. Len(q)
        BY <1>0, <2>6
      <4>2. d - due[q[j]] >= 0
        BY <2>6, <2>7, <4>1
      <4>3. QED
        BY <2>3, <2>7, <2>8, <4>1, <4>2
    <3>2. QED
      BY <3>1
  <2>11. p <= Len(q) => due'[t] <= due'[q[p]]
    <3>1. ASSUME p <= Len(q) PROVE due'[t] <= due'[q[p]]
      <4>1. p \in 1 .. Len(q)
        BY <1>0, <2>6, <3>1
      <4>2. d - due[q[p]] < 0
        BY <2>6, <2>7, <3>1, <4>1
      <4>3. QED
        BY <2>3, <2>7, <2>8, <4>1, <4>2
    <3>2. QED
      BY <3>1
  <2>12. Ordered(InsertAt(q, p, t), due')
    BY <1>0, <2>1, <2>5, <2>6, <2>8, <2>9, <2>10, <2>11, OrderedInsert
  <2>13. QED
    BY <2>1, <2>12
<1>9. CASE UNCHANGED <<q, due, expiry, now>>
  BY <1>1, <1>9
<1>10. QED
  BY <1>4, <1>5, <1>6, <1>7, <1>8, <1>9, QuietStep

\* samd21_timer_set_ocmp runs alone, and ends its work as it began it.
LEMMA ArmingStep == Inv1 /\ Arming /\ [Next]_vars => Arming'
<1> SUFFICES ASSUME Inv1, Arming, [Next]_vars PROVE Arming'
  OBVIOUS
<1> USE DEF Inv1, TypeOK
<1>1. CASE Tick
  BY <1>1 DEF Tick, Arming, HeadExpiry, Context, Setting, locals, drvVars, HwTypeOK
<1>2. ASSUME NEW c \in Context, ReadCount(c) PROVE Arming'
  BY <1>2 DEF ReadCount, Arming, HeadExpiry, Control, Runs, Goto, Context, IsrOff,
     Masked, Setting, CpuTypeOK, DrvTypeOK, locals, drvVars, hwVars, Settle
<1>3. ASSUME NEW c \in Context, ReadNoOvf(c) PROVE Arming'
  BY <1>3 DEF ReadNoOvf, ReadReturns, Return, Arming, HeadExpiry, Control, Runs, Goto,
     Context, IsrOff, Masked, Setting, CpuTypeOK, DrvTypeOK, locals, drvVars, hwVars,
     Settle
<1>4. ASSUME NEW c \in Context, ReadOvf(c) PROVE Arming'
  BY <1>4 DEF ReadOvf, Arming, HeadExpiry, Control, Runs, Goto, Context, IsrOff, Masked,
     Setting, CpuTypeOK, DrvTypeOK, locals, drvVars, hwVars, Settle
<1>5. ASSUME NEW c \in Context, ReadAgain(c) PROVE Arming'
  BY <1>5 DEF ReadAgain, Arming, HeadExpiry, Control, Runs, Goto, Context, IsrOff,
     Masked, Setting, CpuTypeOK, DrvTypeOK, locals, drvVars, hwVars, Settle
<1>6. ASSUME NEW c \in Context, ReadDone(c) PROVE Arming'
  BY <1>6 DEF ReadDone, ReadReturns, Return, Arming, HeadExpiry, Control, Runs, Goto,
     Context, IsrOff, Masked, Setting, CpuTypeOK, DrvTypeOK, locals, drvVars, hwVars,
     Settle
<1>7. ASSUME NEW c \in Context, OcmpEpoch(c) PROVE Arming'
  <2>1. HeadExpiry \in Word /\ tmr_cntr \in EpochStarts
    BY <1>7 DEF OcmpEpoch, Control, Setting, DrvTypeOK, HeadExpiry
  <2>2. pc'[c] = "oc2" => HeadExpiry = tmr_cntr + Low16(HeadExpiry)
    <3>1. pc'[c] = "oc2" => Signed(High16(HeadExpiry), tmr_cntr) = 0
      BY <1>7 DEF OcmpEpoch, OcmpReturns, Return, Goto, Home, CpuTypeOK
    <3>2. QED
      BY <2>1, <3>1, SameEpoch
  <2>3. UNCHANGED <<q, expiry, tmr_cntr>>
    BY <1>7 DEF OcmpEpoch, drvVars
  <2>4. pc'[c] \notin {"oc3", "oc4", "oc5"}
    BY <1>7 DEF OcmpEpoch, OcmpReturns, Return, Goto, Home, CpuTypeOK
  <2>5. \A d \in Context \ {c} : pc'[d] = pc[d] /\ pc[d] \notin Setting \ {"oc1"}
    BY <1>7 DEF OcmpEpoch, OcmpReturns, Return, Goto, Control, Runs, Context, IsrOff,
       Masked, Setting, CpuTypeOK
  <2>6. QED
    BY <2>2, <2>3, <2>4, <2>5 DEF Arming, HeadExpiry, Setting
<1>8. ASSUME NEW c \in Context, OcmpSetCompare(c) PROVE Arming'
  BY <1>8 DEF OcmpSetCompare, Arming, HeadExpiry, Control, Runs, Goto, Context, IsrOff,
     Masked, Setting, CpuTypeOK, DrvTypeOK, locals, drvVars, hwVars, Settle
<1>9. ASSUME NEW c \in Context, OcmpClearFlag(c) PROVE Arming'
  BY <1>9 DEF OcmpClearFlag, Arming, HeadExpiry, Control, Runs, Goto, Context, IsrOff,
     Masked, Setting, CpuTypeOK, DrvTypeOK, locals, drvVars, hwVars, Settle
<1>10. ASSUME NEW c \in Context, OcmpEnable(c) PROVE Arming'
  BY <1>10 DEF OcmpEnable, Arming, HeadExpiry, Control, Runs, Goto, Context, IsrOff,
     Masked, Setting, CpuTypeOK, DrvTypeOK, locals, drvVars, hwVars, Settle
<1>11. ASSUME NEW c \in Context, OcmpCheckLate(c) PROVE Arming'
  BY <1>11 DEF OcmpCheckLate, OcmpReturns, Return, Home, Arming, HeadExpiry, Control,
     Runs, Goto, Context, IsrOff, Masked, Setting, CpuTypeOK, DrvTypeOK, locals,
     drvVars, hwVars, Settle
<1>12. ASSUME NEW c \in Context, StartAtCheck(c) PROVE Arming'
  BY <1>12 DEF StartAtCheck, Return, Home, Arming, HeadExpiry, Control, Runs, Goto,
     Context, IsrOff, Masked, Setting, CpuTypeOK, DrvTypeOK, locals, drvVars, hwVars,
     Settle
<1>13. ASSUME NEW c \in Context, StartAtInsert(c) PROVE Arming'
  BY <1>13 DEF StartAtInsert, Return, Home, Arming, HeadExpiry, Control, Runs, Goto,
     Context, IsrOff, Masked, Setting, CpuTypeOK, DrvTypeOK, locals, drvVars, hwVars,
     Settle
<1>14. ASSUME NEW c \in Context, Stop(c) PROVE Arming'
  BY <1>14 DEF Stop, Return, Home, Arming, HeadExpiry, Control, Runs, Goto, Context,
     IsrOff, Masked, Setting, CpuTypeOK, DrvTypeOK, locals, drvVars, hwVars, Settle
<1>15. CASE IrqEnter
  BY <1>15 DEF IrqEnter, Arming, HeadExpiry, Control, Runs, Goto, Context, IsrOff,
     Masked, Setting, CpuTypeOK, DrvTypeOK, locals, drvVars, hwVars, Settle
<1>16. CASE IrqCompare
  BY <1>16 DEF IrqCompare, Arming, HeadExpiry, Control, Runs, Goto, Context, IsrOff,
     Masked, Setting, CpuTypeOK, DrvTypeOK, locals, drvVars, hwVars, Settle
<1>17. CASE IrqOverflow
  BY <1>17 DEF IrqOverflow, Arming, HeadExpiry, Control, Runs, Goto, Context, IsrOff,
     Masked, Setting, CpuTypeOK, DrvTypeOK, locals, drvVars, hwVars, Settle
<1>18. CASE ChkEmpty
  BY <1>18 DEF ChkEmpty, Arming, HeadExpiry, Control, Runs, Goto, Context, IsrOff,
     Masked, Setting, CpuTypeOK, DrvTypeOK, locals, drvVars, hwVars, Settle
<1>19. CASE ChkFirst
  BY <1>19 DEF ChkFirst, Arming, HeadExpiry, Control, Runs, Goto, Context, IsrOff,
     Masked, Setting, CpuTypeOK, DrvTypeOK, locals, drvVars, hwVars, Settle
<1>20. CASE ChkFire
  BY <1>20 DEF ChkFire, Arming, HeadExpiry, Control, Runs, Goto, Context, IsrOff,
     Masked, Setting, CpuTypeOK, DrvTypeOK, locals, drvVars, hwVars, Settle
<1>21. CASE ChkWait
  BY <1>21 DEF ChkWait, Arming, HeadExpiry, Control, Runs, Goto, Context, IsrOff,
     Masked, Setting, CpuTypeOK, DrvTypeOK, locals, drvVars, hwVars, Settle
<1>22. CASE IrqExit
  BY <1>22 DEF IrqExit, Arming, HeadExpiry, Control, Runs, Goto, Context, IsrOff,
     Masked, Setting, CpuTypeOK, DrvTypeOK, locals, drvVars, hwVars, Settle
<1>23. CASE CbReturn
  BY <1>23 DEF CbReturn, Return, Arming, HeadExpiry, Control, Runs, Goto, Context,
     IsrOff, Masked, Setting, CpuTypeOK, DrvTypeOK, locals, drvVars, hwVars, Settle
<1>24. ASSUME NEW t \in Timers, NEW n \in CbTicks, CbStart(t, n) PROVE Arming'
  BY <1>24 DEF CbStart, Begin, Arming, HeadExpiry, Control, Runs, Goto, Context,
     IsrOff, Masked, Setting, CpuTypeOK, DrvTypeOK, locals, drvVars, hwVars, Settle
<1>25. ASSUME NEW t \in Timers, CbStop(t) PROVE Arming'
  BY <1>25 DEF CbStop, Begin, Arming, HeadExpiry, Control, Runs, Goto, Context, IsrOff,
     Masked, Setting, CpuTypeOK, DrvTypeOK, locals, drvVars, hwVars, Settle
<1>26. ASSUME NEW t \in Timers, NEW n \in TaskTicks, TaskStart(t, n) PROVE Arming'
  BY <1>26 DEF TaskStart, Begin, Arming, HeadExpiry, Control, Runs, Goto, Context,
     IsrOff, Masked, Setting, CpuTypeOK, DrvTypeOK, locals, drvVars, hwVars, Settle
<1>27. ASSUME NEW t \in Timers, NEW n \in -Past .. MaxTicks, TaskStartAt(t, n) PROVE Arming'
  BY <1>27 DEF TaskStartAt, Begin, Arming, HeadExpiry, Control, Runs, Goto, Context,
     IsrOff, Masked, Setting, CpuTypeOK, DrvTypeOK, locals, drvVars, hwVars, Settle
<1>28. ASSUME NEW t \in Timers, TaskStop(t) PROVE Arming'
  BY <1>28 DEF TaskStop, Begin, Arming, HeadExpiry, Control, Runs, Goto, Context,
     IsrOff, Masked, Setting, CpuTypeOK, DrvTypeOK, locals, drvVars, hwVars, Settle
<1>29. CASE TaskRead
  BY <1>29 DEF TaskRead, Begin, Arming, HeadExpiry, Control, Runs, Goto, Context,
     IsrOff, Masked, Setting, CpuTypeOK, DrvTypeOK, locals, drvVars, hwVars, Settle
<1>30. ASSUME NEW n \in TaskTicks, TaskDelay(n) PROVE Arming'
  BY <1>30 DEF TaskDelay, Begin, Arming, HeadExpiry, Control, Runs, Goto, Context,
     IsrOff, Masked, Setting, CpuTypeOK, DrvTypeOK, locals, drvVars, hwVars, Settle
<1>31. CASE DelayLoop
  BY <1>31 DEF DelayLoop, Begin, Arming, HeadExpiry, Control, Runs, Goto, Context,
     IsrOff, Masked, Setting, CpuTypeOK, DrvTypeOK, locals, drvVars, hwVars, Settle
<1>32. CASE UNCHANGED vars
  BY <1>32 DEF vars, Arming, HeadExpiry, Control, Runs, Goto, Context, IsrOff, Masked,
     Setting, CpuTypeOK, DrvTypeOK, locals, drvVars, hwVars, Settle
<1>33. QED
  BY <1>1, <1>2, <1>3, <1>4, <1>5, <1>6, <1>7, <1>8, <1>9, <1>10, <1>11, <1>12, <1>13,
     <1>14, <1>15, <1>16, <1>17, <1>18, <1>19, <1>20, <1>21, <1>22, <1>23, <1>24,
     <1>25, <1>26, <1>27, <1>28, <1>29, <1>30, <1>31, <1>32 DEF Next, Isr, Task,
     Driver

\* The first timer of the queue, with no overflow flagged.
LEMMA HeadTimes ==
    ASSUME Inv1, TimeKept, QueueTimes, Late, q # <<>>, ~ovf
    PROVE  /\ HeadExpiry \in Word /\ tmr_cntr \in EpochStarts /\ count \in 0 .. Low - 1
           /\ due[Head(q)] \in -(Past + Latency) .. MaxTicks
           /\ HeadExpiry = Wrap(tmr_cntr + count + due[Head(q)])
<1> USE DEF Inv1, TypeOK
<1>1. Head(q) \in Timers /\ InQueue(Head(q))
  BY DEF DrvTypeOK, InQueue
<1>2. HeadExpiry \in Word /\ tmr_cntr \in EpochStarts /\ count \in 0 .. Low - 1
  BY <1>1 DEF DrvTypeOK, HwTypeOK, HeadExpiry
<1>3. due[Head(q)] \in -(Past + Latency) .. MaxTicks
  BY <1>1, Parameters DEF Late, QueueTimes, HistTypeOK
<1>4. tmr_cntr \in Nat /\ tmr_cntr + Low <= Modulus
  BY <1>2, EpochStep
<1>5. now = tmr_cntr + count
  BY <1>2, <1>4, Parameters DEF TimeKept, Wrap
<1>6. QED
  BY <1>1, <1>2, <1>3, <1>5 DEF Late, HeadExpiry

\* When the driver leaves the first timer alone it is covered: by the compare
\* register, by the overflow, or by a forced interrupt.
LEMMA ArmedStep ==
    Inv1 /\ Inv2 /\ Inv3 /\ QueueOrdered /\ Late /\ Armed /\ Arming /\ [Next]_vars => Armed'
<1> SUFFICES ASSUME Inv1, Inv2, Inv3, QueueOrdered, Late, Armed, Arming, [Next]_vars PROVE Armed'
  OBVIOUS
<1> USE DEF Inv1, Inv2, Inv3, TypeOK
<1>1. CASE Tick
  <2>1. q' = q /\ pc' = pc
    BY <1>1 DEF Tick, drvVars
  <2>2. SUFFICES ASSUME q # <<>>, ~pend', ~ovf', pc["task"] \notin Setting, pc["isr"] \in {"off", "exit"}
                 PROVE  Covered'
    BY <2>1 DEF Armed
  <2>3. ~pend /\ ~ovf /\ count # Low - 1 /\ ~(mc0en /\ ~mc0 /\ mc0')
    BY <1>1, <2>2 DEF Tick
  <2>4. Covered
    BY <2>2, <2>3 DEF Armed
  <2>5. count' = count + 1 /\ count \in 0 .. Low - 1 /\ mc0en' = mc0en /\ cc0' = cc0
    BY <1>1, <2>3 DEF Tick, HwTypeOK
  <2>6. (mc0' => mc0 \/ count' = cc0) /\ (count' = cc0 => mc0')
    BY <1>1 DEF Tick
  <2>7. Head(q) \in Timers /\ InQueue(Head(q))
    BY <2>2 DEF DrvTypeOK, InQueue
  <2>8. due'[Head(q)] = due[Head(q)] - 1 /\ due[Head(q)] \in Int
    BY <1>1, <2>7 DEF Tick, HistTypeOK
  <2>9. CASE mc0en /\ ~mc0 /\ cc0 = count + due[Head(q)]
    <3>1. count' # cc0 /\ ~mc0'
      BY <2>3, <2>6, <2>9
    <3>2. QED
      BY <2>1, <2>4, <2>5, <2>8, <2>9, <3>1 DEF Covered
  <2>10. CASE count + due[Head(q)] >= Low
    BY <2>1, <2>3, <2>4, <2>5, <2>8, <2>10, Parameters DEF Covered
  <2>11. QED
    BY <2>4, <2>9, <2>10 DEF Covered
<1>2. ASSUME NEW c \in Context, ReadCount(c) PROVE Armed'
  BY <1>2 DEF ReadCount, Armed, Covered, Control, Runs, Home, Goto, Context, IsrOff,
     Masked, Setting, Reading, CpuTypeOK, locals, drvVars, hwVars
<1>3. ASSUME NEW c \in Context, ReadNoOvf(c) PROVE Armed'
  BY <1>3 DEF ReadNoOvf, ReadReturns, Return, Armed, Covered, Control, Runs, Home, Goto,
     Context, IsrOff, Masked, Setting, Reading, CpuTypeOK, locals, drvVars, hwVars
<1>4. ASSUME NEW c \in Context, ReadOvf(c) PROVE Armed'
  BY <1>4 DEF ReadOvf, Armed, Covered, Control, Runs, Home, Goto, Context, IsrOff,
     Masked, Setting, Reading, CpuTypeOK, locals, drvVars, hwVars
<1>5. ASSUME NEW c \in Context, ReadAgain(c) PROVE Armed'
  BY <1>5 DEF ReadAgain, Armed, Covered, Control, Runs, Home, Goto, Context, IsrOff,
     Masked, Setting, Reading, CpuTypeOK, locals, drvVars, hwVars
<1>6. ASSUME NEW c \in Context, ReadDone(c) PROVE Armed'
  BY <1>6 DEF ReadDone, ReadReturns, Return, Armed, Covered, Control, Runs, Home, Goto,
     Context, IsrOff, Masked, Setting, Reading, CpuTypeOK, locals, drvVars, hwVars
<1>7. ASSUME NEW c \in Context, OcmpEpoch(c) PROVE Armed'
  <2>1. q' = q /\ due' = due /\ ovf' = ovf /\ count' = count /\ pc[c] = "oc1"
    BY <1>7 DEF OcmpEpoch, drvVars
  <2>2. SUFFICES ASSUME q # <<>>, ~pend', ~ovf, pc'["task"] \notin Setting, pc'["isr"] \in {"off", "exit"}
                 PROVE  Covered'
    BY <2>1 DEF Armed
  <2>3. pc'[c] # "oc2"
    BY <2>2 DEF Context, Setting
  <2>4. Signed(High16(HeadExpiry), tmr_cntr) > 0
    BY <1>7, <2>2, <2>3 DEF OcmpEpoch, Goto, CpuTypeOK
  <2>5. count + due[Head(q)] >= Low /\ due[Head(q)] > 0
    BY <2>2, <2>4, HeadTimes, LaterEpoch, Parameters DEF HwTypeOK
  <2>6. QED
    BY <2>1, <2>5 DEF Covered
<1>8. ASSUME NEW c \in Context, OcmpSetCompare(c) PROVE Armed'
  BY <1>8 DEF OcmpSetCompare, Armed, Covered, Control, Runs, Home, Goto, Context,
     IsrOff, Masked, Setting, Reading, CpuTypeOK, locals, drvVars, hwVars
<1>9. ASSUME NEW c \in Context, OcmpClearFlag(c) PROVE Armed'
  BY <1>9 DEF OcmpClearFlag, Armed, Covered, Control, Runs, Home, Goto, Context, IsrOff,
     Masked, Setting, Reading, CpuTypeOK, locals, drvVars, hwVars
<1>10. ASSUME NEW c \in Context, OcmpEnable(c) PROVE Armed'
  BY <1>10 DEF OcmpEnable, Armed, Covered, Control, Runs, Home, Goto, Context, IsrOff,
     Masked, Setting, Reading, CpuTypeOK, locals, drvVars, hwVars
<1>11. ASSUME NEW c \in Context, OcmpCheckLate(c) PROVE Armed'
  <2>1. /\ q' = q /\ due' = due /\ ovf' = ovf /\ count' = count /\ pc[c] = "oc5"
        /\ mc0' = mc0 /\ mc0en' = mc0en /\ cc0' = cc0
    BY <1>11 DEF OcmpCheckLate, drvVars
  <2>2. SUFFICES ASSUME q # <<>>, ~pend', ~ovf PROVE Covered'
    BY <2>1 DEF Armed
  <2>3. ~pend /\ ~(count >= Low16(HeadExpiry))
    BY <1>11, <2>2 DEF OcmpCheckLate
  <2>4. mc0en /\ ~mc0 /\ cc0 = Low16(HeadExpiry) /\ HeadExpiry = tmr_cntr + Low16(HeadExpiry)
    BY <2>1, <2>3 DEF Arming, Setting
  <2>5. Low16(HeadExpiry) = count + due[Head(q)] /\ Low16(HeadExpiry) \in Int
    BY <2>2, <2>4, HeadTimes, ThisEpoch, Halves DEF HwTypeOK
  <2>6. due[Head(q)] > 0
    BY <2>2, <2>3, <2>5, HeadTimes DEF HwTypeOK
  <2>7. QED
    BY <2>1, <2>4, <2>5, <2>6 DEF Covered
<1>12. ASSUME NEW c \in Context, StartAtCheck(c) PROVE Armed'
  BY <1>12 DEF StartAtCheck, Return, Home, Armed, Covered, Control, Runs, Home, Goto,
     Context, IsrOff, Masked, Setting, Reading, CpuTypeOK, locals, drvVars, hwVars
<1>13. ASSUME NEW c \in Context, StartAtInsert(c) PROVE Armed'
  <2>1. cur[c] \in Timers /\ pc[c] = "insert" /\ q \in Seq(Timers) /\ expiry \in [Timers -> Int]
    BY <1>13, Parameters DEF StartAtInsert, Control, DrvTypeOK, Word
  <2>2. InsertPos(cur[c]) \in 1 .. Len(q) + 1
    BY <2>1, InsertPosType
  <2>3. CASE InsertPos(cur[c]) = 1
    BY <1>13, <2>3 DEF StartAtInsert, Armed, Goto, Control, Context, Setting, Runs,
       IsrOff, CpuTypeOK
  <2>4. CASE InsertPos(cur[c]) # 1
    <3>1. Len(q) >= 1 /\ 1 \in 1 .. InsertPos(cur[c]) - 1
      BY <2>1, <2>2, <2>4
    <3>2. q # <<>> /\ Head(q) \in Timers /\ q[1] = Head(q)
      BY <2>1, <3>1
    <3>3. q' = InsertAt(q, InsertPos(cur[c]), cur[c])
      BY <1>13 DEF StartAtInsert
    <3>4. q'[1] = q[1] /\ Len(q') = Len(q) + 1
      <4> DEFINE p == InsertPos(cur[c])
      <4> HIDE DEF p
      <4>1. p \in 1 .. Len(q) + 1 /\ 1 \in 1 .. p - 1 /\ q' = InsertAt(q, p, cur[c])
        BY <2>2, <3>1, <3>3 DEF p
      <4>2. Len(InsertAt(q, p, cur[c])) = Len(q) + 1
        BY <2>1, <4>1, InsertParts
      <4>3. \A i \in 1 .. p - 1 : InsertAt(q, p, cur[c])[i] = q[i]
        BY <2>1, <4>1, InsertParts
      <4>4. QED
        BY <4>1, <4>2, <4>3
    <3>5. Head(q') = Head(q)
      <4>1. q' \in Seq(Timers)
        BY <2>1, <2>2, <3>3, InsertType
      <4>2. QED
        BY <4>1, <3>2, <3>4
    <3>6. cur[c] # Head(q)
      BY <2>1, <3>1, <3>2 DEF Owned, InQueue
    <3>7. due'[Head(q)] = due[Head(q)]
      BY <1>13, <2>1, <3>2, <3>6 DEF StartAtInsert, HistTypeOK
    <3>8. UNCHANGED hwVars
      BY <1>13 DEF StartAtInsert
    <3>9. /\ c = "task" => pc[c] \notin Setting /\ pc'["isr"] = pc["isr"]
          /\ c = "isr" => pc'["isr"] = "chk"
      BY <1>13, <2>1, <2>4 DEF StartAtInsert, Return, Goto, Home, Setting, Context,
         CpuTypeOK
    <3>10. QED
      BY <3>2, <3>5, <3>7, <3>8, <3>9 DEF Armed, Covered, hwVars, Context
  <2>5. QED
    BY <2>3, <2>4
<1>14. ASSUME NEW c \in Context, Stop(c) PROVE Armed'
  <2>1. cur[c] \in Timers /\ pc[c] = "stop" /\ q \in Seq(Timers) /\ c \in Context
    BY <1>14 DEF Stop, Control, DrvTypeOK
  <2>2. UNCHANGED <<count, ovf, mc0, cc0, pend>>
    BY <1>14 DEF Stop
  <2>3. /\ c = "task" => pc[c] \notin Setting /\ pc'["isr"] = pc["isr"]
        /\ c = "isr" => pc'["isr"] \in {"chk", "oc1"}
    BY <1>14, <2>1 DEF Stop, Return, Goto, Home, Setting, Context, CpuTypeOK
  <2>4. CASE q' = q /\ due' = due /\ mc0en' = mc0en
    BY <2>1, <2>2, <2>3, <2>4 DEF Armed, Covered, Context
  <2>5. CASE InQueue(cur[c]) /\ Head(q) = cur[c] /\ Len(q) = 1 /\ q' = Unlinked(cur[c])
    <3>1. PICK p \in 1 .. Len(q) : q' = RemoveAt(q, p)
      BY <2>1, <2>5, UnlinkedType
    <3>2. Len(RemoveAt(q, p)) = Len(q) - 1 /\ RemoveAt(q, p) \in Seq(Timers)
      <4>1. Len(RemoveAt(q, p)) = Len(q) - 1
        BY <2>1, RemoveParts
      <4>2. RemoveAt(q, p) \in Seq(Timers)
        BY <2>1, RemoveType
      <4>3. QED
        BY <4>1, <4>2
    <3>3. q' = <<>>
      BY <2>5, <3>1, <3>2
    <3>4. QED
      BY <3>3 DEF Armed
  <2>6. CASE pc'[c] = "oc1"
    BY <2>1, <2>3, <2>6 DEF Armed, Setting, Context
  <2>7. CASE InQueue(cur[c]) /\ Head(q) # cur[c] /\ mc0en' = mc0en /\ q' = Unlinked(cur[c])
    <3>1. PICK p \in 1 .. Len(q) : q[p] = cur[c] /\ q' = RemoveAt(q, p)
      BY <2>1, <2>7, UnlinkedType
    <3>2. Len(q) \in Nat /\ Len(q) >= 1 /\ q[1] = Head(q) /\ p # 1 /\ Head(q) \in Timers /\ q # <<>>
      BY <2>1, <2>7, <3>1
    <3>3. 1 \in 1 .. p - 1
      BY <3>1, <3>2
    <3>4. q'[1] = q[1] /\ Len(q') = Len(q) - 1 /\ q' \in Seq(Timers)
      BY <2>1, <3>1, <3>3, RemoveParts, RemoveType
    <3>5. Head(q') = Head(q)
      BY <3>1, <3>2, <3>4
    <3>6. due'[Head(q)] = due[Head(q)]
      BY <1>14, <2>7, <3>2 DEF Stop, HistTypeOK
    <3>7. QED
      BY <2>1, <2>2, <2>3, <2>7, <3>2, <3>5, <3>6 DEF Armed, Covered, Context
  <2>8. QED
    BY <1>14, <2>1, <2>4, <2>5, <2>6, <2>7 DEF Stop, Goto, CpuTypeOK
<1>15. CASE IrqEnter
  BY <1>15 DEF IrqEnter, Armed, Covered, Control, Runs, Home, Goto, Context, IsrOff,
     Masked, Setting, Reading, CpuTypeOK, locals, drvVars, hwVars
<1>16. CASE IrqCompare
  BY <1>16 DEF IrqCompare, Armed, Covered, Control, Runs, Home, Goto, Context, IsrOff,
     Masked, Setting, Reading, CpuTypeOK, locals, drvVars, hwVars
<1>17. CASE IrqOverflow
  BY <1>17 DEF IrqOverflow, Armed, Covered, Control, Runs, Home, Goto, Context, IsrOff,
     Masked, Setting, Reading, CpuTypeOK, locals, drvVars, hwVars
<1>18. CASE ChkEmpty
  BY <1>18 DEF ChkEmpty, Armed, Covered, Control, Runs, Home, Goto, Context, IsrOff,
     Masked, Setting, Reading, CpuTypeOK, locals, drvVars, hwVars
<1>19. CASE ChkFirst
  BY <1>19 DEF ChkFirst, Armed, Covered, Control, Runs, Home, Goto, Context, IsrOff,
     Masked, Setting, Reading, CpuTypeOK, locals, drvVars, hwVars
<1>20. CASE ChkFire
  BY <1>20 DEF ChkFire, Armed, Covered, Control, Runs, Home, Goto, Context, IsrOff,
     Masked, Setting, Reading, CpuTypeOK, locals, drvVars, hwVars
<1>21. CASE ChkWait
  BY <1>21 DEF ChkWait, Armed, Covered, Control, Runs, Home, Goto, Context, IsrOff,
     Masked, Setting, Reading, CpuTypeOK, locals, drvVars, hwVars
<1>22. CASE IrqExit
  BY <1>22 DEF IrqExit, Armed, Covered, Control, Runs, Home, Goto, Context, IsrOff,
     Masked, Setting, Reading, CpuTypeOK, locals, drvVars, hwVars
<1>23. CASE CbReturn
  BY <1>23 DEF CbReturn, Return, Armed, Covered, Control, Runs, Home, Goto, Context,
     IsrOff, Masked, Setting, Reading, CpuTypeOK, locals, drvVars, hwVars
<1>24. ASSUME NEW t \in Timers, NEW n \in CbTicks, CbStart(t, n) PROVE Armed'
  BY <1>24 DEF CbStart, Begin, Armed, Covered, Control, Runs, Home, Goto, Context,
     IsrOff, Masked, Setting, Reading, CpuTypeOK, locals, drvVars, hwVars
<1>25. ASSUME NEW t \in Timers, CbStop(t) PROVE Armed'
  BY <1>25 DEF CbStop, Begin, Armed, Covered, Control, Runs, Home, Goto, Context,
     IsrOff, Masked, Setting, Reading, CpuTypeOK, locals, drvVars, hwVars
<1>26. ASSUME NEW t \in Timers, NEW n \in TaskTicks, TaskStart(t, n) PROVE Armed'
  BY <1>26 DEF TaskStart, Begin, Armed, Covered, Control, Runs, Home, Goto, Context,
     IsrOff, Masked, Setting, Reading, CpuTypeOK, locals, drvVars, hwVars
<1>27. ASSUME NEW t \in Timers, NEW n \in -Past .. MaxTicks, TaskStartAt(t, n) PROVE Armed'
  BY <1>27 DEF TaskStartAt, Begin, Armed, Covered, Control, Runs, Home, Goto, Context,
     IsrOff, Masked, Setting, Reading, CpuTypeOK, locals, drvVars, hwVars
<1>28. ASSUME NEW t \in Timers, TaskStop(t) PROVE Armed'
  BY <1>28 DEF TaskStop, Begin, Armed, Covered, Control, Runs, Home, Goto, Context,
     IsrOff, Masked, Setting, Reading, CpuTypeOK, locals, drvVars, hwVars
<1>29. CASE TaskRead
  BY <1>29 DEF TaskRead, Begin, Armed, Covered, Control, Runs, Home, Goto, Context,
     IsrOff, Masked, Setting, Reading, CpuTypeOK, locals, drvVars, hwVars
<1>30. ASSUME NEW n \in TaskTicks, TaskDelay(n) PROVE Armed'
  BY <1>30 DEF TaskDelay, Begin, Armed, Covered, Control, Runs, Home, Goto, Context,
     IsrOff, Masked, Setting, Reading, CpuTypeOK, locals, drvVars, hwVars
<1>31. CASE DelayLoop
  BY <1>31 DEF DelayLoop, Begin, Armed, Covered, Control, Runs, Home, Goto, Context,
     IsrOff, Masked, Setting, Reading, CpuTypeOK, locals, drvVars, hwVars
<1>32. CASE UNCHANGED vars
  BY <1>32 DEF vars, Armed, Covered, Control, Runs, Home, Goto, Context, IsrOff, Masked,
     Setting, Reading, CpuTypeOK, locals, drvVars, hwVars
<1>33. QED
  BY <1>1, <1>2, <1>3, <1>4, <1>5, <1>6, <1>7, <1>8, <1>9, <1>10, <1>11, <1>12, <1>13,
     <1>14, <1>15, <1>16, <1>17, <1>18, <1>19, <1>20, <1>21, <1>22, <1>23, <1>24,
     <1>25, <1>26, <1>27, <1>28, <1>29, <1>30, <1>31, <1>32 DEF Next, Isr, Task,
     Driver

\* The first of an ordered sequence is the least.
LEMMA FirstIsLeast ==
    ASSUME NEW s \in Seq(Timers), NEW d \in [Timers -> Int], Ordered(s, d), s # <<>>,
           d[Head(s)] > 0, NEW i \in 1 .. Len(s)
    PROVE  d[s[i]] > 0
<1>1. Len(s) \in Nat /\ 1 \in 1 .. Len(s) /\ s[1] = Head(s) /\ s[i] \in Timers /\ s[1] \in Timers
  OBVIOUS
<1>2. i = 1 \/ d[s[1]] <= d[s[i]]
  BY <1>1 DEF Ordered
<1>3. d[s[1]] \in Int /\ d[s[i]] \in Int
  BY <1>1
<1>4. QED
  BY <1>1, <1>2, <1>3

\* The expiry stays the time due as the clock goes on.
LEMMA LateTick ==
    ASSUME NEW b \in Word, NEW d \in -(Past + Latency) .. MaxTicks
    PROVE  Wrap(Wrap(b + 1) + (d - 1)) = Wrap(b + d)
  BY Parameters DEF Wrap, Word

\* The count of the time the CPU is busy starts again only when nothing is
\* pending and the task is idle or in its delay loop.
LEMMA BusySettles ==
    ASSUME Inv1, [Next]_vars, ~Tick
    PROVE  \/ lag' = lag
           \/ lag' = 0 /\ pc'["isr"] = "off" /\ ~pend' /\ pc'["task"] \in {"idle", "delay"}
<1>1. Settle \/ lag' = lag
  <2>1. ASSUME NEW c \in Context, Driver(c) PROVE Settle
    BY <2>1 DEF Driver, ReadCount, ReadNoOvf, ReadOvf, ReadAgain, ReadDone, OcmpEpoch,
       OcmpSetCompare, OcmpClearFlag, OcmpEnable, OcmpCheckLate, StartAtCheck,
       StartAtInsert, Stop
  <2>2. CASE Isr
    BY <2>2 DEF Isr, IrqEnter, IrqCompare, IrqOverflow, ChkEmpty, ChkFirst, ChkFire,
       ChkWait, IrqExit, CbReturn, CbStart, CbStop, Begin
  <2>3. CASE Task \/ DelayLoop
    BY <2>3 DEF Task, DelayLoop, TaskStart, TaskStartAt, TaskStop, TaskRead, TaskDelay,
       Begin
  <2>4. CASE UNCHANGED vars
    BY <2>4 DEF vars
  <2>5. QED
    BY <2>1, <2>2, <2>3, <2>4 DEF Next
<1>2. pc["task"] # "delay" /\ pc'["task"] = "delay" => IsrOff'
  <2>1. ASSUME NEW c \in Context, Driver(c), pc["task"] # "delay", pc'["task"] = "delay"
        PROVE  IsrOff'
    <3>1. CASE c = "isr"
      BY <2>1, <3>1 DEF Driver, ReadCount, ReadNoOvf, ReadOvf, ReadAgain, ReadDone,
         ReadReturns,
         OcmpEpoch, OcmpSetCompare, OcmpClearFlag, OcmpEnable, OcmpCheckLate, OcmpReturns,
         StartAtCheck, StartAtInsert, Stop, Return, Goto, Inv1, TypeOK, CpuTypeOK, Context
    <3>2. CASE c = "task"
      <4>1. IsrOff
        BY <2>1, <3>2 DEF Driver, ReadCount, ReadNoOvf, ReadOvf, ReadAgain, ReadDone,
           OcmpEpoch, OcmpSetCompare, OcmpClearFlag, OcmpEnable, OcmpCheckLate,
           StartAtCheck, StartAtInsert, Stop, Runs
      <4>2. pc'["isr"] = pc["isr"]
        BY <2>1, <3>2 DEF Driver, ReadCount, ReadNoOvf, ReadOvf, ReadAgain, ReadDone,
           ReadReturns,
           OcmpEpoch, OcmpSetCompare, OcmpClearFlag, OcmpEnable, OcmpCheckLate, OcmpReturns,
           StartAtCheck, StartAtInsert, Stop, Return, Goto, Inv1, TypeOK, CpuTypeOK, Context
      <4>3. QED
        BY <4>1, <4>2 DEF IsrOff
    <3>3. QED
      BY <3>1, <3>2 DEF Context
  <2>2. CASE Isr
    BY <2>2 DEF Isr, IrqEnter, IrqCompare, IrqOverflow, ChkEmpty, ChkFirst, ChkFire,
       ChkWait, IrqExit, CbReturn, CbStart, CbStop, Begin, Return, Goto, Inv1, TypeOK,
       CpuTypeOK, Context
  <2>3. CASE Task \/ DelayLoop
    BY <2>3 DEF Task, DelayLoop, TaskStart, TaskStartAt, TaskStop, TaskRead, TaskDelay,
       Begin, Goto, Inv1, TypeOK, CpuTypeOK, Context
  <2>4. CASE UNCHANGED vars
    BY <2>4 DEF vars
  <2>5. QED
    BY <2>1, <2>2, <2>3, <2>4 DEF Next
<1>3. QED
  BY <1>1, <1>2 DEF Settle, Rest, IsrOff

\* Nothing but a tick makes a timer later, and the count of the time the CPU is
\* busy starts again only when every queued timer is ahead.
LEMMA LateStep ==
    ASSUME Inv1, Inv2, Inv3, Inv4, [Next]_vars, Inv1', Inv2', QueueOrdered', Armed'
    PROVE  Late'
<1> USE DEF Inv1, Inv2, Inv3, Inv4, TypeOK
<1>0. /\ q \in Seq(Timers) /\ due \in [Timers -> Int] /\ now \in Word
      /\ lag \in Int /\ 0 <= lag /\ lag <= Latency
      /\ q' \in Seq(Timers) /\ due' \in [Timers -> Int]
  BY Parameters DEF DrvTypeOK, HistTypeOK
<1>1. \A t \in Timers : InQueue(t) => due[t] \in -(Past + Latency) .. MaxTicks
  BY <1>0, Parameters DEF Late, QueueTimes
<1>2. CASE Tick
  <2>1. q' = q /\ expiry' = expiry /\ now' = Wrap(now + 1)
    BY <1>2 DEF Tick, drvVars
  <2>2. SUFFICES ASSUME NEW t \in Timers, InQueue(t)
                 PROVE  due'[t] >= -(Past + lag') /\ expiry[t] = Wrap(now' + due'[t])
    BY <2>1 DEF Late, InQueue
  <2>3. due'[t] = due[t] - 1
    BY <1>0, <1>2, <2>2 DEF Tick
  <2>4. expiry[t] = Wrap(now' + due'[t])
    BY <1>0, <1>1, <2>1, <2>2, <2>3, LateTick DEF Late
  <2>5. due'[t] >= -(Past + lag')
    <3>1. CASE Rest
      <4>1. q # <<>> /\ ~pend /\ ~ovf /\ pc["task"] \notin Setting /\ pc["isr"] = "off"
        BY <2>2, <3>1 DEF Rest, IsrOff, OvfServed, Setting, InQueue
      <4>2. due[Head(q)] > 0
        BY <4>1 DEF Armed, Covered
      <4>3. Ordered(q, due)
        BY DEF QueueOrdered
      <4>4. due[t] > 0
        BY <1>0, <2>2, <4>1, <4>2, <4>3, FirstIsLeast DEF InQueue
      <4>5. lag' = 0
        BY <1>2, <3>1 DEF Tick
      <4>6. QED
        BY <1>0, <2>3, <4>4, <4>5, Parameters
    <3>2. CASE ~Rest
      <4>1. lag' = lag + 1
        BY <1>2, <3>2 DEF Tick
      <4>2. QED
        BY <1>0, <2>2, <2>3, <4>1, Parameters DEF Late
    <3>3. QED
      BY <3>1, <3>2
  <2>6. QED
    BY <2>4, <2>5
<1>3. CASE ~Tick
  <2>1. now' = now
    BY <1>3, QuietStep DEF StartAtCheck, StartAtInsert, Stop, ChkFire, Settle
  <2>2. lag' = lag \/ (lag' = 0 /\ pc'["isr"] = "off" /\ ~pend' /\ pc'["task"] \in {"idle", "delay"})
    BY <1>3, BusySettles
  <2>3. SUFFICES ASSUME NEW t \in Timers, InQueue(t)'
                 PROVE  due'[t] >= -(Past + lag') /\ expiry'[t] = Wrap(now' + due'[t])
    BY DEF Late
  <2>4. due'[t] >= -(Past + lag) /\ expiry'[t] = Wrap(now + due'[t]) /\ due'[t] \in Int
    <3>1. CASE UNCHANGED <<q, due, expiry, now>>
      BY <1>0, <2>3, <3>1 DEF Late, InQueue
    <3>2. CASE ChkFire
      <4>1. q' = Tail(q) /\ q # <<>> /\ expiry' = expiry /\ due' = [due EXCEPT ![Head(q)] = 0]
        BY <3>2 DEF ChkFire, Control
      <4>2. Ordered(q, due)
        BY DEF QueueOrdered
      <4>3. InQueue(t) /\ t # Head(q)
        BY <1>0, <2>3, <4>1, <4>2, OrderedTail, QueueMembers DEF InQueue
      <4>4. QED
        BY <1>0, <4>1, <4>3 DEF Late
    <3>3. ASSUME NEW c \in Context, StartAtCheck(c)
          PROVE  due'[t] >= -(Past + lag) /\ expiry'[t] = Wrap(now + due'[t]) /\ due'[t] \in Int
      <4>1. q' = q /\ due' = due
        BY <3>3 DEF StartAtCheck
      <4>2. InQueue(t)
        BY <2>3, <4>1 DEF InQueue
      <4>3. expiry'[t] = expiry[t]
        BY <3>3, <4>2 DEF StartAtCheck, DrvTypeOK
      <4>4. QED
        BY <1>0, <4>1, <4>2, <4>3 DEF Late
    <3>4. ASSUME NEW c \in Context, StartAtInsert(c)
          PROVE  due'[t] >= -(Past + lag) /\ expiry'[t] = Wrap(now + due'[t]) /\ due'[t] \in Int
      <4>1. expiry' = expiry /\ pc[c] = "insert" /\ due' = [due EXCEPT ![cur[c]] = Signed(seen[c], now)]
        BY <3>4 DEF StartAtInsert
      <4>2. CASE t = cur[c]
        <5>1. due'[t] = Signed(seen[c], now)
          BY <1>0, <4>1, <4>2
        <5>2. expiry[t] = seen[c] /\ Signed(seen[c], now) >= -(Past + lag) /\ seen[c] \in Word
          BY <4>1, <4>2 DEF Owned, GoalFresh, CpuTypeOK
        <5>3. Signed(seen[c], now) \in Int /\ Wrap(now + Signed(seen[c], now)) = seen[c]
          BY <1>0, <5>2, SignedWrap
        <5>4. QED
          BY <4>1, <5>1, <5>2, <5>3
      <4>3. CASE t # cur[c]
        <5>1. InQueue(t)
          BY <2>3, <3>4, <4>3, NewQueue
        <5>2. due'[t] = due[t]
          BY <1>0, <4>1, <4>3
        <5>3. QED
          BY <1>0, <4>1, <5>1, <5>2 DEF Late
      <4>4. QED
        BY <4>2, <4>3
    <3>5. ASSUME NEW c \in Context, Stop(c)
          PROVE  due'[t] >= -(Past + lag) /\ expiry'[t] = Wrap(now + due'[t]) /\ due'[t] \in Int
      <4>1. expiry' = expiry
        BY <3>5 DEF Stop
      <4>2. CASE q' = q /\ due' = due
        BY <1>0, <2>3, <4>1, <4>2 DEF Late, InQueue
      <4>3. CASE InQueue(cur[c]) /\ q' = Unlinked(cur[c]) /\ due' = [due EXCEPT ![cur[c]] = 0]
        <5>1. cur[c] \in Timers
          BY <3>5 DEF Stop, Control
        <5>2. PICK p \in 1 .. Len(q) : q[p] = cur[c] /\ Unlinked(cur[c]) = RemoveAt(q, p)
          BY <1>0, <4>3, <5>1, UnlinkedType
        <5>3. Ordered(q, due)
          BY DEF QueueOrdered
        <5>4. \A i \in 1 .. Len(RemoveAt(q, p)) : RemoveAt(q, p)[i] # q[p]
          BY <1>0, <5>3, OrderedRemove
        <5>5. t # cur[c]
          BY <2>3, <4>3, <5>2, <5>4 DEF InQueue
        <5>6. InQueue(t)
          BY <2>3, <4>3, <5>1, QueueMembers DEF InQueue
        <5>7. QED
          BY <1>0, <4>1, <4>3, <5>5, <5>6 DEF Late
      <4>4. QED
        BY <3>5, <4>2, <4>3 DEF Stop
    <3>6. QED
      BY <1>3, <3>1, <3>2, <3>3, <3>4, <3>5, QuietStep
  <2>5. due'[t] >= -(Past + lag')
    <3>1. CASE lag' = lag
      BY <2>4, <3>1
    <3>2. CASE lag' = 0 /\ pc'["isr"] = "off" /\ ~pend' /\ pc'["task"] \in {"idle", "delay"}
      <4>1. q' # <<>> /\ ~ovf'
        BY <2>3, <3>2 DEF OvfServed, IsrOff, InQueue
      <4>2. due'[Head(q')] > 0
        BY <3>2, <4>1 DEF Armed, Covered, Setting
      <4>3. Ordered(q', due')
        BY DEF QueueOrdered
      <4>4. due'[t] > 0
        BY <1>0, <2>3, <4>1, <4>2, <4>3, FirstIsLeast DEF InQueue
      <4>5. QED
        BY <2>4, <3>2, <4>4, Parameters
    <3>3. QED
      BY <2>2, <3>1, <3>2
  <2>6. QED
    BY <2>1, <2>4, <2>5
<1>4. QED
  BY <1>2, <1>3

\* The queue, its times and the compare register keep to one another.
LEMMA Step4 == Inv1 /\ Inv2 /\ Inv3 /\ Inv4 /\ [Next]_vars => Inv4'
  BY Step1, Step2, SortedStep, ArmingStep, ArmedStep, LateStep DEF Inv4

\* All invariants of the timer together.  What concerns the queue ends when a
\* timer is linked twice.
TimerInv == Inv1 /\ Inv2 /\ (contested \/ (Inv3 /\ Inv4))

LEMMA TimerInvariant == Spec => []TimerInv
<1>1. Init => TimerInv
  BY Init1, Init2, Init3, Init4 DEF TimerInv
<1>2. TimerInv /\ [Next]_vars => TimerInv'
  BY Step1, Step2, Step3, Step4, ContestedStep DEF TimerInv
<1>3. QED
  BY <1>1, <1>2, PTL DEF Spec

\* The queue is ordered by the time that is really left and holds no timer
\* twice, wherever the 32-bit expiries wrap and whatever timers callbacks start
\* and stop between the test and the insertion of hal_timer_start_at, as long as
\* none of them starts the very timer the task is starting there.
THEOREM TimerSorted == Spec => []Sorted
<1>1. TimerInv => Sorted
  BY DEF TimerInv, Inv4, QueueOrdered, Ordered, Sorted
<1>2. QED
  BY <1>1, TimerInvariant, PTL

\* No wake-up is lost between samd21_timer_set_ocmp, the counter and the
\* interrupt: when the CPU is at rest every queued timer is still ahead, unless a
\* timer has been linked twice.
THEOREM TimerNoLostWakeup == Spec => []NoLostWakeup
<1>1. TimerInv => NoLostWakeup
  <2>1. SUFFICES ASSUME Inv1, Inv2, Inv4, Rest, NEW t \in Timers, InQueue(t)
                 PROVE  due[t] > 0
    BY DEF NoLostWakeup, TimerInv
  <2>2. q # <<>> /\ ~pend /\ ~ovf /\ pc["task"] \notin Setting /\ pc["isr"] = "off"
    BY <2>1 DEF Rest, IsrOff, Inv2, OvfServed, Setting, InQueue
  <2>3. due[Head(q)] > 0
    BY <2>1, <2>2 DEF Inv4, Armed, Covered
  <2>4. Ordered(q, due) /\ q \in Seq(Timers) /\ due \in [Timers -> Int]
    BY <2>1 DEF Inv4, QueueOrdered, Inv1, TypeOK, DrvTypeOK, HistTypeOK
  <2>5. QED
    BY <2>1, <2>2, <2>3, <2>4, FirstIsLeast DEF InQueue
<1>2. QED
  BY <1>1, TimerInvariant, PTL

\* No timer waits in the queue for longer than the CPU was kept busy after the
\* moment it was due, or was started for a moment in the past, unless a timer has
\* been linked twice.
THEOREM TimerNeverLate == Spec => []NeverLate
<1>1. TimerInv => NeverLate
  <2>1. SUFFICES ASSUME Inv1, Inv4, NEW t \in Timers, InQueue(t)
                 PROVE  due[t] >= -(Latency + Past)
    BY DEF NeverLate, TimerInv
  <2>2. due[t] \in Int /\ lag \in Int /\ lag <= Latency
    BY <2>1, Parameters DEF Inv1, TypeOK, HistTypeOK
  <2>3. due[t] >= -(Past + lag)
    BY <2>1 DEF Inv4, Late
  <2>4. QED
    BY <2>2, <2>3, Parameters
<1>2. QED
  BY <1>1, TimerInvariant, PTL

-----------------------------------------------------------------------------
(* Delays *)

\* The counter sampled by the task belongs to the present epoch, and is at most a
\* busy period old.
DelayFresh ==
    /\ pc["task"] = "rd2" /\ ~ovf => low["task"] <= count /\ count - low["task"] <= lag
    /\ pc["task"] = "rd4" => low["task"] <= count /\ count <= lag /\ ~ovf

\* The task is in the loop of hal_timer_delay.
Delaying == pc["task"] = "delay" \/ (pc["task"] \in Reading /\ ret["task"] = "delay")

\* It waits for the tick it was asked for, and that tick is near: the loop has
\* not missed it by more than one look at the counter.
DelayGoal ==
    /\ ret["task"] = "delay" => Delaying
    /\ Delaying =>
        /\ arg["task"] = seen["task"]
        /\ -MaxTicks <= Signed(now, seen["task"])
        /\ Signed(now, seen["task"]) <= Latency + lag

Inv5 == DelayFresh /\ DelayGoal

\* No delay is asked for at first.
LEMMA Init5 == Init => Inv5
  BY DEF Init, Inv5, DelayFresh, DelayGoal, Delaying, Reading, Context

\* The distance to a tick that is near moves with the clock, and is the one seen
\* by a look at the counter but for the age of that look.
LEMMA DelayTick ==
    ASSUME NEW a \in Word, NEW g \in Word, NEW l \in Int, l < Latency,
           -MaxTicks <= Signed(a, g), Signed(a, g) <= Latency + l
    PROVE  -MaxTicks <= Signed(Wrap(a + 1), g) /\ Signed(Wrap(a + 1), g) <= Latency + l + 1
  BY Parameters DEF Signed, Wrap, Word

LEMMA DelayAge ==
    ASSUME NEW v \in Word, NEW a \in Word, NEW g \in Word, v <= a, a - v <= Latency,
           -MaxTicks <= Signed(a, g), Signed(a, g) <= 2 * Latency
    PROVE  Signed(v, g) \in Int /\ Signed(a, g) = Signed(v, g) + (a - v)
  BY Parameters DEF Signed, Word

LEMMA DelayStarts ==
    ASSUME NEW v \in Word, NEW a \in Word, NEW n \in 0 .. MaxTicks, Wrap(a - v) <= Latency
    PROVE  -MaxTicks <= Signed(a, Wrap(v + n)) /\ Signed(a, Wrap(v + n)) <= Latency
  BY Parameters DEF Signed, Wrap, Word

\* What the task reads is the time, but for the age of the sample.
LEMMA DelayReads ==
    ASSUME Inv1, TimeKept, DelayFresh, pc["task"] = "rd4" \/ (pc["task"] = "rd2" /\ ~ovf)
    PROVE  /\ tcntr["task"] + low["task"] \in Word /\ now \in Word
           /\ tcntr["task"] + low["task"] <= now
           /\ now - (tcntr["task"] + low["task"]) <= Latency
<1> USE DEF Inv1, TypeOK
<1>1. /\ tcntr["task"] = tmr_cntr /\ ~ovf /\ low["task"] <= count
      /\ count - low["task"] <= lag
  BY DEF ReadHalves, DelayFresh, Context, CpuTypeOK, HwTypeOK, HistTypeOK
<1>2. tmr_cntr \in Nat /\ tmr_cntr + Low <= Modulus
  BY EpochStep DEF DrvTypeOK
<1>3. /\ low["task"] \in 0 .. Low - 1 /\ count \in 0 .. Low - 1 /\ now \in Word
      /\ lag \in Int /\ lag <= Latency
  BY Parameters DEF CpuTypeOK, HwTypeOK, HistTypeOK, Context
<1>4. now = tmr_cntr + count
  BY <1>1, <1>2, <1>3, Parameters DEF TimeKept, Wrap
<1>5. QED
  BY <1>1, <1>2, <1>3, <1>4, Parameters DEF Word

\* A look at the counter: the delay begins, goes on, or is over.
LEMMA DelayLook ==
    ASSUME Inv1, Inv2, SampleFresh, Inv5, pc["task"] = "rd4" \/ (pc["task"] = "rd2" /\ ~ovf),
           ReadReturns("task", tcntr["task"] + low["task"]), Settle
    PROVE  /\ DelayGoal'
           /\ ret["task"] = "delay" /\ ret'["task"] = "none" => Signed(now, seen["task"]) >= 0
<1> DEFINE v == tcntr["task"] + low["task"]
<1> USE DEF Inv1, Inv2, Inv5, TypeOK
<1>1. v \in Word /\ now \in Word /\ v <= now /\ now - v <= Latency /\ now' = now
  BY DelayReads DEF Settle
<1>2. lag \in Int /\ 0 <= lag /\ lag <= Latency /\ lag' \in {0, lag}
  BY Parameters DEF HistTypeOK, Settle
<1>3. seen["task"] \in Word /\ arg["task"] \in Word
  BY DEF CpuTypeOK, Context
<1>4. ret["task"] # "delay" => v = seen["task"] /\ Behind("task") <= lag
  BY DEF ReadIsTime, SampleFresh, Context
<1>5. ret["task"] = "delay" =>
        /\ arg["task"] = seen["task"] /\ Signed(v, seen["task"]) \in Int
        /\ -MaxTicks <= Signed(now, seen["task"])
        /\ Signed(now, seen["task"]) = Signed(v, seen["task"]) + (now - v)
  <2>1. SUFFICES ASSUME ret["task"] = "delay"
                 PROVE  /\ arg["task"] = seen["task"] /\ Signed(v, seen["task"]) \in Int
                        /\ -MaxTicks <= Signed(now, seen["task"])
                        /\ Signed(now, seen["task"]) = Signed(v, seen["task"]) + (now - v)
    OBVIOUS
  <2>2. /\ arg["task"] = seen["task"] /\ -MaxTicks <= Signed(now, seen["task"])
        /\ Signed(now, seen["task"]) <= Latency + lag
    BY <2>1 DEF DelayGoal, Delaying, Reading
  <2>3. Signed(now, seen["task"]) \in Int
    BY <1>1, <1>3, SignedWrap
  <2>4. Signed(now, seen["task"]) <= 2 * Latency
    BY <1>2, <2>2, <2>3, Parameters
  <2> HIDE DEF v
  <2>5. QED
    BY <1>1, <1>3, <2>2, <2>4, DelayAge
<1> HIDE DEF v
<1>6. CASE ret["task"] = "until"
  <2>1. /\ arg'["task"] = Wrap(v + arg["task"]) /\ seen'["task"] = Wrap(seen["task"] + arg["task"])
        /\ ret' = ret /\ pc'["task"] = "delay"
    BY <1>6 DEF ReadReturns, Goto, CpuTypeOK, Context, v
  <2>2. arg["task"] \in 0 .. MaxTicks
    <3>1. arg["task"] \in TaskTicks \cup CbTicks
      BY <1>6 DEF Control, Reading, Context
    <3>2. QED
      BY <3>1, Parameters
  <2>3. v = seen["task"] /\ Wrap(now - v) <= Latency
    BY <1>1, <1>2, <1>3, <1>4, <1>6, Parameters DEF Wrap, Word
  <2>4. /\ -MaxTicks <= Signed(now, Wrap(v + arg["task"]))
        /\ Signed(now, Wrap(v + arg["task"])) <= Latency
    BY <1>1, <2>2, <2>3, DelayStarts
  <2>5. Wrap(v + arg["task"]) \in Word
    BY <1>1, <2>2, Parameters DEF Wrap, Word
  <2>6. Signed(now, Wrap(v + arg["task"])) \in Int
    BY <1>1, <2>5, SignedWrap
  <2>7. Signed(now, Wrap(v + arg["task"])) <= Latency + lag'
    BY <1>2, <2>4, <2>6, Parameters
  <2>8. QED
    BY <1>1, <1>6, <2>1, <2>3, <2>4, <2>7 DEF DelayGoal, Delaying, Reading
<1>7. CASE ret["task"] = "delay" /\ DelayGoesOn(v, arg["task"])
  <2>1. UNCHANGED <<arg, seen, ret>> /\ pc'["task"] = "delay"
    BY <1>7 DEF ReadReturns, Goto, CpuTypeOK, Context, v
  <2>2. Signed(v, seen["task"]) <= 0
    BY <1>5, <1>7 DEF DelayGoesOn
  <2>3. Signed(now, seen["task"]) <= Latency + lag'
    BY <1>1, <1>2, <1>5, <1>7, <2>2, Parameters DEF Word
  <2>4. QED
    BY <1>1, <1>5, <1>7, <2>1, <2>3 DEF DelayGoal, Delaying, Reading
<1>8. CASE ret["task"] = "delay" /\ ~DelayGoesOn(v, arg["task"])
  <2>1. ret'["task"] = "none" /\ pc'["task"] = "idle"
    BY <1>8 DEF ReadReturns, Return, Goto, CpuTypeOK, Context, v
  <2>2. Signed(v, seen["task"]) > 0
    BY <1>5, <1>8 DEF DelayGoesOn
  <2>3. Signed(now, seen["task"]) >= 0
    BY <1>1, <1>5, <1>8, <2>2 DEF Word
  <2>4. QED
    BY <2>1, <2>3 DEF DelayGoal, Delaying, Reading
<1>9. CASE ret["task"] \in {"start", "read", "chk"}
  BY <1>9 DEF ReadReturns, Return, Goto, CpuTypeOK, Context, DelayGoal, Delaying,
     Reading, Control
<1>10. QED
  BY <1>6, <1>7, <1>8, <1>9 DEF ReadReturns, v

\* The interrupt's steps go on counting the time the CPU is busy for the task.
LEMMA BusyKept ==
    ASSUME Inv1, Settle, pc["isr"] # "off", pc'["task"] = pc["task"], pc'["isr"] # "off"
    PROVE  lag' = lag
  BY DEF Settle, Rest, IsrOff

\* The sample stays fresh: the critical section keeps the interrupt out, and the
\* counter does not overflow twice in a busy period.
LEMMA DelayFreshStep == Inv1 /\ Inv2 /\ DelayFresh /\ [Next]_vars => DelayFresh'
<1> SUFFICES ASSUME Inv1, Inv2, DelayFresh, [Next]_vars PROVE DelayFresh'
  OBVIOUS
<1> USE DEF Inv1, Inv2, TypeOK
<1>1. CASE Tick
  <2>1. pc' = pc /\ low' = low
    BY <1>1 DEF Tick, locals
  <2>2. SUFFICES ASSUME pc["task"] \in {"rd2", "rd4"} PROVE DelayFresh'
    BY <2>1 DEF DelayFresh
  <2>3. lag' = lag + 1 /\ lag < Latency /\ lag \in Int /\ 0 <= lag
    BY <1>1, <2>2, BusyTick DEF Context
  <2>4. count \in 0 .. Low - 1 /\ low["task"] \in Int
    BY DEF HwTypeOK, CpuTypeOK, Context
  <2>5. CASE count = Low - 1
    <3>1. ovf'
      BY <1>1, <2>5 DEF Tick
    <3>2. pc["task"] # "rd4"
      BY <2>3, <2>4, <2>5, Parameters DEF DelayFresh
    <3>3. QED
      BY <2>1, <2>2, <3>1, <3>2 DEF DelayFresh
  <2>6. CASE count # Low - 1
    <3>1. count' = count + 1 /\ (ovf' <=> ovf)
      BY <1>1, <2>6 DEF Tick
    <3>2. QED
      BY <2>1, <2>3, <2>4, <3>1 DEF DelayFresh
  <2>7. QED
    BY <2>5, <2>6
<1>2. ASSUME NEW c \in Context, ReadCount(c) PROVE DelayFresh'
  BY Parameters, <1>2 DEF ReadCount, DelayFresh, OvfServed, Control, Runs, Goto, Settle,
     Rest, Context, IsrOff, Masked, Reading, CpuTypeOK, HwTypeOK, HistTypeOK, locals,
     drvVars, hwVars
<1>3. ASSUME NEW c \in Context, ReadNoOvf(c) PROVE DelayFresh'
  BY Parameters, <1>3 DEF ReadNoOvf, ReadReturns, Return, DelayFresh, OvfServed,
     Control, Runs, Goto, Settle, Rest, Context, IsrOff, Masked, Reading, CpuTypeOK,
     HwTypeOK, HistTypeOK, locals, drvVars, hwVars
<1>4. ASSUME NEW c \in Context, ReadOvf(c) PROVE DelayFresh'
  BY Parameters, <1>4 DEF ReadOvf, DelayFresh, OvfServed, Control, Runs, Goto, Settle,
     Rest, Context, IsrOff, Masked, Reading, CpuTypeOK, HwTypeOK, HistTypeOK, locals,
     drvVars, hwVars
<1>5. ASSUME NEW c \in Context, ReadAgain(c) PROVE DelayFresh'
  BY Parameters, <1>5 DEF ReadAgain, DelayFresh, OvfServed, Control, Runs, Goto, Settle,
     Rest, Context, IsrOff, Masked, Reading, CpuTypeOK, HwTypeOK, HistTypeOK, locals,
     drvVars, hwVars
<1>6. ASSUME NEW c \in Context, ReadDone(c) PROVE DelayFresh'
  BY Parameters, <1>6 DEF ReadDone, ReadReturns, Return, DelayFresh, OvfServed, Control,
     Runs, Goto, Settle, Rest, Context, IsrOff, Masked, Reading, CpuTypeOK, HwTypeOK,
     HistTypeOK, locals, drvVars, hwVars
<1>7. ASSUME NEW c \in Context, OcmpEpoch(c) PROVE DelayFresh'
  BY Parameters, <1>7 DEF OcmpEpoch, OcmpReturns, Return, Home, DelayFresh, OvfServed,
     Control, Runs, Goto, Settle, Rest, Context, IsrOff, Masked, Reading, CpuTypeOK,
     HwTypeOK, HistTypeOK, locals, drvVars, hwVars
<1>8. ASSUME NEW c \in Context, OcmpSetCompare(c) PROVE DelayFresh'
  BY Parameters, <1>8 DEF OcmpSetCompare, DelayFresh, OvfServed, Control, Runs, Goto,
     Settle, Rest, Context, IsrOff, Masked, Reading, CpuTypeOK, HwTypeOK, HistTypeOK,
     locals, drvVars, hwVars
<1>9. ASSUME NEW c \in Context, OcmpClearFlag(c) PROVE DelayFresh'
  BY Parameters, <1>9 DEF OcmpClearFlag, DelayFresh, OvfServed, Control, Runs, Goto,
     Settle, Rest, Context, IsrOff, Masked, Reading, CpuTypeOK, HwTypeOK, HistTypeOK,
     locals, drvVars, hwVars
<1>10. ASSUME NEW c \in Context, OcmpEnable(c) PROVE DelayFresh'
  BY Parameters, <1>10 DEF OcmpEnable, DelayFresh, OvfServed, Control, Runs, Goto,
     Settle, Rest, Context, IsrOff, Masked, Reading, CpuTypeOK, HwTypeOK, HistTypeOK,
     locals, drvVars, hwVars
<1>11. ASSUME NEW c \in Context, OcmpCheckLate(c) PROVE DelayFresh'
  BY Parameters, <1>11 DEF OcmpCheckLate, OcmpReturns, Return, Home, DelayFresh,
     OvfServed, Control, Runs, Goto, Settle, Rest, Context, IsrOff, Masked, Reading,
     CpuTypeOK, HwTypeOK, HistTypeOK, locals, drvVars, hwVars
<1>12. ASSUME NEW c \in Context, StartAtCheck(c) PROVE DelayFresh'
  BY Parameters, <1>12 DEF StartAtCheck, Return, Home, DelayFresh, OvfServed, Control,
     Runs, Goto, Settle, Rest, Context, IsrOff, Masked, Reading, CpuTypeOK, HwTypeOK,
     HistTypeOK, locals, drvVars, hwVars
<1>13. ASSUME NEW c \in Context, StartAtInsert(c) PROVE DelayFresh'
  BY Parameters, <1>13 DEF StartAtInsert, Return, Home, DelayFresh, OvfServed, Control,
     Runs, Goto, Settle, Rest, Context, IsrOff, Masked, Reading, CpuTypeOK, HwTypeOK,
     HistTypeOK, locals, drvVars, hwVars
<1>14. ASSUME NEW c \in Context, Stop(c) PROVE DelayFresh'
  BY Parameters, <1>14 DEF Stop, Return, Home, DelayFresh, OvfServed, Control, Runs,
     Goto, Settle, Rest, Context, IsrOff, Masked, Reading, CpuTypeOK, HwTypeOK,
     HistTypeOK, locals, drvVars, hwVars
<1>15. CASE IrqEnter
  BY Parameters, <1>15 DEF IrqEnter, DelayFresh, OvfServed, Control, Runs, Goto, Settle,
     Rest, Context, IsrOff, Masked, Reading, CpuTypeOK, HwTypeOK, HistTypeOK, locals,
     drvVars, hwVars
<1>16. CASE IrqCompare
  BY Parameters, <1>16 DEF IrqCompare, DelayFresh, OvfServed, Control, Runs, Goto,
     Settle, Rest, Context, IsrOff, Masked, Reading, CpuTypeOK, HwTypeOK, HistTypeOK,
     locals, drvVars, hwVars
<1>17. CASE IrqOverflow
  BY Parameters, <1>17 DEF IrqOverflow, DelayFresh, OvfServed, Control, Runs, Goto,
     Settle, Rest, Context, IsrOff, Masked, Reading, CpuTypeOK, HwTypeOK, HistTypeOK,
     locals, drvVars, hwVars
<1>18. CASE ChkEmpty
  BY Parameters, <1>18 DEF ChkEmpty, DelayFresh, OvfServed, Control, Runs, Goto, Settle,
     Rest, Context, IsrOff, Masked, Reading, CpuTypeOK, HwTypeOK, HistTypeOK, locals,
     drvVars, hwVars
<1>19. CASE ChkFirst
  BY Parameters, <1>19 DEF ChkFirst, DelayFresh, OvfServed, Control, Runs, Goto, Settle,
     Rest, Context, IsrOff, Masked, Reading, CpuTypeOK, HwTypeOK, HistTypeOK, locals,
     drvVars, hwVars
<1>20. CASE ChkFire
  BY Parameters, <1>20 DEF ChkFire, DelayFresh, OvfServed, Control, Runs, Goto, Settle,
     Rest, Context, IsrOff, Masked, Reading, CpuTypeOK, HwTypeOK, HistTypeOK, locals,
     drvVars, hwVars
<1>21. CASE ChkWait
  BY Parameters, <1>21 DEF ChkWait, DelayFresh, OvfServed, Control, Runs, Goto, Settle,
     Rest, Context, IsrOff, Masked, Reading, CpuTypeOK, HwTypeOK, HistTypeOK, locals,
     drvVars, hwVars
<1>22. CASE IrqExit
  BY Parameters, <1>22 DEF IrqExit, DelayFresh, OvfServed, Control, Runs, Goto, Settle,
     Rest, Context, IsrOff, Masked, Reading, CpuTypeOK, HwTypeOK, HistTypeOK, locals,
     drvVars, hwVars
<1>23. CASE CbReturn
  BY Parameters, <1>23 DEF CbReturn, Return, DelayFresh, OvfServed, Control, Runs, Goto,
     Settle, Rest, Context, IsrOff, Masked, Reading, CpuTypeOK, HwTypeOK, HistTypeOK,
     locals, drvVars, hwVars
<1>24. ASSUME NEW t \in Timers, NEW n \in CbTicks, CbStart(t, n) PROVE DelayFresh'
  BY Parameters, <1>24 DEF CbStart, Begin, DelayFresh, OvfServed, Control, Runs, Goto,
     Settle, Rest, Context, IsrOff, Masked, Reading, CpuTypeOK, HwTypeOK, HistTypeOK,
     locals, drvVars, hwVars
<1>25. ASSUME NEW t \in Timers, CbStop(t) PROVE DelayFresh'
  BY Parameters, <1>25 DEF CbStop, Begin, DelayFresh, OvfServed, Control, Runs, Goto,
     Settle, Rest, Context, IsrOff, Masked, Reading, CpuTypeOK, HwTypeOK, HistTypeOK,
     locals, drvVars, hwVars
<1>26. ASSUME NEW t \in Timers, NEW n \in TaskTicks, TaskStart(t, n) PROVE DelayFresh'
  BY Parameters, <1>26 DEF TaskStart, Begin, DelayFresh, OvfServed, Control, Runs, Goto,
     Settle, Rest, Context, IsrOff, Masked, Reading, CpuTypeOK, HwTypeOK, HistTypeOK,
     locals, drvVars, hwVars
<1>27. ASSUME NEW t \in Timers, NEW n \in -Past .. MaxTicks, TaskStartAt(t, n) PROVE DelayFresh'
  BY Parameters, <1>27 DEF TaskStartAt, Begin, DelayFresh, OvfServed, Control, Runs,
     Goto, Settle, Rest, Context, IsrOff, Masked, Reading, CpuTypeOK, HwTypeOK,
     HistTypeOK, locals, drvVars, hwVars
<1>28. ASSUME NEW t \in Timers, TaskStop(t) PROVE DelayFresh'
  BY Parameters, <1>28 DEF TaskStop, Begin, DelayFresh, OvfServed, Control, Runs, Goto,
     Settle, Rest, Context, IsrOff, Masked, Reading, CpuTypeOK, HwTypeOK, HistTypeOK,
     locals, drvVars, hwVars
<1>29. CASE TaskRead
  BY Parameters, <1>29 DEF TaskRead, Begin, DelayFresh, OvfServed, Control, Runs, Goto,
     Settle, Rest, Context, IsrOff, Masked, Reading, CpuTypeOK, HwTypeOK, HistTypeOK,
     locals, drvVars, hwVars
<1>30. ASSUME NEW n \in TaskTicks, TaskDelay(n) PROVE DelayFresh'
  BY Parameters, <1>30 DEF TaskDelay, Begin, DelayFresh, OvfServed, Control, Runs, Goto,
     Settle, Rest, Context, IsrOff, Masked, Reading, CpuTypeOK, HwTypeOK, HistTypeOK,
     locals, drvVars, hwVars
<1>31. CASE DelayLoop
  BY Parameters, <1>31 DEF DelayLoop, Begin, DelayFresh, OvfServed, Control, Runs, Goto,
     Settle, Rest, Context, IsrOff, Masked, Reading, CpuTypeOK, HwTypeOK, HistTypeOK,
     locals, drvVars, hwVars
<1>32. CASE UNCHANGED vars
  BY Parameters, <1>32 DEF vars, DelayFresh, OvfServed, Control, Runs, Goto, Settle,
     Rest, Context, IsrOff, Masked, Reading, CpuTypeOK, HwTypeOK, HistTypeOK, locals,
     drvVars, hwVars
<1>33. QED
  BY <1>1, <1>2, <1>3, <1>4, <1>5, <1>6, <1>7, <1>8, <1>9, <1>10, <1>11, <1>12, <1>13,
     <1>14, <1>15, <1>16, <1>17, <1>18, <1>19, <1>20, <1>21, <1>22, <1>23, <1>24,
     <1>25, <1>26, <1>27, <1>28, <1>29, <1>30, <1>31, <1>32 DEF Next, Isr, Task,
     Driver

\* hal_timer_delay waits for the tick it was asked for.
LEMMA DelayGoalStep ==
    Inv1 /\ Inv2 /\ SampleFresh /\ Inv5 /\ [Next]_vars
        => DelayGoal' /\ (ret["task"] = "delay" /\ ret'["task"] = "none" => Signed(now, seen["task"]) >= 0)
<1> DEFINE Waited == ret["task"] = "delay" /\ ret'["task"] = "none" => Signed(now, seen["task"]) >= 0
<1> SUFFICES ASSUME Inv1, Inv2, SampleFresh, Inv5, [Next]_vars PROVE DelayGoal' /\ Waited
  OBVIOUS
<1> USE DEF Inv1, Inv2, Inv5, TypeOK
<1>1. CASE Tick
  <2>1. UNCHANGED <<pc, ret, arg, seen>>
    BY <1>1 DEF Tick, locals
  <2>2. SUFFICES ASSUME Delaying
                 PROVE  /\ -MaxTicks <= Signed(now', seen["task"])
                        /\ Signed(now', seen["task"]) <= Latency + lag'
    BY <2>1 DEF DelayGoal, Delaying
  <2>3. lag' = lag + 1 /\ lag < Latency /\ lag \in Int /\ now' = Wrap(now + 1) /\ now \in Word
    BY <1>1, <2>2, BusyTick DEF Delaying, Reading, Context
  <2>4. seen["task"] \in Word
    BY DEF CpuTypeOK, Context
  <2>5. -MaxTicks <= Signed(now, seen["task"]) /\ Signed(now, seen["task"]) <= Latency + lag
    BY <2>2 DEF DelayGoal
  <2>6. /\ -MaxTicks <= Signed(Wrap(now + 1), seen["task"])
        /\ Signed(Wrap(now + 1), seen["task"]) <= Latency + lag + 1
    BY <2>3, <2>4, <2>5, DelayTick
  <2>7. Latency + lag + 1 = Latency + lag'
    BY <2>3, Parameters
  <2>8. QED
    BY <2>3, <2>6, <2>7
<1>2. ASSUME NEW c \in Context, ReadCount(c) PROVE DelayGoal' /\ Waited
  BY <1>2 DEF ReadCount, DelayGoal, Control, Runs, Goto, Settle, Rest, Context, IsrOff,
     Masked, Reading, CpuTypeOK, HistTypeOK, locals, Delaying
<1>3. ASSUME NEW c \in Context, ReadNoOvf(c) PROVE DelayGoal' /\ Waited
  <2>1. CASE c = "task"
    BY <1>3, <2>1, DelayLook DEF ReadNoOvf
  <2>2. CASE c = "isr"
    <3>1. /\ UNCHANGED <<pc["task"], ret["task"], arg["task"], seen["task"], now>>
          /\ pc["isr"] # "off" /\ pc'["isr"] # "off"
      BY <1>3, <2>2 DEF ReadNoOvf, ReadReturns, Return, Goto, Settle, Runs, IsrOff,
         Control, Reading,
         CpuTypeOK, Context
    <3>2. lag' = lag
      BY <1>3, <3>1, BusyKept DEF ReadNoOvf
    <3>3. QED
      BY <3>1, <3>2 DEF DelayGoal, Delaying
  <2>3. QED
    BY <2>1, <2>2 DEF Context
<1>4. ASSUME NEW c \in Context, ReadOvf(c) PROVE DelayGoal' /\ Waited
  BY <1>4 DEF ReadOvf, DelayGoal, Control, Runs, Goto, Settle, Rest, Context, IsrOff,
     Masked, Reading, CpuTypeOK, HistTypeOK, locals, Delaying
<1>5. ASSUME NEW c \in Context, ReadAgain(c) PROVE DelayGoal' /\ Waited
  BY <1>5 DEF ReadAgain, DelayGoal, Control, Runs, Goto, Settle, Rest, Context, IsrOff,
     Masked, Reading, CpuTypeOK, HistTypeOK, locals, Delaying
<1>6. ASSUME NEW c \in Context, ReadDone(c) PROVE DelayGoal' /\ Waited
  <2>1. CASE c = "task"
    BY <1>6, <2>1, DelayLook DEF ReadDone
  <2>2. CASE c = "isr"
    <3>1. /\ UNCHANGED <<pc["task"], ret["task"], arg["task"], seen["task"], now>>
          /\ pc["isr"] # "off" /\ pc'["isr"] # "off"
      BY <1>6, <2>2 DEF ReadDone, ReadReturns, Return, Goto, Settle, Runs, IsrOff,
         Control, Reading,
         CpuTypeOK, Context
    <3>2. lag' = lag
      BY <1>6, <3>1, BusyKept DEF ReadDone
    <3>3. QED
      BY <3>1, <3>2 DEF DelayGoal, Delaying
  <2>3. QED
    BY <2>1, <2>2 DEF Context
<1>7. ASSUME NEW c \in Context, OcmpEpoch(c) PROVE DelayGoal' /\ Waited
  BY <1>7 DEF OcmpEpoch, OcmpReturns, Return, Home, DelayGoal, Control, Runs, Goto,
     Settle, Rest, Context, IsrOff, Masked, Reading, CpuTypeOK, HistTypeOK, locals,
     Delaying
<1>8. ASSUME NEW c \in Context, OcmpSetCompare(c) PROVE DelayGoal' /\ Waited
  BY <1>8 DEF OcmpSetCompare, DelayGoal, Control, Runs, Goto, Settle, Rest, Context,
     IsrOff, Masked, Reading, CpuTypeOK, HistTypeOK, locals, Delaying
<1>9. ASSUME NEW c \in Context, OcmpClearFlag(c) PROVE DelayGoal' /\ Waited
  BY <1>9 DEF OcmpClearFlag, DelayGoal, Control, Runs, Goto, Settle, Rest, Context,
     IsrOff, Masked, Reading, CpuTypeOK, HistTypeOK, locals, Delaying
<1>10. ASSUME NEW c \in Context, OcmpEnable(c) PROVE DelayGoal' /\ Waited
  BY <1>10 DEF OcmpEnable, DelayGoal, Control, Runs, Goto, Settle, Rest, Context,
     IsrOff, Masked, Reading, CpuTypeOK, HistTypeOK, locals, Delaying
<1>11. ASSUME NEW c \in Context, OcmpCheckLate(c) PROVE DelayGoal' /\ Waited
  BY <1>11 DEF OcmpCheckLate, OcmpReturns, Return, Home, DelayGoal, Control, Runs, Goto,
     Settle, Rest, Context, IsrOff, Masked, Reading, CpuTypeOK, HistTypeOK, locals,
     Delaying
<1>12. ASSUME NEW c \in Context, StartAtCheck(c) PROVE DelayGoal' /\ Waited
  BY <1>12 DEF StartAtCheck, Return, Home, DelayGoal, Control, Runs, Goto, Settle, Rest,
     Context, IsrOff, Masked, Reading, CpuTypeOK, HistTypeOK, locals, Delaying
<1>13. ASSUME NEW c \in Context, StartAtInsert(c) PROVE DelayGoal' /\ Waited
  BY <1>13 DEF StartAtInsert, Return, Home, DelayGoal, Control, Runs, Goto, Settle,
     Rest, Context, IsrOff, Masked, Reading, CpuTypeOK, HistTypeOK, locals, Delaying
<1>14. ASSUME NEW c \in Context, Stop(c) PROVE DelayGoal' /\ Waited
  BY <1>14 DEF Stop, Return, Home, DelayGoal, Control, Runs, Goto, Settle, Rest,
     Context, IsrOff, Masked, Reading, CpuTypeOK, HistTypeOK, locals, Delaying
<1>15. CASE IrqEnter
  BY <1>15 DEF IrqEnter, DelayGoal, Control, Runs, Goto, Settle, Rest, Context, IsrOff,
     Masked, Reading, CpuTypeOK, HistTypeOK, locals, Delaying
<1>16. CASE IrqCompare
  BY <1>16 DEF IrqCompare, DelayGoal, Control, Runs, Goto, Settle, Rest, Context,
     IsrOff, Masked, Reading, CpuTypeOK, HistTypeOK, locals, Delaying
<1>17. CASE IrqOverflow
  BY <1>17 DEF IrqOverflow, DelayGoal, Control, Runs, Goto, Settle, Rest, Context,
     IsrOff, Masked, Reading, CpuTypeOK, HistTypeOK, locals, Delaying
<1>18. CASE ChkEmpty
  BY <1>18 DEF ChkEmpty, DelayGoal, Control, Runs, Goto, Settle, Rest, Context, IsrOff,
     Masked, Reading, CpuTypeOK, HistTypeOK, locals, Delaying
<1>19. CASE ChkFirst
  BY <1>19 DEF ChkFirst, DelayGoal, Control, Runs, Goto, Settle, Rest, Context, IsrOff,
     Masked, Reading, CpuTypeOK, HistTypeOK, locals, Delaying
<1>20. CASE ChkFire
  BY <1>20 DEF ChkFire, DelayGoal, Control, Runs, Goto, Settle, Rest, Context, IsrOff,
     Masked, Reading, CpuTypeOK, HistTypeOK, locals, Delaying
<1>21. CASE ChkWait
  BY <1>21 DEF ChkWait, DelayGoal, Control, Runs, Goto, Settle, Rest, Context, IsrOff,
     Masked, Reading, CpuTypeOK, HistTypeOK, locals, Delaying
<1>22. CASE IrqExit
  BY <1>22 DEF IrqExit, DelayGoal, Control, Runs, Goto, Settle, Rest, Context, IsrOff,
     Masked, Reading, CpuTypeOK, HistTypeOK, locals, Delaying
<1>23. CASE CbReturn
  BY <1>23 DEF CbReturn, Return, DelayGoal, Control, Runs, Goto, Settle, Rest, Context,
     IsrOff, Masked, Reading, CpuTypeOK, HistTypeOK, locals, Delaying
<1>24. ASSUME NEW t \in Timers, NEW n \in CbTicks, CbStart(t, n) PROVE DelayGoal' /\ Waited
  BY <1>24 DEF CbStart, Begin, DelayGoal, Control, Runs, Goto, Settle, Rest, Context,
     IsrOff, Masked, Reading, CpuTypeOK, HistTypeOK, locals, Delaying
<1>25. ASSUME NEW t \in Timers, CbStop(t) PROVE DelayGoal' /\ Waited
  BY <1>25 DEF CbStop, Begin, DelayGoal, Control, Runs, Goto, Settle, Rest, Context,
     IsrOff, Masked, Reading, CpuTypeOK, HistTypeOK, locals, Delaying
<1>26. ASSUME NEW t \in Timers, NEW n \in TaskTicks, TaskStart(t, n) PROVE DelayGoal' /\ Waited
  BY <1>26 DEF TaskStart, Begin, DelayGoal, Control, Runs, Goto, Settle, Rest, Context,
     IsrOff, Masked, Reading, CpuTypeOK, HistTypeOK, locals, Delaying
<1>27. ASSUME NEW t \in Timers, NEW n \in -Past .. MaxTicks, TaskStartAt(t, n) PROVE DelayGoal' /\ Waited
  BY <1>27 DEF TaskStartAt, Begin, DelayGoal, Control, Runs, Goto, Settle, Rest,
     Context, IsrOff, Masked, Reading, CpuTypeOK, HistTypeOK, locals, Delaying
<1>28. ASSUME NEW t \in Timers, TaskStop(t) PROVE DelayGoal' /\ Waited
  BY <1>28 DEF TaskStop, Begin, DelayGoal, Control, Runs, Goto, Settle, Rest, Context,
     IsrOff, Masked, Reading, CpuTypeOK, HistTypeOK, locals, Delaying
<1>29. CASE TaskRead
  BY <1>29 DEF TaskRead, Begin, DelayGoal, Control, Runs, Goto, Settle, Rest, Context,
     IsrOff, Masked, Reading, CpuTypeOK, HistTypeOK, locals, Delaying
<1>30. ASSUME NEW n \in TaskTicks, TaskDelay(n) PROVE DelayGoal' /\ Waited
  BY <1>30 DEF TaskDelay, Begin, DelayGoal, Control, Runs, Goto, Settle, Rest, Context,
     IsrOff, Masked, Reading, CpuTypeOK, HistTypeOK, locals, Delaying
<1>31. CASE DelayLoop
  BY <1>31 DEF DelayLoop, Begin, DelayGoal, Control, Runs, Goto, Settle, Rest, Context,
     IsrOff, Masked, Reading, CpuTypeOK, HistTypeOK, locals, Delaying
<1>32. CASE UNCHANGED vars
  BY <1>32 DEF vars, DelayGoal, Control, Runs, Goto, Settle, Rest, Context, IsrOff,
     Masked, Reading, CpuTypeOK, HistTypeOK, locals, Delaying
<1>33. QED
  BY <1>1, <1>2, <1>3, <1>4, <1>5, <1>6, <1>7, <1>8, <1>9, <1>10, <1>11, <1>12, <1>13,
     <1>14, <1>15, <1>16, <1>17, <1>18, <1>19, <1>20, <1>21, <1>22, <1>23, <1>24,
     <1>25, <1>26, <1>27, <1>28, <1>29, <1>30, <1>31, <1>32 DEF Next, Isr, Task,
     Driver

\* hal_timer_delay does not return before the ticks asked for have passed,
\* however long the interrupt keeps the task from its loop and wherever the
\* 32-bit time wraps.
THEOREM TimerDelayWaits == Spec => DelayWaits
<1>1. Init => Inv1 /\ Inv2 /\ SampleFresh /\ Inv5
  BY Init1, Init2, Init3, Init5 DEF Inv3
<1>2. Inv1 /\ Inv2 /\ SampleFresh /\ Inv5 /\ [Next]_vars => Inv1' /\ Inv2' /\ SampleFresh' /\ Inv5'
  BY Step1, Step2, SampleFreshStep, DelayFreshStep, DelayGoalStep DEF Inv5
<1>3. Inv1 /\ Inv2 /\ SampleFresh /\ Inv5 /\ [Next]_vars
        => [ret["task"] = "delay" /\ ret'["task"] = "none" => Signed(now, seen["task"]) >= 0]_vars
  BY DelayGoalStep
<1>4. QED
  BY <1>1, <1>2, <1>3, PTL DEF Spec, DelayWaits

=============================================================================
