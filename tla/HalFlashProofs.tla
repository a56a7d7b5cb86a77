---------------------------- MODULE HalFlashProofs ----------------------------
(***************************************************************************)
(* What the flash and the watchdog promise, for every geometry of the      *)
(* flash, every set of tasks and every time asked for.                     *)
(***************************************************************************)
EXTENDS HalFlash, TLAPS

-----------------------------------------------------------------------------
(* The watchdog *)

\* The periods, in clocks.
LEMMA ClkValues ==
    /\ Clk(1) = 8 /\ Clk(2) = 16 /\ Clk(3) = 32 /\ Clk(4) = 64 /\ Clk(5) = 128 /\ Clk(6) = 256
    /\ Clk(7) = 512 /\ Clk(8) = 1024 /\ Clk(9) = 2048 /\ Clk(10) = 4096 /\ Clk(11) = 8192
    /\ Clk(12) = 16384
<1>1. 2^(1-1) = 1 /\ 2^(2-1) = 2 /\ 2^(3-1) = 4 /\ 2^(4-1) = 8 /\ 2^(5-1) = 16 /\ 2^(6-1) = 32
  OBVIOUS
<1>2. 2^(7-1) = 64 /\ 2^(8-1) = 128 /\ 2^(9-1) = 256 /\ 2^(10-1) = 512 /\ 2^(11-1) = 1024 /\ 2^(12-1) = 2048
  OBVIOUS
<1>3. QED
  BY <1>1, <1>2 DEF Clk

\* Each is twice the one before, and the first is 8.
LEMMA ClkType ==
    ASSUME NEW q \in 1 .. 12
    PROVE  /\ Clk(q) \in Nat /\ Clk(q) >= 8
           /\ q > 1 => Clk(q - 1) \in Nat /\ Clk(q) = 2 * Clk(q - 1)
<1>1. CASE q \in 1 .. 6
  <2>1. q = 1 \/ q = 2 \/ q = 3 \/ q = 4 \/ q = 5 \/ q = 6
    BY <1>1
  <2>2. QED
    BY <2>1, ClkValues
<1>2. CASE q \in 7 .. 12
  <2>1. q = 7 \/ q = 8 \/ q = 9 \/ q = 10 \/ q = 11 \/ q = 12
    BY <1>2
  <2>2. QED
    BY <2>1, ClkValues
<1>3. QED
  BY <1>1, <1>2

\* A longer period has more clocks.
LEMMA ClkGrows ==
    ASSUME NEW q \in 1 .. 12, NEW r \in 1 .. 12, r < q
    PROVE  Clk(r) <= Clk(q - 1)
<1> DEFINE Values(x) == x = 1 \/ x = 2 \/ x = 3 \/ x = 4 \/ x = 5 \/ x = 6 \/ x = 7 \/ x = 8 \/ x = 9
                        \/ x = 10 \/ x = 11 \/ x = 12
<1>1. Values(q) /\ Values(r)
  OBVIOUS
<1>2. QED
  BY <1>1, ClkValues

\* The loop of hal_watchdog_init ends at the shortest period that is enough.
LEMMA PeriodShortest ==
    ASSUME NEW clocks \in Nat, Period(clocks) # WDT_PERIOD_NONE
    PROVE  /\ Period(clocks) \in 1 .. 12 /\ clocks <= Clk(Period(clocks))
           /\ Period(clocks) > 1 => Clk(Period(clocks) - 1) < clocks
<1> DEFINE enough == {q \in 1 .. 12 : clocks <= Clk(q)}
           least == CHOOSE q \in enough : \A r \in enough : q <= r
<1>1. enough # {} /\ Period(clocks) = least
  BY DEF Period, WDT_PERIOD_16384CLK
<1>2. clocks <= 16384
  <2>1. PICK q \in 1 .. 12 : clocks <= Clk(q)
    BY <1>1
  <2>2. Clk(q) <= 16384 /\ Clk(q) \in Nat
    <3>1. q = 12 \/ (12 \in 1 .. 12 /\ q < 12)
      OBVIOUS
    <3>2. q < 12 => Clk(q) <= Clk(12 - 1)
      BY ClkGrows
    <3>3. 12 - 1 = 11
      OBVIOUS
    <3>4. QED
      BY <3>1, <3>2, <3>3, ClkValues, ClkType
  <2>3. QED
    BY <2>1, <2>2
<1>3. ASSUME NEW q \in 1 .. 12, clocks <= Clk(q), q > 1 => Clk(q - 1) < clocks
      PROVE  q \in enough /\ \A r \in enough : q <= r
  <2>1. ASSUME NEW r \in enough, r < q PROVE FALSE
    <3>1. r \in 1 .. 12 /\ clocks <= Clk(r) /\ q > 1 /\ q - 1 \in 1 .. 12
      BY <2>1
    <3>2. Clk(r) <= Clk(q - 1) /\ Clk(r) \in Nat /\ Clk(q - 1) \in Nat
      BY <2>1, <3>1, ClkGrows, ClkType
    <3>3. QED
      BY <1>3, <3>1, <3>2
  <2>2. QED
    BY <1>3, <2>1
<1>4. \E q \in 1 .. 12 : clocks <= Clk(q) /\ (q > 1 => Clk(q - 1) < clocks)
  <2>1. CASE clocks <= 8
    BY <2>1, ClkValues
  <2>2. CASE clocks > 8 /\ clocks <= 16
    BY <2>2, ClkValues, 2 - 1 = 1
  <2>3. CASE clocks > 16 /\ clocks <= 32
    BY <2>3, ClkValues, 3 - 1 = 2
  <2>4. CASE clocks > 32 /\ clocks <= 64
    BY <2>4, ClkValues, 4 - 1 = 3
  <2>5. CASE clocks > 64 /\ clocks <= 128
    BY <2>5, ClkValues, 5 - 1 = 4
  <2>6. CASE clocks > 128 /\ clocks <= 256
    BY <2>6, ClkValues, 6 - 1 = 5
  <2>7. CASE clocks > 256 /\ clocks <= 512
    BY <2>7, ClkValues, 7 - 1 = 6
  <2>8. CASE clocks > 512 /\ clocks <= 1024
    BY <2>8, ClkValues, 8 - 1 = 7
  <2>9. CASE clocks > 1024 /\ clocks <= 2048
    BY <2>9, ClkValues, 9 - 1 = 8
  <2>10. CASE clocks > 2048 /\ clocks <= 4096
    BY <2>10, ClkValues, 10 - 1 = 9
  <2>11. CASE clocks > 4096 /\ clocks <= 8192
    BY <2>11, ClkValues, 11 - 1 = 10
  <2>12. CASE clocks > 8192
    BY <2>12, <1>2, ClkValues, 12 - 1 = 11
  <2>13. QED
    BY <2>1, <2>2, <2>3, <2>4, <2>5, <2>6, <2>7, <2>8, <2>9, <2>10, <2>11, <2>12
<1>5. PICK q \in 1 .. 12 : clocks <= Clk(q) /\ (q > 1 => Clk(q - 1) < clocks)
  BY <1>4
<1>6. q \in enough /\ \A r \in enough : q <= r
  BY <1>3, <1>5
<1>7. least \in enough /\ \A r \in enough : least <= r
  BY <1>6
<1>8. least = q
  BY <1>6, <1>7
<1>9. QED
  BY <1>1, <1>5, <1>8

\* The period the loop finds gives the time that was asked for, and less than
\* four times it.
LEMMA PeriodGivesTime ==
    ASSUME NEW msecs \in Nat, msecs < 2 ^ 28, Period(Clocks(msecs)) # WDT_PERIOD_NONE
    PROVE  LET q == Period(Clocks(msecs))
           IN  /\ msecs <= (Clk(q) * 1000) \div 16
               /\ q > 1 => (Clk(q) * 1000) \div 16 <= 4 * msecs
<1> DEFINE q == Period(Clocks(msecs))
           c == (16 * msecs) \div 1000
<1>1. Clocks(msecs) = c * 2 /\ c \in Nat
  <2>1. 2 ^ 28 = 268435456
    OBVIOUS
  <2>2. msecs % 2 ^ 28 = msecs
    BY <2>1
  <2>3. QED
    BY <2>2 DEF Clocks
<1>2. Clocks(msecs) \in Nat
  BY <1>1
<1>3. /\ q \in 1 .. 12 /\ c * 2 <= Clk(q) /\ Clk(q) \in Nat /\ Clk(q) >= 8
      /\ q > 1 => Clk(q - 1) \in Nat /\ Clk(q) = 2 * Clk(q - 1) /\ Clk(q - 1) < c * 2
  <2>1. q \in 1 .. 12 /\ c * 2 <= Clk(q) /\ (q > 1 => Clk(q - 1) < c * 2)
    BY <1>1, <1>2, PeriodShortest
  <2>2. QED
    BY <2>1, ClkType
<1> HIDE DEF q
<1>4. msecs <= (Clk(q) * 1000) \div 16
  BY <1>3
<1>5. ASSUME q > 1 PROVE (Clk(q) * 1000) \div 16 <= 4 * msecs
  BY <1>3, <1>5
<1>6. QED
  BY <1>4, <1>5 DEF q

\* The period belongs to the time, and so does the WDT's once it is enabled.
WdtInv ==
    /\ asked \in Msecs \cup {-1}
    /\ g_wdt_config \in [timeout_period : 0 .. 12, enable : BOOLEAN]
    /\ wdt \in [on : BOOLEAN, period : 0 .. 12]
    /\ asked # -1 =>
        /\ g_wdt_config.timeout_period = Period(Clocks(asked))
        /\ Period(Clocks(asked)) # WDT_PERIOD_NONE
        /\ wdt.on => wdt.period = Period(Clocks(asked))

LEMMA WdtInvInit == WdtInit => WdtInv
  BY DEF WdtInit, WdtInv, Off, WDT_PERIOD_NONE, WDT_PERIOD_16384CLK

\* What the loop computes is a period or none.
LEMMA PeriodType == ASSUME NEW msecs \in Nat PROVE Period(Clocks(msecs)) \in 0 .. 12
<1>1. 2 ^ 28 = 268435456
  OBVIOUS
<1>2. Clocks(msecs) \in Nat
  BY <1>1 DEF Clocks
<1>3. QED
  BY <1>2, PeriodShortest DEF WDT_PERIOD_NONE

\* hal_watchdog_init stops the WDT when it accepts a time, and forgets the
\* time when it refuses one; hal_watchdog_enable starts the WDT with it.
LEMMA WdtInvStep ==
    ASSUME WdtInv, WdtNext \/ WdtReset \/ UNCHANGED wdtVars
    PROVE  WdtInv'
<1>1. ASSUME NEW msecs \in Msecs, hal_watchdog_init(msecs) PROVE WdtInv'
  <2> DEFINE period == Period(Clocks(msecs))
  <2>1. msecs \in Nat /\ msecs # -1 /\ period \in 0 .. 12
    BY WatchdogAssumption, PeriodType
  <2> HIDE DEF period
  <2>2. CASE period = WDT_PERIOD_NONE
    <3>1. /\ g_wdt_config' = [timeout_period |-> 12, enable |-> FALSE]
          /\ asked' = -1 /\ wdt' = wdt
      BY <1>1, <2>2 DEF hal_watchdog_init, period, WDT_PERIOD_16384CLK
    <3>2. QED
      BY <3>1 DEF WdtInv
  <2>3. CASE period # WDT_PERIOD_NONE
    <3> DEFINE cfg == [timeout_period |-> period, enable |-> FALSE]
    <3>1. g_wdt_config' = cfg /\ wdt_set_config(cfg) /\ asked' = msecs
      BY <1>1, <2>3 DEF hal_watchdog_init, period
    <3>2. wdt' = [on |-> FALSE, period |-> wdt.period]
      BY <3>1, <2>3 DEF wdt_set_config
    <3>3. QED
      BY <2>1, <2>3, <3>1, <3>2 DEF WdtInv, period
  <2>4. QED
    BY <2>2, <2>3
<1>2. CASE hal_watchdog_enable
  <2>1. /\ g_wdt_config' = [g_wdt_config EXCEPT !.enable = TRUE] /\ asked' = asked
        /\ wdt' = IF g_wdt_config'.timeout_period = WDT_PERIOD_NONE THEN wdt
                  ELSE [on |-> g_wdt_config'.enable,
                        period |-> IF g_wdt_config'.enable THEN g_wdt_config'.timeout_period ELSE wdt.period]
    BY <1>2 DEF hal_watchdog_enable, wdt_set_config
  <2>2. /\ g_wdt_config'.timeout_period = g_wdt_config.timeout_period /\ g_wdt_config'.enable = TRUE
        /\ g_wdt_config' \in [timeout_period : 0 .. 12, enable : BOOLEAN]
    BY <2>1 DEF WdtInv
  <2>3. QED
    BY <2>1, <2>2 DEF WdtInv
<1>3. CASE WdtReset
  BY <1>3 DEF WdtReset, WdtInv, Off, WDT_PERIOD_NONE, WDT_PERIOD_16384CLK
<1>4. CASE UNCHANGED wdtVars
  BY <1>4 DEF wdtVars, WdtInv
<1>5. QED
  BY <1>1, <1>2, <1>3, <1>4 DEF WdtNext

\* Whatever sequence of times is asked for, accepted or refused, with resets in
\* between, the watchdog that runs gives the program the accepted time.
THEOREM FlashWatchdogAsAsked == Spec => []WatchdogAsAsked
<1>1. Init => WdtInv
  BY WdtInvInit DEF Init
<1>2. WdtInv /\ [Next]_vars => WdtInv'
  <2> SUFFICES ASSUME WdtInv, [Next]_vars PROVE WdtInv'
    OBVIOUS
  <2>1. WdtNext \/ WdtReset \/ UNCHANGED wdtVars
    BY DEF Next, vars, NvmDone, PowerLost, WdtExpires, Reset, Watchdog
  <2>2. QED
    BY <2>1, WdtInvStep
<1>3. WdtInv => WatchdogAsAsked
  <2> SUFFICES ASSUME WdtInv, wdt.on, asked >= 0, asked < 2 ^ 28
               PROVE  /\ asked <= (Clk(wdt.period) * 1000) \div 16
                      /\ wdt.period > 1 => (Clk(wdt.period) * 1000) \div 16 <= 4 * asked
    BY DEF WatchdogAsAsked
  <2>1. asked \in Nat /\ asked # -1
    BY WatchdogAssumption DEF WdtInv
  <2>2. wdt.period = Period(Clocks(asked)) /\ Period(Clocks(asked)) # WDT_PERIOD_NONE
    BY <2>1 DEF WdtInv
  <2>3. QED
    BY <2>1, <2>2, PeriodGivesTime
<1>4. QED
  BY <1>1, <1>2, <1>3, PTL DEF Spec

-----------------------------------------------------------------------------
(* The flash *)

\* Where pages and sectors begin.
PageBases == {PageSize * k : k \in 0 .. PagesPerRow * RowsPerSector * Sectors - 1}
SectorBases == {SectorSize * k : k \in 0 .. Sectors - 1}

PageData == [0 .. PageSize - 1 -> SUBSET Bits]

TaskType ==
    [at : {"idle", "page", "write", "clear", "store", "row", "addr", "erase", "erasing"}, from : Nat, len : Nat,
     src : SUBSET Bits, addr : Nat, buf : PageData, i : Nat]

\* A task in samd21_flash_write: addr is where the write begins, or a page's
\* beginning; a page that has been read has bytes to be written.
Writing(f) ==
    /\ f.from \in Addr /\ f.len > 0 /\ f.from + f.len - 1 \in Addr
    /\ f.from <= f.addr + PageSize - 1
    /\ f.at = "page" => f.addr = f.from \/ (f.addr >= f.from /\ \E b \in PageBases : f.addr = b + PageSize)
    /\ f.at # "page" => f.addr \in PageBases /\ Page(f.addr) \cap Range(f) # {}
    /\ f.at = "store" => f.i \in 0 .. PageSize - 1

\* A task in samd21_flash_erase_sector: addr is the beginning of a row.
Erasing(f) ==
    /\ f.from \in SectorBases /\ f.len = SectorSize /\ f.src = {}
    /\ \E k \in 0 .. RowsPerSector : f.addr = f.from + RowSize * k
    /\ f.at # "row" => f.addr \in Range(f)

IsWriter(f) == f.at \in {"page", "write", "clear", "store"}
IsEraser(f) == f.at \in {"row", "addr", "erase", "erasing"}

\* The controller programs a page, or erases.
FlashTypeOK ==
    /\ mem \in [Addr -> SUBSET Bits] /\ low \in [Addr -> SUBSET Bits] /\ high \in [Addr -> SUBSET Bits]
    /\ pgbuf \in PageData /\ clash \in BOOLEAN /\ ADDR \in Nat
    /\ nvm \in [op : {"ready", "program", "erase"}, base : Nat, data : PageData]
    /\ nvm.op = "ready" => nvm = Ready
    /\ nvm.op = "program" => nvm.base \in PageBases
    /\ fp \in [FlashTasks -> TaskType]
    /\ \A t \in FlashTasks :
        /\ IsWriter(fp[t]) => Writing(fp[t])
        /\ IsEraser(fp[t]) => Erasing(fp[t])

\* What follows holds until two tasks clash.

\* The tasks are at different bytes, and one of them at most is about to give a
\* command or fills the page buffer, with the controller ready until it has
\* given it.
Apart ==
    \A t, u \in FlashTasks : t # u =>
        /\ fp[t].at # "idle" /\ fp[u].at # "idle" => Range(fp[t]) \cap Range(fp[u]) = {}
        /\ ~(fp[t].at \in Commanding /\ fp[u].at \in Commanding)

StillReady == \A t \in FlashTasks : fp[t].at \in Commanding => nvm_is_ready

\* The row that is erased is that of a task that waits.
RowAwaited == nvm.op = "erase" => \E t \in FlashTasks : fp[t].at = "erasing" /\ fp[t].addr = nvm.base

\* FlashKept, and the flash in the meantime.
Bounds == \A a \in Addr : mem[a] \subseteq high[a] /\ low[a] \subseteq Settled[a] /\ Settled[a] \subseteq high[a]

\* A write may leave its bits; of its bytes, the ones before addr have them.
WriteDone(f) ==
    IsWriter(f) =>
        \A a \in Range(f) : f.src \subseteq high[a] /\ (a < f.addr => Settled[a] = f.src)

\* The page that has been read: its bytes to be written are still erased,
\* the others still have the bits they had.
PageRead(f) ==
    f.at \in {"write", "clear", "store"} =>
        \A a \in Page(f.addr) :
            IF a \in Range(f) THEN f.buf[a - f.addr] = f.src /\ Settled[a] = {}
            ELSE f.buf[a - f.addr] \subseteq mem[a]

\* The stores so far.
Stored(f) == f.at = "store" => \A i \in 0 .. f.i - 1 : pgbuf[i] = f.buf[i]

\* An erasure asks for nothing of its bytes; the rows before addr are erased,
\* and the row the task waits for will be.
EraseDone(f) ==
    IsEraser(f) =>
        \A a \in Range(f) :
            /\ low[a] = {}
            /\ a < f.addr \/ (f.at = "erasing" /\ a \in Row(f.addr)) => Settled[a] = {}

\* ADDR is what the task has stored there.
Aimed(f) == f.at = "erase" => ADDR = f.addr

TaskOK(f) == WriteDone(f) /\ PageRead(f) /\ Stored(f) /\ EraseDone(f) /\ Aimed(f)

Unspoilt == Apart /\ StillReady /\ RowAwaited /\ Bounds /\ \A t \in FlashTasks : TaskOK(fp[t])

FlashInv == FlashTypeOK /\ (~clash => Unspoilt)

-----------------------------------------------------------------------------
(* Geometry *)

\* The sizes as numbers.
LEMMA Sizes ==
    /\ PageSize \in Nat /\ PageSize > 0 /\ RowSize \in Nat /\ RowSize > 0
    /\ SectorSize \in Nat /\ SectorSize > 0 /\ SectorSize = RowSize * RowsPerSector
    /\ RowsPerSector \in Nat /\ RowsPerSector > 0 /\ Sectors \in Nat /\ Sectors > 0
    /\ PagesPerRow \in Nat /\ PagesPerRow > 0
    /\ Sectors * SectorSize = PageSize * (PagesPerRow * RowsPerSector * Sectors)
    /\ SectorSize = PageSize * (PagesPerRow * RowsPerSector)
<1>1. /\ PageSize \in Nat /\ PageSize > 0 /\ PagesPerRow \in Nat /\ PagesPerRow > 0
      /\ RowsPerSector \in Nat /\ RowsPerSector > 0 /\ Sectors \in Nat /\ Sectors > 0
  BY FlashAssumption
<1>2. \A m, n \in Nat : m > 0 /\ n > 0 => m * n \in Nat /\ m * n > 0
  OBVIOUS
<1>3. RowSize \in Nat /\ RowSize > 0
  BY <1>1, <1>2 DEF RowSize
<1>4. SectorSize \in Nat /\ SectorSize > 0
  BY <1>1, <1>2, <1>3 DEF SectorSize
<1>5. /\ Sectors * SectorSize = PageSize * (PagesPerRow * RowsPerSector * Sectors)
      /\ SectorSize = PageSize * (PagesPerRow * RowsPerSector)
  BY <1>1 DEF SectorSize, RowSize
<1>6. QED
  BY <1>1, <1>3, <1>4, <1>5 DEF SectorSize

\* A page whose beginning is below a page boundary ends below it.
LEMMA Aligned ==
    ASSUME NEW P \in Nat, P > 0, NEW j \in Int, NEW k \in Int
    PROVE  P * j < P * k + P => P * j <= P * k
  OBVIOUS

\* A page that begins in the flash is in it.
LEMMA PageIn ==
    ASSUME NEW b \in PageBases
    PROVE  b \in Nat /\ Page(b) \subseteq Addr
<1> DEFINE N == PagesPerRow * RowsPerSector * Sectors
<1>1. PICK k \in 0 .. N - 1 : b = PageSize * k
  BY DEF PageBases
<1>2. N \in Nat
  BY Sizes
<1> HIDE DEF N
<1>3. b \in Nat
  BY <1>1, <1>2, Sizes
<1>4. b + PageSize <= PageSize * N
  <2>1. k + 1 <= N /\ k \in Nat
    BY <1>1, <1>2
  <2>2. PageSize * (k + 1) <= PageSize * N
    BY <2>1, <1>2, Sizes
  <2>3. QED
    BY <1>1, <2>1, <2>2, Sizes
<1>5. Addr = 0 .. PageSize * N - 1
  BY Sizes DEF Addr, N
<1>6. QED
  BY <1>2, <1>3, <1>4, <1>5, Sizes DEF Page

\* A sector is in the flash.
LEMMA SectorIn ==
    ASSUME NEW s \in SectorBases
    PROVE  s \in Nat /\ s .. s + SectorSize - 1 \subseteq Addr
<1>1. PICK k \in 0 .. Sectors - 1 : s = SectorSize * k
  BY DEF SectorBases
<1>2. k \in Nat /\ k + 1 <= Sectors
  BY <1>1, Sizes
<1>3. SectorSize * (k + 1) <= Sectors * SectorSize
  BY <1>2, Sizes
<1>4. QED
  BY <1>1, <1>2, <1>3, Sizes DEF Addr

\* A page that has a byte of a sector is in the sector.
LEMMA SectorPage ==
    ASSUME NEW b \in PageBases, NEW s \in SectorBases,
           NEW x \in Page(b), x \in s .. s + SectorSize - 1
    PROVE  Page(b) \subseteq s .. s + SectorSize - 1
<1> DEFINE M == PagesPerRow * RowsPerSector
<1>1. PICK k \in Nat : b = PageSize * k
  BY Sizes DEF PageBases
<1>2. PICK m \in Nat : s = SectorSize * m
  <2>1. PICK m \in 0 .. Sectors - 1 : s = SectorSize * m
    BY DEF SectorBases
  <2>2. m \in Nat
    OBVIOUS
  <2>3. QED
    BY <2>1, <2>2
<1>3. M \in Nat /\ SectorSize = PageSize * M
  BY Sizes
<1> HIDE DEF M
<1>4. s = PageSize * (M * m) /\ s + SectorSize = PageSize * (M * m + M) /\ M * m \in Nat
  BY <1>2, <1>3, Sizes
<1>5. s <= b
  <2>1. PageSize * (M * m) < PageSize * k + PageSize
    BY <1>1, <1>4, Sizes DEF Page
  <2>2. QED
    BY <2>1, <1>1, <1>4, Sizes, Aligned
<1>6. b + PageSize <= s + SectorSize
  <2>1. PageSize * k < PageSize * (M * m + M)
    BY <1>1, <1>3, <1>4, Sizes DEF Page
  <2>2. k < M * m + M
    BY <2>1, <1>3, <1>4, Sizes
  <2>3. PageSize * (k + 1) <= PageSize * (M * m + M)
    BY <2>2, <1>3, <1>4, Sizes
  <2>4. QED
    BY <2>3, <1>1, <1>4, Sizes
<1>7. QED
  BY <1>1, <1>2, <1>5, <1>6, Sizes DEF Page

\* The beginning of a sector, as samd21_flash_erase_sector checks it.
LEMMA SectorBase ==
    ASSUME NEW a \in Addr, a % SectorSize = 0
    PROVE  a \in SectorBases
<1>1. a \in Nat /\ a < Sectors * SectorSize
  BY Sizes DEF Addr
<1>2. a = SectorSize * (a \div SectorSize) /\ a \div SectorSize \in Nat
  BY <1>1, Sizes
<1>3. a \div SectorSize < Sectors
  BY <1>1, <1>2, Sizes
<1>4. a \div SectorSize \in 0 .. Sectors - 1
  BY <1>2, <1>3, Sizes
<1>5. QED
  BY <1>2, <1>4 DEF SectorBases

\* A row of the sector being erased is in it.
LEMMA RowIn ==
    ASSUME NEW f, Erasing(f), f.addr \in Range(f)
    PROVE  /\ Row(f.addr) \subseteq Range(f)
           /\ \E k \in 0 .. RowsPerSector : f.addr + RowSize = f.from + RowSize * k
<1>1. f.from \in Nat /\ f.len = SectorSize
  BY SectorIn DEF Erasing
<1>2. PICK k \in 0 .. RowsPerSector : f.addr = f.from + RowSize * k
  BY DEF Erasing
<1>3. RowSize * k < RowSize * RowsPerSector
  BY <1>1, <1>2, Sizes DEF Range
<1>4. k + 1 \in 0 .. RowsPerSector
  BY <1>2, <1>3, Sizes
<1>5. RowSize * (k + 1) <= RowSize * RowsPerSector
  BY <1>4, Sizes
<1>6. RowSize * (k + 1) = RowSize * k + RowSize /\ RowSize * k \in Nat
  BY <1>2, Sizes
<1>7. f.addr + RowSize = f.from + RowSize * (k + 1)
  BY <1>1, <1>2, <1>6, Sizes
<1>8. Row(f.addr) \subseteq Range(f)
  <2>1. f.addr + RowSize <= f.from + f.len /\ f.from <= f.addr /\ f.addr \in Nat
    BY <1>1, <1>2, <1>5, <1>6, <1>7, Sizes
  <2>2. RowSize \in Nat /\ f.len \in Nat
    BY <1>1, Sizes
  <2>3. QED
    BY <1>1, <2>1, <2>2 DEF Range, Row
<1>9. QED
  BY <1>4, <1>7, <1>8

\* The bytes of a page that are to be written are those of the write.
LEMMA MineIs ==
    ASSUME NEW f \in TaskType, f.at = "page", Writing(f)
    PROVE  /\ Base(f) \in Nat /\ Base(f) <= f.addr /\ f.addr < Base(f) + PageSize
           /\ Mine(f) = Page(Base(f)) \cap Range(f)
           /\ f.from <= Base(f) + PageSize - 1
           /\ Mine(f) = {} => \A a \in Range(f) : a < f.addr
           /\ Mine(f) # {} => Base(f) \in PageBases
<1>1. f.addr \in Nat /\ f.from \in Nat /\ f.len \in Nat /\ f.len > 0
  BY DEF TaskType, Writing
<1>2. /\ f.addr \div PageSize \in Nat /\ PageSize * (f.addr \div PageSize) <= f.addr
      /\ f.addr < PageSize * (f.addr \div PageSize) + PageSize
  BY <1>1, Sizes
<1>3. Base(f) \in Nat /\ Base(f) <= f.addr /\ f.addr < Base(f) + PageSize
  BY <1>1, <1>2, Sizes DEF Base
<1>4. f.addr = f.from \/ (f.addr >= f.from /\ f.addr = Base(f))
  <2>1. CASE f.addr >= f.from /\ \E b \in PageBases : f.addr = b + PageSize
    <3>1. PICK b \in PageBases : f.addr = b + PageSize
      BY <2>1
    <3>2. PICK k \in Nat : b = PageSize * k
      BY Sizes DEF PageBases
    <3>3. f.addr = PageSize * (k + 1)
      BY <3>1, <3>2, Sizes
    <3>4. PageSize * (k + 1) <= PageSize * (f.addr \div PageSize)
      BY <1>1, <1>2, <3>2, <3>3, Sizes, Aligned
    <3>5. PageSize * (k + 1) \in Nat /\ PageSize * (f.addr \div PageSize) \in Nat
      BY <1>2, <3>2, Sizes
    <3>6. f.addr = PageSize * (f.addr \div PageSize)
      BY <1>2, <3>3, <3>4, <3>5
    <3>7. QED
      BY <2>1, <3>6 DEF Base
  <2>2. QED
    BY <2>1 DEF Writing
<1>5. Mine(f) = Page(Base(f)) \cap Range(f)
  BY <1>1, <1>3, <1>4, Sizes DEF Mine, Page, Range
<1>6. Mine(f) = {} => \A a \in Range(f) : a < f.addr
  <2>1. ASSUME NEW a \in Range(f), ~(a < f.addr) PROVE f.addr \in Mine(f)
    BY <1>1, <1>3, <2>1, Sizes DEF Mine, Page, Range
  <2>2. QED
    BY <2>1
<1>7. ASSUME Mine(f) # {} PROVE Base(f) \in PageBases
  <2> DEFINE N == PagesPerRow * RowsPerSector * Sectors
             k == f.addr \div PageSize
  <2>1. PICK x \in Page(Base(f)) : x \in Range(f)
    BY <1>5, <1>7
  <2>2. x \in Int /\ x < PageSize * N
    BY <1>1, <2>1, Sizes DEF Writing, Range, Addr
  <2>3. N \in Nat
    BY Sizes
  <2> HIDE DEF N
  <2>4. PageSize * k < PageSize * N
    BY <1>2, <1>3, <2>1, <2>2, <2>3, Sizes DEF Page, Base
  <2>5. k < N
    BY <1>2, <2>3, <2>4, Sizes
  <2>6. k \in 0 .. N - 1
    BY <1>2, <2>3, <2>5
  <2>7. QED
    BY <2>6 DEF PageBases, Base, N
<1>8. QED
  BY <1>3, <1>4, <1>5, <1>6, <1>7, <1>1, Sizes

-----------------------------------------------------------------------------
(* The invariant *)

\* What the flash comes to: programming adds bits, erasing takes all away.
LEMMA SettledIs ==
    ASSUME FlashTypeOK, NEW a \in Addr
    PROVE  /\ nvm.op = "program" /\ a \in Page(nvm.base) => Settled[a] = mem[a] \cup nvm.data[a - nvm.base]
           /\ nvm.op = "erase" /\ a \in Row(nvm.base) => Settled[a] = {}
           /\ ~(nvm.op = "program" /\ a \in Page(nvm.base)) /\ ~(nvm.op = "erase" /\ a \in Row(nvm.base))
                => Settled[a] = mem[a]
<1>1. mem[a] \subseteq Bits
  BY DEF FlashTypeOK
<1>2. nvm.op = "program" /\ a \in Page(nvm.base) => nvm.data[a - nvm.base] \subseteq Bits
  <2>1. ASSUME nvm.op = "program", a \in Page(nvm.base) PROVE a - nvm.base \in 0 .. PageSize - 1
    BY <2>1, Sizes DEF FlashTypeOK, Page
  <2>2. QED
    BY <2>1 DEF FlashTypeOK, PageData
<1>3. nvm.op = "program" => nvm.op # "erase"
  OBVIOUS
<1>4. QED
  BY <1>1, <1>2, <1>3 DEF Settled, After

\* While the controller is ready the flash is what it comes to.
LEMMA SettledReady ==
    ASSUME FlashTypeOK, nvm_is_ready, NEW a \in Addr
    PROVE  Settled[a] = mem[a]
  BY SettledIs DEF nvm_is_ready, Ready

\* The bytes of a task are bytes of the flash.
LEMMA RangeIn ==
    ASSUME FlashTypeOK, NEW t \in FlashTasks, fp[t].at # "idle"
    PROVE  /\ Range(fp[t]) \subseteq Addr
           /\ fp[t] \in TaskType
           /\ IsWriter(fp[t]) \/ IsEraser(fp[t])
<1>1. fp[t] \in TaskType
  BY DEF FlashTypeOK
<1>2. IsWriter(fp[t]) \/ IsEraser(fp[t])
  BY <1>1 DEF TaskType, IsWriter, IsEraser
<1>3. CASE IsWriter(fp[t])
  <2>1. Writing(fp[t])
    BY <1>3 DEF FlashTypeOK
  <2>2. QED
    BY <1>1, <1>2, <2>1, Sizes DEF Writing, Range, TaskType, Addr
<1>4. CASE IsEraser(fp[t])
  <2>1. Erasing(fp[t])
    BY <1>4 DEF FlashTypeOK
  <2>2. QED
    BY <1>1, <1>2, <2>1, SectorIn DEF Erasing, Range
<1>5. QED
  BY <1>2, <1>3, <1>4

\* The row being erased belongs to the task that waits for it.
LEMMA RowOwned ==
    ASSUME FlashTypeOK, RowAwaited, nvm.op = "erase"
    PROVE  \E t \in FlashTasks : fp[t].at = "erasing" /\ fp[t].addr = nvm.base /\ Row(nvm.base) \subseteq Range(fp[t])
<1>1. PICK t \in FlashTasks : fp[t].at = "erasing" /\ fp[t].addr = nvm.base
  BY DEF RowAwaited
<1>2. Erasing(fp[t])
  BY <1>1 DEF FlashTypeOK, IsEraser
<1>3. fp[t].addr \in Range(fp[t])
  BY <1>1, <1>2 DEF Erasing
<1>4. QED
  BY <1>1, <1>2, <1>3, RowIn

\* It has no byte of another task ...
LEMMA RowOthers ==
    ASSUME FlashTypeOK, Apart, RowAwaited, nvm.op = "erase", NEW u \in FlashTasks, fp[u].at \notin {"idle", "erasing"},
           NEW a \in Range(fp[u])
    PROVE  a \notin Row(nvm.base)
  BY RowOwned DEF Apart

\* ... and none of a page another task has read.
LEMMA RowPages ==
    ASSUME FlashTypeOK, Apart, RowAwaited, nvm.op = "erase", NEW u \in FlashTasks,
           fp[u].at \in {"write", "clear", "store"},
           NEW a \in Page(fp[u].addr)
    PROVE  a \notin Row(nvm.base)
<1>1. PICK t \in FlashTasks : fp[t].at = "erasing" /\ Row(nvm.base) \subseteq Range(fp[t])
  BY RowOwned
<1>2. Erasing(fp[t]) /\ Writing(fp[u])
  BY <1>1 DEF FlashTypeOK, IsEraser, IsWriter
<1>3. /\ fp[t].from \in SectorBases /\ Range(fp[t]) = fp[t].from .. fp[t].from + SectorSize - 1
      /\ fp[u].addr \in PageBases
  BY <1>2 DEF Erasing, Writing, Range
<1>4. PICK x \in Page(fp[u].addr) : x \in Range(fp[u])
  BY <1>2 DEF Writing
<1>5. ASSUME a \in Row(nvm.base) PROVE FALSE
  <2>1. a \in fp[t].from .. fp[t].from + SectorSize - 1
    BY <1>1, <1>3, <1>5
  <2>2. Page(fp[u].addr) \subseteq fp[t].from .. fp[t].from + SectorSize - 1
    BY <1>3, <2>1, SectorPage
  <2>3. x \in Range(fp[t])
    BY <1>3, <1>4, <2>2
  <2>4. QED
    BY <1>1, <1>4, <2>3 DEF Apart
<1>6. QED
  BY <1>5

\* A step of one task: the others stay where they are.
LEMMA OneTask ==
    ASSUME FlashTypeOK, NEW t \in FlashTasks, NEW g \in TaskType, fp' = [fp EXCEPT ![t] = g],
           IsWriter(g) => Writing(g), IsEraser(g) => Erasing(g)
    PROVE  /\ fp' \in [FlashTasks -> TaskType] /\ fp'[t] = g
           /\ \A u \in FlashTasks : u # t => fp'[u] = fp[u]
           /\ \A u \in FlashTasks : (IsWriter(fp'[u]) => Writing(fp'[u])) /\ (IsEraser(fp'[u]) => Erasing(fp'[u]))
<1>1. /\ fp' \in [FlashTasks -> TaskType] /\ fp'[t] = g
      /\ \A u \in FlashTasks : u # t => fp'[u] = fp[u]
  BY DEF FlashTypeOK
<1>2. \A u \in FlashTasks : (IsWriter(fp'[u]) => Writing(fp'[u])) /\ (IsEraser(fp'[u]) => Erasing(fp'[u]))
  BY <1>1 DEF FlashTypeOK
<1>3. QED
  BY <1>1, <1>2

LEMMA IdleType == Erased \in PageData /\ Idle \in TaskType /\ ~IsWriter(Idle) /\ ~IsEraser(Idle)
  BY Sizes DEF Erased, PageData, Idle, TaskType, IsWriter, IsEraser

LEMMA FlashInvInit == Init => FlashInv
<1> SUFFICES ASSUME Init PROVE FlashInv
  OBVIOUS
<1>1. FlashTypeOK
  BY IdleType, Sizes DEF Init, FlashTypeOK, Ready, Idle, IsWriter, IsEraser
<1>2. \A a \in Addr : Settled[a] = mem[a]
  BY <1>1, SettledReady DEF Init, nvm_is_ready
<1>3. Apart /\ StillReady /\ RowAwaited /\ \A t \in FlashTasks : TaskOK(fp[t])
  BY DEF Init, Idle, Ready, Apart, StillReady, RowAwaited, Commanding, TaskOK, WriteDone, PageRead, Stored, EraseDone,
         Aimed, IsWriter, IsEraser
<1>4. Bounds
  BY <1>2 DEF Bounds, Init
<1>5. QED
  BY <1>1, <1>3, <1>4 DEF FlashInv, Unspoilt

\* A call that ends.  One that ends well has done what it was asked for.
LEMMA ReturnsStep ==
    ASSUME FlashInv, NEW t \in FlashTasks, fp[t].at \notin {"idle", "erasing"}, NEW rc, Returns(t, rc),
           UNCHANGED <<mem, pgbuf, nvm, ADDR, clash>>,
           ~clash /\ rc = 0 => \A a \in Range(fp[t]) : Settled[a] = fp[t].src
    PROVE  FlashInv'
<1> DEFINE f == fp[t]
<1>1. FlashTypeOK /\ (~clash => Unspoilt)
  BY DEF FlashInv
<1>2. Range(f) \subseteq Addr /\ f \in TaskType /\ f.src \in SUBSET Bits
  BY <1>1, RangeIn DEF TaskType
<1>3. fp' = [fp EXCEPT ![t] = Idle]
  BY DEF Returns
<1>4. ASSUME NEW a \in Addr
      PROVE  \/ low'[a] = low[a] /\ high'[a] = high[a]
             \/ rc = 0 /\ a \in Range(f) /\ low'[a] = f.src /\ high'[a] = f.src
  BY DEF Returns
<1>5. low' \in [Addr -> SUBSET Bits] /\ high' \in [Addr -> SUBSET Bits]
  BY <1>1, <1>2 DEF Returns, FlashTypeOK
<1>6. /\ fp' \in [FlashTasks -> TaskType] /\ fp'[t] = Idle
      /\ \A u \in FlashTasks : u # t => fp'[u] = fp[u]
      /\ \A u \in FlashTasks : (IsWriter(fp'[u]) => Writing(fp'[u])) /\ (IsEraser(fp'[u]) => Erasing(fp'[u]))
  BY <1>1, <1>3, IdleType, OneTask
<1>7. FlashTypeOK'
  BY <1>1, <1>5, <1>6 DEF FlashTypeOK
<1>8. Settled' = Settled
  BY DEF Settled, After
<1>9. ASSUME ~clash PROVE Unspoilt'
  <2>1. Apart /\ StillReady /\ RowAwaited /\ Bounds /\ \A u \in FlashTasks : TaskOK(fp[u])
    BY <1>1, <1>9 DEF Unspoilt
  <2>2. Apart' /\ StillReady' /\ RowAwaited'
    BY <1>6, <2>1 DEF Apart, StillReady, RowAwaited, nvm_is_ready, Commanding, Idle
  <2>3. Bounds'
    <3> SUFFICES ASSUME NEW a \in Addr
                 PROVE  mem[a] \subseteq high'[a] /\ low'[a] \subseteq Settled[a] /\ Settled[a] \subseteq high'[a]
      BY <1>8 DEF Bounds
    <3>1. CASE low'[a] = low[a] /\ high'[a] = high[a]
      BY <2>1, <3>1 DEF Bounds
    <3>2. CASE rc = 0 /\ a \in Range(f) /\ low'[a] = f.src /\ high'[a] = f.src
      <4>1. Settled[a] = f.src
        BY <1>9, <3>2
      <4>2. nvm.op = "erase" => a \notin Row(nvm.base)
        BY <1>1, <2>1, <3>2, RowOthers
      <4>3. mem[a] \subseteq Settled[a]
        BY <1>1, <4>2, SettledIs
      <4>4. QED
        BY <3>2, <4>1, <4>3
    <3>3. QED
      BY <1>4, <3>1, <3>2
  <2>4. ASSUME NEW u \in FlashTasks PROVE TaskOK(fp[u])'
    <3>1. CASE u = t
      BY <1>6, <3>1 DEF TaskOK, WriteDone, PageRead, Stored, EraseDone, Aimed, IsWriter, IsEraser, Idle
    <3>2. CASE u # t /\ fp[u].at # "idle"
      <4>1. \A a \in Range(fp[u]) : a \in Addr /\ a \notin Range(f)
        BY <1>1, <2>1, <3>2, RangeIn DEF Apart
      <4>2. \A a \in Range(fp[u]) : low'[a] = low[a] /\ high'[a] = high[a]
        BY <1>4, <4>1
      <4>3. fp'[u] = fp[u] /\ TaskOK(fp[u])
        BY <1>6, <2>1, <3>2
      <4>4. QED
        BY <1>8, <4>2, <4>3 DEF TaskOK, WriteDone, PageRead, Stored, EraseDone, Aimed
    <3>3. CASE u # t /\ fp[u].at = "idle"
      BY <1>6, <3>3 DEF TaskOK, WriteDone, PageRead, Stored, EraseDone, Aimed, IsWriter, IsEraser
    <3>4. QED
      BY <3>1, <3>2, <3>3
  <2>5. QED
    BY <2>2, <2>3, <2>4 DEF Unspoilt
<1>10. QED
  BY <1>7, <1>9 DEF FlashInv

\* A step that leaves the flash, the controller and what has been promised:
\* what it does to its own task is left to be shown.
LEMMA QuietStep ==
    ASSUME FlashInv, NEW t \in FlashTasks, NEW g \in TaskType, fp' = [fp EXCEPT ![t] = g],
           IsWriter(g) => Writing(g), IsEraser(g) => Erasing(g),
           UNCHANGED <<mem, nvm>>, fp[t].at # "erasing" \/ nvm_is_ready,
           low' \in [Addr -> SUBSET Bits], high' \in [Addr -> SUBSET Bits],
           pgbuf' \in PageData, ADDR' \in Nat, clash' \in BOOLEAN, clash => clash',
           \A a \in Addr : low'[a] \subseteq low[a] /\ high[a] \subseteq high'[a],
           ~clash' => /\ \A u \in FlashTasks \ {t} :
                            /\ g.at # "idle" /\ fp[u].at # "idle" => Range(g) \cap Range(fp[u]) = {}
                            /\ ~(g.at \in Commanding /\ fp[u].at \in Commanding)
                            /\ fp[u].at = "store" => pgbuf' = pgbuf
                            /\ fp[u].at = "erase" => ADDR' = ADDR
                      /\ g.at \in Commanding => nvm_is_ready
                      /\ TaskOK(g)'
    PROVE  FlashInv'
<1>1. FlashTypeOK /\ (~clash => Unspoilt)
  BY DEF FlashInv
<1>2. /\ fp' \in [FlashTasks -> TaskType] /\ fp'[t] = g
      /\ \A u \in FlashTasks : u # t => fp'[u] = fp[u]
      /\ \A u \in FlashTasks : (IsWriter(fp'[u]) => Writing(fp'[u])) /\ (IsEraser(fp'[u]) => Erasing(fp'[u]))
  BY <1>1, OneTask
<1>3. FlashTypeOK'
  BY <1>1, <1>2 DEF FlashTypeOK
<1>4. Settled' = Settled
  BY DEF Settled, After
<1>5. ASSUME ~clash' PROVE Unspoilt'
  <2>1. Apart /\ StillReady /\ RowAwaited /\ Bounds /\ \A u \in FlashTasks : TaskOK(fp[u])
    BY <1>1, <1>5 DEF Unspoilt
  <2>2. Apart'
    <3> SUFFICES ASSUME NEW u \in FlashTasks, NEW v \in FlashTasks, u # v
                 PROVE  /\ fp'[u].at # "idle" /\ fp'[v].at # "idle" => Range(fp'[u]) \cap Range(fp'[v]) = {}
                        /\ ~(fp'[u].at \in Commanding /\ fp'[v].at \in Commanding)
      BY DEF Apart
    <3>1. CASE u = t
      BY <1>2, <1>5, <3>1
    <3>2. CASE v = t
      BY <1>2, <1>5, <3>2
    <3>3. CASE u # t /\ v # t
      BY <1>2, <2>1, <3>3 DEF Apart
    <3>4. QED
      BY <3>1, <3>2, <3>3
  <2>3. StillReady' /\ RowAwaited'
    <3>1. StillReady'
      BY <1>2, <1>5, <2>1 DEF StillReady, nvm_is_ready
    <3>2. RowAwaited'
      BY <1>2, <2>1 DEF RowAwaited, nvm_is_ready, Ready
    <3>3. QED
      BY <3>1, <3>2
  <2>4. Bounds'
    BY <1>4, <2>1 DEF Bounds
  <2>5. ASSUME NEW u \in FlashTasks, u # t PROVE TaskOK(fp[u])'
    <3>1. fp'[u] = fp[u] /\ TaskOK(fp[u])
      BY <1>2, <2>1, <2>5
    <3>2. fp[u].at # "idle" => Range(fp[u]) \subseteq Addr
      BY <1>1, RangeIn
    <3>3. WriteDone(fp[u])'
      BY <1>4, <3>1, <3>2 DEF TaskOK, WriteDone, IsWriter
    <3>4. PageRead(fp[u])'
      BY <1>4, <3>1 DEF TaskOK, PageRead
    <3>5. Stored(fp[u])'
      BY <1>5, <2>5, <3>1 DEF TaskOK, Stored
    <3>6. EraseDone(fp[u])'
      BY <1>4, <3>1, <3>2 DEF TaskOK, EraseDone, IsEraser
    <3>7. Aimed(fp[u])'
      BY <1>5, <2>5, <3>1 DEF TaskOK, Aimed
    <3>8. QED
      BY <3>3, <3>4, <3>5, <3>6, <3>7 DEF TaskOK
  <2>6. TaskOK(fp[t])'
    BY <1>2, <1>5
  <2>7. QED
    BY <2>2, <2>3, <2>4, <2>5, <2>6 DEF Unspoilt
<1>6. QED
  BY <1>3, <1>5 DEF FlashInv

\* samd21_flash_write begins: its bits may be programmed from now on.
LEMMA WriteStarts ==
    ASSUME FlashInv, NEW t \in FlashTasks, NEW a \in Addr, NEW len \in 1 .. MaxLen, NEW byte \in Bytes,
           samd21_flash_write(t, a, len, byte)
    PROVE  FlashInv'
<1> DEFINE w == [Idle EXCEPT !.at = "page", !.from = a, !.len = len, !.src = byte, !.addr = a]
<1>1. PICK g : g = w
  OBVIOUS
<1>2. a \in Nat /\ len \in Nat /\ len > 0 /\ byte \in SUBSET Bits
  BY Sizes, FlashAssumption DEF Addr, Bits
<1>3. w \in TaskType /\ w.at = "page" /\ w.from = a /\ w.len = len /\ w.src = byte /\ w.addr = a
  BY <1>2, IdleType DEF Idle, TaskType
<1>4. g \in TaskType /\ g.at = "page" /\ g.from = a /\ g.len = len /\ g.src = byte /\ g.addr = a
  BY <1>1, <1>3
<1>5. /\ fp' = [fp EXCEPT ![t] = g] /\ fp[t].at = "idle" /\ a + len - 1 \in Addr
      /\ high' = [c \in Addr |-> IF c \in a .. a + len - 1 THEN high[c] \cup byte ELSE high[c]]
      /\ clash' = (clash \/ Overlaps(t, a .. a + len - 1))
      /\ UNCHANGED <<mem, pgbuf, nvm, ADDR, low>>
  BY <1>1 DEF samd21_flash_write
<1> HIDE DEF w
<1>6. Range(g) = a .. a + len - 1
  BY <1>4 DEF Range
<1>7. IsWriter(g) /\ ~IsEraser(g) /\ Writing(g)
  BY <1>2, <1>4, <1>5, Sizes DEF IsWriter, IsEraser, Writing
<1>8. FlashTypeOK
  BY DEF FlashInv
<1>9. high' \in [Addr -> SUBSET Bits] /\ low' \in [Addr -> SUBSET Bits] /\ pgbuf' \in PageData /\ ADDR' \in Nat
  BY <1>2, <1>5, <1>8 DEF FlashTypeOK
<1>10. clash' \in BOOLEAN /\ (clash => clash')
  BY <1>5
<1>11. \A c \in Addr : low'[c] \subseteq low[c] /\ high[c] \subseteq high'[c]
  BY <1>5
<1>12. Range(g) \subseteq Addr
  BY <1>2, <1>5, <1>6, Sizes DEF Addr
<1>13. TaskOK(g)'
  <2>1. \A c \in Range(g) : g.src \subseteq high'[c] /\ ~(c < g.addr)
    BY <1>2, <1>4, <1>5, <1>6, <1>12
  <2>2. QED
    BY <1>4, <1>7, <2>1 DEF TaskOK, WriteDone, PageRead, Stored, EraseDone, Aimed
<1>14. ASSUME ~clash', NEW u \in FlashTasks \ {t}, fp[u].at # "idle" PROVE Range(g) \cap Range(fp[u]) = {}
  BY <1>5, <1>6, <1>14 DEF Overlaps
<1>15. QED
  BY <1>4, <1>5, <1>7, <1>9, <1>10, <1>11, <1>13, <1>14, QuietStep DEF Commanding

\* samd21_flash_erase_sector begins: nothing is asked of its bytes any more.
LEMMA EraseStarts ==
    ASSUME FlashInv, NEW t \in FlashTasks, NEW a \in Addr, samd21_flash_erase_sector(t, a)
    PROVE  FlashInv'
<1> DEFINE w == [Idle EXCEPT !.at = "row", !.from = a, !.len = SectorSize, !.addr = a]
<1>1. PICK g : g = w
  OBVIOUS
<1>2. a \in Nat /\ SectorSize \in Nat
  BY Sizes DEF Addr
<1>3. w \in TaskType /\ w.at = "row" /\ w.from = a /\ w.len = SectorSize /\ w.src = {} /\ w.addr = a
  BY <1>2, IdleType DEF Idle, TaskType
<1>4. g \in TaskType /\ g.at = "row" /\ g.from = a /\ g.len = SectorSize /\ g.src = {} /\ g.addr = a
  BY <1>1, <1>3
<1>5. /\ fp' = [fp EXCEPT ![t] = g] /\ fp[t].at = "idle" /\ a % SectorSize = 0
      /\ low' = [c \in Addr |-> IF c \in a .. a + SectorSize - 1 THEN {} ELSE low[c]]
      /\ clash' = (clash \/ Overlaps(t, a .. a + SectorSize - 1))
      /\ UNCHANGED <<mem, pgbuf, nvm, ADDR, high>>
  BY <1>1 DEF samd21_flash_erase_sector
<1> HIDE DEF w
<1>6. Range(g) = a .. a + SectorSize - 1
  BY <1>4 DEF Range
<1>7. IsEraser(g) /\ ~IsWriter(g) /\ Erasing(g)
  <2>1. a \in SectorBases
    BY <1>5, SectorBase
  <2>2. 0 \in 0 .. RowsPerSector /\ a = a + RowSize * 0
    BY <1>2, Sizes
  <2>3. QED
    BY <1>4, <2>1, <2>2 DEF IsWriter, IsEraser, Erasing
<1>8. FlashTypeOK
  BY DEF FlashInv
<1>9. high' \in [Addr -> SUBSET Bits] /\ low' \in [Addr -> SUBSET Bits] /\ pgbuf' \in PageData /\ ADDR' \in Nat
  BY <1>5, <1>8 DEF FlashTypeOK
<1>10. clash' \in BOOLEAN /\ (clash => clash')
  BY <1>5
<1>11. \A c \in Addr : low'[c] \subseteq low[c] /\ high[c] \subseteq high'[c]
  BY <1>5
<1>12. Range(g) \subseteq Addr
  BY <1>5, <1>6, SectorBase, SectorIn
<1>13. TaskOK(g)'
  <2>1. \A c \in Range(g) : low'[c] = {} /\ ~(c < g.addr)
    BY <1>2, <1>4, <1>5, <1>6, <1>12
  <2>2. QED
    BY <1>4, <1>7, <2>1 DEF TaskOK, WriteDone, PageRead, Stored, EraseDone, Aimed
<1>14. ASSUME ~clash', NEW u \in FlashTasks \ {t}, fp[u].at # "idle" PROVE Range(g) \cap Range(fp[u]) = {}
  BY <1>5, <1>6, <1>14 DEF Overlaps
<1>15. QED
  BY <1>4, <1>5, <1>7, <1>9, <1>10, <1>11, <1>13, <1>14, QuietStep DEF Commanding

\* A step of a call leaves the task's bytes as they were: what QuietStep asks
\* of a task that has not clashed so far.
LEMMA SameRange ==
    ASSUME FlashInv, ~clash, NEW t \in FlashTasks, fp[t].at # "idle", NEW g, Range(g) = Range(fp[t]),
           NEW u \in FlashTasks \ {t}, fp[u].at # "idle"
    PROVE  Range(g) \cap Range(fp[u]) = {}
  BY DEF FlashInv, Unspoilt, Apart

\* The page is read.  The controller is ready: what is in the flash stays.
LEMMA WritePageStep ==
    ASSUME FlashInv, NEW t \in FlashTasks, WritePage(t)
    PROVE  FlashInv'
<1> DEFINE f == fp[t]
           base == Base(f)
           mine == Mine(f)
           blank == \A a \in mine : mem[base + (a - base)] = {}
           buf == [i \in 0 .. PageSize - 1 |-> IF base + i \in mine THEN f.src ELSE mem[base + i]]
<1>1. FlashTypeOK /\ f \in TaskType /\ f.at = "page" /\ Writing(f) /\ UNCHANGED <<mem, pgbuf, nvm, ADDR, clash>>
  BY DEF FlashInv, FlashTypeOK, WritePage, IsWriter
<1>2. /\ base \in Nat /\ base <= f.addr /\ f.addr < base + PageSize
      /\ mine = Page(base) \cap Range(f)
      /\ f.from <= base + PageSize - 1
      /\ mine = {} => \A a \in Range(f) : a < f.addr
      /\ mine # {} => base \in PageBases
  BY <1>1, MineIs
<1>3. CASE mine = {}
  <2>1. Returns(t, 0)
    BY <1>3 DEF WritePage
  <2>2. ~clash => \A a \in Range(f) : Settled[a] = f.src
    BY <1>1, <1>2, <1>3 DEF FlashInv, Unspoilt, TaskOK, WriteDone, IsWriter
  <2>3. QED
    BY <1>1, <2>1, <2>2, ReturnsStep
<1>4. CASE mine # {} /\ Returns(t, -1)
  BY <1>1, <1>4, ReturnsStep
<1>5. CASE /\ mine # {} /\ nvm_is_ready /\ blank
           /\ fp' = [fp EXCEPT ![t].at = "write", ![t].addr = base, ![t].buf = buf] /\ UNCHANGED <<low, high>>
  <2> DEFINE w == [f EXCEPT !.at = "write", !.addr = base, !.buf = buf]
  <2>1. PICK g : g = w
    OBVIOUS
  <2>2. Page(base) \subseteq Addr /\ \A i \in 0 .. PageSize - 1 : base + i \in Page(base)
    <3>1. Page(base) \subseteq Addr
      BY <1>2, <1>5, PageIn
    <3>2. \A i \in 0 .. PageSize - 1 : base + i \in Page(base)
      BY <1>2, Sizes DEF Page
    <3>3. QED
      BY <3>1, <3>2
  <2>3. buf \in PageData
    BY <1>1, <2>2 DEF PageData, FlashTypeOK, TaskType
  <2>4. /\ w \in TaskType /\ w.at = "write" /\ w.from = f.from /\ w.len = f.len /\ w.src = f.src
        /\ w.addr = base /\ w.buf = buf
    BY <1>1, <1>2, <2>3 DEF TaskType
  <2>5. fp' = [fp EXCEPT ![t] = w]
    BY <1>1, <1>5 DEF FlashTypeOK, TaskType
  <2>6. /\ g \in TaskType /\ g.at = "write" /\ g.from = f.from /\ g.len = f.len /\ g.src = f.src
        /\ g.addr = base /\ g.buf = buf /\ fp' = [fp EXCEPT ![t] = g] /\ Range(g) = Range(f)
    BY <2>1, <2>4, <2>5 DEF Range
  <2> HIDE DEF w
  <2>7. IsWriter(g) /\ ~IsEraser(g) /\ Writing(g)
    <3>1. Page(g.addr) \cap Range(g) # {} /\ g.addr \in PageBases
      BY <1>2, <1>5, <2>6
    <3>2. QED
      BY <1>1, <1>2, <2>6, <3>1 DEF IsWriter, IsEraser, Writing
  <2>8. ASSUME ~clash PROVE TaskOK(g)'
    <3>1. Settled' = Settled /\ \A a \in Addr : Settled[a] = mem[a]
      BY <1>1, <1>5, SettledReady DEF Settled, After
    <3>2. WriteDone(f)
      BY <2>8 DEF FlashInv, Unspoilt, TaskOK
    <3>3. \A a \in Range(g) : g.src \subseteq high[a] /\ (a < base => Settled[a] = g.src)
      <4>1. Range(f) \subseteq Int /\ f.addr \in Nat
        BY <1>1 DEF Range, TaskType
      <4>2. QED
        BY <1>1, <1>2, <2>6, <3>2, <4>1 DEF WriteDone, IsWriter
    <3>4. WriteDone(g)'
      BY <1>5, <2>6, <3>1, <3>3 DEF WriteDone
    <3>5. ASSUME NEW a \in Page(base)
          PROVE  IF a \in Range(f) THEN buf[a - base] = f.src /\ mem[a] = {} ELSE buf[a - base] \subseteq mem[a]
      <4>1. a - base \in 0 .. PageSize - 1 /\ base + (a - base) = a
        BY <1>2, Sizes DEF Page
      <4>2. QED
        BY <1>2, <1>5, <3>5, <4>1
    <3>6. PageRead(g)'
      BY <1>1, <2>2, <2>6, <3>1, <3>5 DEF PageRead
    <3>7. QED
      BY <2>6, <2>7, <3>4, <3>6 DEF TaskOK, Stored, EraseDone, Aimed
  <2>9. /\ high' \in [Addr -> SUBSET Bits] /\ low' \in [Addr -> SUBSET Bits] /\ pgbuf' \in PageData
        /\ clash' \in BOOLEAN /\ ADDR' \in Nat
    BY <1>1, <1>5 DEF FlashTypeOK
  <2>10. ASSUME ~clash, NEW u \in FlashTasks \ {t}, fp[u].at # "idle" PROVE Range(g) \cap Range(fp[u]) = {}
    BY <1>1, <2>6, <2>10, SameRange
  <2>11. QED
    BY <1>1, <1>5, <2>6, <2>7, <2>8, <2>9, <2>10, QuietStep DEF Commanding
<1>6. QED
  <2>1. \A a \in mine : a - base \in 0 .. PageSize - 1
    BY <1>2, Sizes DEF Page
  <2>2. nvm_read_buffer(base) = [i \in 0 .. PageSize - 1 |-> mem[base + i]]
    BY DEF nvm_read_buffer
  <2>3. (\A a \in mine : nvm_read_buffer(base)[a - base] = {}) = blank
    BY <2>1, <2>2
  <2>4. buf = [i \in 0 .. PageSize - 1 |-> IF base + i \in mine THEN f.src ELSE nvm_read_buffer(base)[i]]
    BY <2>2
  <2>5. QED
    BY <1>3, <1>4, <1>5, <2>3, <2>4 DEF WritePage

\* A task that is about to give a command is alone with that, and the
\* controller is ready.
LEMMA AloneReady ==
    ASSUME FlashInv, ~clash, NEW t \in FlashTasks, fp[t].at \in Commanding
    PROVE  /\ nvm_is_ready
           /\ \A u \in FlashTasks \ {t} : fp[u].at \notin Commanding
  BY DEF FlashInv, Unspoilt, Apart, StillReady

\* The controller is found ready, by one task at a time, or the call ends.
LEMMA FindReadyStep ==
    ASSUME FlashInv, NEW t \in FlashTasks, NEW next, FindReady(t, next),
           \/ fp[t].at = "write" /\ next = "clear"
           \/ fp[t].at = "row" /\ next = "addr" /\ fp[t].addr \in Range(fp[t])
    PROVE  FlashInv'
<1> DEFINE f == fp[t]
<1>1. FlashTypeOK /\ f \in TaskType /\ UNCHANGED <<mem, pgbuf, nvm, ADDR>>
  BY DEF FlashInv, FlashTypeOK, FindReady
<1>2. CASE ~nvm_is_ready
  BY <1>1, <1>2, ReturnsStep DEF FindReady
<1>3. CASE nvm_is_ready
  <2> DEFINE w == [f EXCEPT !.at = next]
  <2>1. PICK g : g = w
    OBVIOUS
  <2>2. fp' = [fp EXCEPT ![t].at = next] /\ clash' = (clash \/ OtherCommands(t)) /\ UNCHANGED <<low, high>>
    BY <1>3 DEF FindReady
  <2>3. /\ w \in TaskType /\ w.at = next /\ w.from = f.from /\ w.len = f.len /\ w.src = f.src
        /\ w.addr = f.addr /\ w.buf = f.buf /\ w.i = f.i
    BY <1>1 DEF TaskType
  <2>4. fp' = [fp EXCEPT ![t] = w]
    BY <1>1, <2>2 DEF FlashTypeOK, TaskType
  <2>5. /\ g \in TaskType /\ g.at = next /\ g.from = f.from /\ g.len = f.len /\ g.src = f.src
        /\ g.addr = f.addr /\ g.buf = f.buf /\ g.i = f.i /\ fp' = [fp EXCEPT ![t] = g] /\ Range(g) = Range(f)
    BY <2>1, <2>3, <2>4 DEF Range
  <2> HIDE DEF w
  <2>6. (IsWriter(g) => Writing(g)) /\ (IsEraser(g) => Erasing(g))
    <3>1. CASE f.at = "write" /\ next = "clear"
      <4>1. Writing(f)
        BY <1>1, <3>1 DEF FlashTypeOK, IsWriter
      <4>2. QED
        BY <2>5, <3>1, <4>1 DEF IsWriter, IsEraser, Writing
    <3>2. CASE f.at = "row" /\ next = "addr" /\ f.addr \in Range(f)
      <4>1. Erasing(f)
        BY <1>1, <3>2 DEF FlashTypeOK, IsEraser
      <4>2. QED
        BY <2>5, <3>2, <4>1 DEF IsWriter, IsEraser, Erasing
    <3>3. QED
      BY <3>1, <3>2
  <2>7. ASSUME ~clash PROVE TaskOK(g)'
    <3>1. Settled' = Settled /\ WriteDone(f) /\ PageRead(f) /\ EraseDone(f)
      BY <1>1, <2>7 DEF Settled, After, FlashInv, Unspoilt, TaskOK
    <3>2. WriteDone(g)' /\ PageRead(g)'
      BY <1>1, <2>2, <2>5, <3>1 DEF WriteDone, PageRead, IsWriter
    <3>3. EraseDone(g)'
      BY <1>1, <2>2, <2>5, <3>1 DEF EraseDone, IsEraser
    <3>4. QED
      BY <2>5, <3>2, <3>3 DEF TaskOK, Stored, Aimed
  <2>8. /\ high' \in [Addr -> SUBSET Bits] /\ low' \in [Addr -> SUBSET Bits] /\ pgbuf' \in PageData
        /\ ADDR' \in Nat /\ clash' \in BOOLEAN /\ (clash => clash')
    BY <1>1, <2>2 DEF FlashTypeOK
  <2>9. ASSUME ~clash, NEW u \in FlashTasks \ {t}, fp[u].at # "idle" PROVE Range(g) \cap Range(fp[u]) = {}
    BY <2>5, <2>9, SameRange
  <2>10. ~clash' => \A u \in FlashTasks \ {t} : fp[u].at \notin Commanding
    BY <2>2 DEF OtherCommands
  <2>11. \A a \in Addr : low'[a] \subseteq low[a] /\ high[a] \subseteq high'[a]
    BY <2>2
  <2>12. QED
    BY <1>1, <1>3, <2>5, <2>6, <2>7, <2>8, <2>9, <2>10, <2>11, QuietStep
<1>4. QED
  BY <1>2, <1>3

\* The page buffer is cleared; nobody else is filling it.
LEMMA ClearBufferStep ==
    ASSUME FlashInv, NEW t \in FlashTasks, ClearBuffer(t)
    PROVE  FlashInv'
<1> DEFINE f == fp[t]
           w == [f EXCEPT !.at = "store", !.i = 0]
<1>1. FlashTypeOK /\ f \in TaskType /\ f.at = "clear" /\ Writing(f)
  BY DEF FlashInv, FlashTypeOK, ClearBuffer, IsWriter
<1>2. /\ fp' = [fp EXCEPT ![t].at = "store", ![t].i = 0] /\ pgbuf' \in {pgbuf, Erased}
      /\ UNCHANGED <<mem, nvm, ADDR, low, high, clash>>
  BY DEF ClearBuffer
<1>3. PICK g : g = w
  OBVIOUS
<1>4. /\ w \in TaskType /\ w.at = "store" /\ w.from = f.from /\ w.len = f.len /\ w.src = f.src
      /\ w.addr = f.addr /\ w.buf = f.buf /\ w.i = 0
  BY <1>1 DEF TaskType
<1>5. fp' = [fp EXCEPT ![t] = w]
  BY <1>1, <1>2 DEF FlashTypeOK, TaskType
<1>6. /\ g \in TaskType /\ g.at = "store" /\ g.from = f.from /\ g.len = f.len /\ g.src = f.src
      /\ g.addr = f.addr /\ g.buf = f.buf /\ g.i = 0 /\ fp' = [fp EXCEPT ![t] = g] /\ Range(g) = Range(f)
  BY <1>3, <1>4, <1>5 DEF Range
<1> HIDE DEF w
<1>7. IsWriter(g) /\ ~IsEraser(g) /\ Writing(g)
  BY <1>1, <1>6, Sizes DEF IsWriter, IsEraser, Writing
<1>8. ASSUME ~clash PROVE TaskOK(g)'
  <2>1. Settled' = Settled /\ WriteDone(f) /\ PageRead(f)
    BY <1>2, <1>8 DEF Settled, After, FlashInv, Unspoilt, TaskOK
  <2>2. QED
    BY <1>1, <1>2, <1>6, <1>7, <2>1 DEF TaskOK, WriteDone, PageRead, Stored, EraseDone, Aimed, IsWriter
<1>9. /\ high' \in [Addr -> SUBSET Bits] /\ low' \in [Addr -> SUBSET Bits] /\ pgbuf' \in PageData
      /\ ADDR' \in Nat /\ clash' \in BOOLEAN
  BY <1>1, <1>2, IdleType DEF FlashTypeOK
<1>10. ASSUME ~clash, NEW u \in FlashTasks \ {t}, fp[u].at # "idle" PROVE Range(g) \cap Range(fp[u]) = {}
  BY <1>1, <1>6, <1>10, SameRange
<1>11. ~clash => nvm_is_ready /\ \A u \in FlashTasks \ {t} : fp[u].at \notin Commanding
  BY <1>1, AloneReady DEF Commanding
<1>12. \A u \in FlashTasks : fp[u].at = "store" => fp[u].at \in Commanding
  BY DEF Commanding
<1>13. \A a \in Addr : low'[a] \subseteq low[a] /\ high[a] \subseteq high'[a]
  BY <1>2
<1>14. QED
  BY <1>1, <1>2, <1>6, <1>7, <1>8, <1>9, <1>10, <1>11, <1>12, <1>13, QuietStep

\* A store that is not the page's last.
LEMMA StoreOne ==
    ASSUME FlashInv, NEW t \in FlashTasks, StoreByte(t), fp[t].i # PageSize - 1
    PROVE  FlashInv'
<1> DEFINE f == fp[t]
           w == [f EXCEPT !.i = f.i + 1]
<1>1. /\ FlashTypeOK /\ f \in TaskType /\ f.at = "store" /\ Writing(f) /\ nvm_is_ready
      /\ f.i \in 0 .. PageSize - 1
  BY DEF FlashInv, FlashTypeOK, StoreByte, IsWriter, Writing
<1>2. /\ fp' = [fp EXCEPT ![t].i = @ + 1] /\ pgbuf' = [pgbuf EXCEPT ![f.i] = f.buf[f.i]]
      /\ ADDR' = f.addr + f.i /\ UNCHANGED <<mem, nvm, low, high, clash>>
  BY DEF StoreByte
<1>3. PICK g : g = w
  OBVIOUS
<1>4. /\ w \in TaskType /\ w.at = "store" /\ w.from = f.from /\ w.len = f.len /\ w.src = f.src
      /\ w.addr = f.addr /\ w.buf = f.buf /\ w.i = f.i + 1
  BY <1>1 DEF TaskType
<1>5. fp' = [fp EXCEPT ![t] = w]
  BY <1>1, <1>2 DEF FlashTypeOK, TaskType
<1>6. /\ g \in TaskType /\ g.at = "store" /\ g.from = f.from /\ g.len = f.len /\ g.src = f.src
      /\ g.addr = f.addr /\ g.buf = f.buf /\ g.i = f.i + 1 /\ fp' = [fp EXCEPT ![t] = g] /\ Range(g) = Range(f)
  BY <1>3, <1>4, <1>5 DEF Range
<1> HIDE DEF w
<1>7. IsWriter(g) /\ ~IsEraser(g) /\ Writing(g)
  BY <1>1, <1>6, Sizes DEF IsWriter, IsEraser, Writing
<1>8. ASSUME ~clash PROVE TaskOK(g)'
  <2>1. Settled' = Settled /\ WriteDone(f) /\ PageRead(f) /\ Stored(f)
    BY <1>2, <1>8 DEF Settled, After, FlashInv, Unspoilt, TaskOK
  <2>2. WriteDone(g)' /\ PageRead(g)'
    BY <1>1, <1>2, <1>6, <2>1 DEF WriteDone, PageRead, IsWriter
  <2>3. Stored(g)'
    <3>1. \A i \in 0 .. g.i - 1 : i \in 0 .. PageSize - 1 /\ (i = f.i \/ i \in 0 .. f.i - 1)
      BY <1>1, <1>6, Sizes
    <3>2. \A i \in 0 .. PageSize - 1 : pgbuf'[i] = IF i = f.i THEN f.buf[f.i] ELSE pgbuf[i]
      BY <1>1, <1>2 DEF FlashTypeOK, PageData
    <3>3. QED
      BY <1>1, <1>6, <2>1, <3>1, <3>2 DEF Stored
  <2>4. QED
    BY <1>6, <1>7, <2>2, <2>3 DEF TaskOK, EraseDone, Aimed
<1>9. /\ high' \in [Addr -> SUBSET Bits] /\ low' \in [Addr -> SUBSET Bits] /\ clash' \in BOOLEAN
      /\ pgbuf' \in PageData /\ ADDR' \in Nat
  <2>1. f.addr \in Nat /\ f.i \in Nat /\ f.buf \in PageData
    BY <1>1 DEF TaskType
  <2>2. pgbuf' \in PageData
    BY <1>1, <1>2, <2>1 DEF FlashTypeOK, PageData
  <2>3. ADDR' \in Nat
    BY <1>2, <2>1
  <2>4. QED
    BY <1>1, <1>2, <2>2, <2>3 DEF FlashTypeOK
<1>10. ASSUME ~clash, NEW u \in FlashTasks \ {t}
       PROVE  fp[u].at \notin Commanding /\ (fp[u].at # "idle" => Range(g) \cap Range(fp[u]) = {})
  BY <1>1, <1>6, <1>10, AloneReady, SameRange DEF Commanding
<1>11. \A u \in FlashTasks : fp[u].at \in {"store", "erase"} => fp[u].at \in Commanding
  BY DEF Commanding
<1>12. \A a \in Addr : low'[a] \subseteq low[a] /\ high[a] \subseteq high'[a]
  BY <1>2
<1>13. QED
  BY <1>1, <1>2, <1>6, <1>7, <1>8, <1>9, <1>10, <1>11, <1>12, QuietStep

\* The row is erased and the task goes on to the next.
LEMMA RowErasedStep ==
    ASSUME FlashInv, NEW t \in FlashTasks, RowErased(t)
    PROVE  FlashInv'
<1> DEFINE f == fp[t]
           w == [f EXCEPT !.at = "row", !.addr = f.addr + RowSize]
<1>1. /\ FlashTypeOK /\ f \in TaskType /\ f.at = "erasing" /\ Erasing(f) /\ nvm_is_ready
  BY DEF FlashInv, FlashTypeOK, RowErased, IsEraser
<1>2. /\ fp' = [fp EXCEPT ![t].at = "row", ![t].addr = @ + RowSize]
      /\ UNCHANGED <<mem, pgbuf, nvm, ADDR, low, high, clash>>
  BY DEF RowErased
<1>3. PICK g : g = w
  OBVIOUS
<1>4. /\ w \in TaskType /\ w.at = "row" /\ w.from = f.from /\ w.len = f.len /\ w.src = f.src
      /\ w.addr = f.addr + RowSize
  <2>1. f.addr + RowSize \in Nat
    BY <1>1, Sizes DEF TaskType
  <2>2. QED
    BY <1>1, <2>1 DEF TaskType
<1>5. fp' = [fp EXCEPT ![t] = w]
  BY <1>1, <1>2 DEF FlashTypeOK, TaskType
<1>6. /\ g \in TaskType /\ g.at = "row" /\ g.from = f.from /\ g.len = f.len /\ g.src = f.src
      /\ g.addr = f.addr + RowSize /\ fp' = [fp EXCEPT ![t] = g] /\ Range(g) = Range(f)
  BY <1>3, <1>4, <1>5 DEF Range
<1> HIDE DEF w
<1>7. IsEraser(g) /\ ~IsWriter(g) /\ Erasing(g)
  <2>1. f.addr \in Range(f)
    BY <1>1 DEF Erasing
  <2>2. \E k \in 0 .. RowsPerSector : f.addr + RowSize = f.from + RowSize * k
    BY <1>1, <2>1, RowIn
  <2>3. QED
    BY <1>1, <1>6, <2>2 DEF IsWriter, IsEraser, Erasing
<1>8. ASSUME ~clash PROVE TaskOK(g)'
  <2>1. Settled' = Settled /\ EraseDone(f)
    BY <1>2, <1>8 DEF Settled, After, FlashInv, Unspoilt, TaskOK
  <2>2. \A a \in Range(g) : a < g.addr => a < f.addr \/ a \in Row(f.addr)
    BY <1>1, <1>6, Sizes DEF Range, Row, TaskType
  <2>3. EraseDone(g)'
    BY <1>1, <1>2, <1>6, <2>1, <2>2 DEF EraseDone, IsEraser
  <2>4. QED
    BY <1>6, <1>7, <2>3 DEF TaskOK, WriteDone, PageRead, Stored, Aimed
<1>9. /\ high' \in [Addr -> SUBSET Bits] /\ low' \in [Addr -> SUBSET Bits] /\ clash' \in BOOLEAN
      /\ pgbuf' \in PageData /\ ADDR' \in Nat
  BY <1>1, <1>2 DEF FlashTypeOK
<1>10. ASSUME ~clash, NEW u \in FlashTasks \ {t}, fp[u].at # "idle" PROVE Range(g) \cap Range(fp[u]) = {}
  BY <1>1, <1>6, <1>10, SameRange
<1>11. \A a \in Addr : low'[a] \subseteq low[a] /\ high[a] \subseteq high'[a]
  BY <1>2
<1>12. QED
  BY <1>1, <1>2, <1>6, <1>7, <1>8, <1>9, <1>10, <1>11, QuietStep DEF Commanding

\* The controller begins to program a page or to erase a row for a task: what
\* the flash comes to changes in the task's bytes only.
LEMMA BusyStep ==
    ASSUME FlashInv, NEW t \in FlashTasks, fp[t].at \in Commanding, NEW g \in TaskType, fp' = [fp EXCEPT ![t] = g],
           IsWriter(g) => Writing(g), IsEraser(g) => Erasing(g), g.at \in {"page", "erasing"},
           Range(g) = Range(fp[t]),
           UNCHANGED <<mem, low, high, clash>>, pgbuf' \in PageData, ADDR' \in Nat,
           nvm_is_ready, nvm' \in [op : {"program", "erase"}, base : Nat, data : PageData],
           nvm'.op = "program" => nvm'.base \in PageBases,
           ~clash => /\ nvm'.op = "erase" => g.at = "erasing" /\ g.addr = nvm'.base
                     /\ \A a \in Addr \ Range(g) : Settled'[a] = Settled[a]
                     /\ \A a \in Range(g) : low[a] \subseteq Settled'[a] /\ Settled'[a] \subseteq high[a]
                     /\ TaskOK(g)'
    PROVE  FlashInv'
<1>1. FlashTypeOK /\ (~clash => Unspoilt)
  BY DEF FlashInv
<1>2. /\ fp' \in [FlashTasks -> TaskType] /\ fp'[t] = g
      /\ \A u \in FlashTasks : u # t => fp'[u] = fp[u]
      /\ \A u \in FlashTasks : (IsWriter(fp'[u]) => Writing(fp'[u])) /\ (IsEraser(fp'[u]) => Erasing(fp'[u]))
  BY <1>1, OneTask
<1>3. nvm' \in [op : {"ready", "program", "erase"}, base : Nat, data : PageData] /\ nvm'.op # "ready"
  OBVIOUS
<1>4. FlashTypeOK'
  BY <1>1, <1>2, <1>3 DEF FlashTypeOK
<1>5. ASSUME ~clash PROVE Unspoilt'
  <2>1. Apart /\ StillReady /\ RowAwaited /\ Bounds /\ \A u \in FlashTasks : TaskOK(fp[u])
    BY <1>1, <1>5 DEF Unspoilt
  <2>2. Apart'
    <3> SUFFICES ASSUME NEW u \in FlashTasks, NEW v \in FlashTasks, u # v
                 PROVE  /\ fp'[u].at # "idle" /\ fp'[v].at # "idle" => Range(fp'[u]) \cap Range(fp'[v]) = {}
                        /\ ~(fp'[u].at \in Commanding /\ fp'[v].at \in Commanding)
      BY DEF Apart
    <3>1. CASE u = t
      BY <1>2, <2>1, <3>1 DEF Apart, Commanding
    <3>2. CASE v = t
      BY <1>2, <2>1, <3>2 DEF Apart, Commanding
    <3>3. CASE u # t /\ v # t
      BY <1>2, <2>1, <3>3 DEF Apart
    <3>4. QED
      BY <3>1, <3>2, <3>3
  <2>3. StillReady' /\ RowAwaited'
    <3>1. \A u \in FlashTasks : fp'[u].at \notin Commanding
      BY <1>2, <2>1 DEF Apart, Commanding
    <3>2. QED
      BY <1>2, <1>5, <3>1 DEF StillReady, RowAwaited
  <2>4. Bounds'
    BY <1>5, <2>1 DEF Bounds
  <2>5. ASSUME NEW u \in FlashTasks, u # t PROVE TaskOK(fp[u])'
    <3>1. fp'[u] = fp[u] /\ TaskOK(fp[u])
      BY <1>2, <2>1, <2>5
    <3>2. ASSUME fp[u].at # "idle", NEW a \in Range(fp[u]) PROVE a \in Addr /\ Settled'[a] = Settled[a]
      <4>1. a \in Addr
        BY <1>1, <3>2, RangeIn
      <4>2. a \notin Range(g)
        BY <2>1, <2>5, <3>2 DEF Apart, Commanding
      <4>3. QED
        BY <1>5, <4>1, <4>2
    <3>3. WriteDone(fp[u])'
      BY <3>1, <3>2 DEF TaskOK, WriteDone, IsWriter
    <3>4. PageRead(fp[u])'
      BY <3>1, <3>2 DEF TaskOK, PageRead
    <3>5. Stored(fp[u])'
      BY <2>1, <2>5, <3>1 DEF TaskOK, Stored, Apart, Commanding
    <3>6. EraseDone(fp[u])'
      BY <3>1, <3>2 DEF TaskOK, EraseDone, IsEraser
    <3>7. Aimed(fp[u])'
      BY <2>1, <2>5, <3>1 DEF Aimed, Apart, Commanding
    <3>8. QED
      BY <3>3, <3>4, <3>5, <3>6, <3>7 DEF TaskOK
  <2>6. TaskOK(fp[t])'
    BY <1>2, <1>5
  <2>7. QED
    BY <2>2, <2>3, <2>4, <2>5, <2>6 DEF Unspoilt
<1>6. QED
  BY <1>4, <1>5 DEF FlashInv

\* The last store of a page starts the programming: the bytes of the write
\* come to have its bits, the others on the page keep theirs.
LEMMA StoreLast ==
    ASSUME FlashInv, NEW t \in FlashTasks, StoreByte(t), fp[t].i = PageSize - 1
    PROVE  FlashInv'
<1> DEFINE f == fp[t]
           buf == [pgbuf EXCEPT ![f.i] = f.buf[f.i]]
           w == [f EXCEPT !.at = "page", !.addr = f.addr + PageSize]
<1>1. /\ FlashTypeOK /\ f \in TaskType /\ f.at = "store" /\ Writing(f) /\ nvm_is_ready
      /\ f.i \in 0 .. PageSize - 1 /\ f.addr \in PageBases
  BY DEF FlashInv, FlashTypeOK, StoreByte, IsWriter, Writing
<1>2. /\ fp' = [fp EXCEPT ![t].at = "page", ![t].addr = @ + PageSize] /\ pgbuf' = buf
      /\ nvm' = [op |-> "program", base |-> f.addr, data |-> buf] /\ ADDR' = f.addr + f.i
      /\ UNCHANGED <<mem, low, high, clash>>
  BY DEF StoreByte
<1>3. PICK g : g = w
  OBVIOUS
<1>4. f.addr \in Nat /\ f.addr + PageSize \in Nat /\ f.from \in Nat /\ f.len \in Nat /\ f.buf \in PageData
  BY <1>1, Sizes DEF TaskType
<1>5. /\ w \in TaskType /\ w.at = "page" /\ w.from = f.from /\ w.len = f.len /\ w.src = f.src
      /\ w.addr = f.addr + PageSize
  BY <1>1, <1>4 DEF TaskType
<1>6. fp' = [fp EXCEPT ![t] = w]
  BY <1>1, <1>2 DEF FlashTypeOK, TaskType
<1>7. /\ g \in TaskType /\ g.at = "page" /\ g.from = f.from /\ g.len = f.len /\ g.src = f.src
      /\ g.addr = f.addr + PageSize /\ fp' = [fp EXCEPT ![t] = g] /\ Range(g) = Range(f)
  BY <1>3, <1>5, <1>6 DEF Range
<1>8. buf \in PageData
  BY <1>1, <1>4 DEF FlashTypeOK, PageData
<1> HIDE DEF w, buf
<1>9. IsWriter(g) /\ ~IsEraser(g) /\ Writing(g)
  <2>1. f.from <= f.addr + PageSize - 1
    BY <1>1 DEF Writing
  <2>2. g.addr >= g.from /\ g.from <= g.addr + PageSize - 1
    BY <1>4, <1>7, <2>1, Sizes
  <2>3. QED
    BY <1>1, <1>7, <2>2 DEF IsWriter, IsEraser, Writing
<1>10. /\ nvm' \in [op : {"program", "erase"}, base : Nat, data : PageData] /\ nvm'.op = "program"
       /\ nvm'.base = f.addr /\ nvm'.data = buf
  BY <1>2, <1>4, <1>8
<1>11. Range(f) \subseteq Addr /\ Page(f.addr) \subseteq Addr
  BY <1>1, RangeIn, PageIn
<1>12. ASSUME ~clash
       PROVE  /\ \A a \in Addr \ Range(f) : Settled'[a] = Settled[a]
              /\ \A a \in Range(f) : Settled'[a] = IF a \in Page(f.addr) THEN f.src ELSE Settled[a]
              /\ \A a \in Range(f) \cap Page(f.addr) : Settled[a] = {}
  <2>1. PageRead(f) /\ Stored(f)
    BY <1>12 DEF FlashInv, Unspoilt, TaskOK
  <2>2. \A i \in 0 .. PageSize - 1 : buf[i] = f.buf[i]
    <3>1. \A i \in 0 .. PageSize - 1 : i = f.i \/ i \in 0 .. f.i - 1
      BY <1>1, Sizes
    <3>2. \A i \in 0 .. PageSize - 1 : buf[i] = IF i = f.i THEN f.buf[f.i] ELSE pgbuf[i]
      BY <1>1 DEF FlashTypeOK, PageData, buf
    <3>3. QED
      BY <1>1, <2>1, <3>1, <3>2 DEF Stored
  <2>3. \A a \in Addr : Settled[a] = mem[a] /\ mem[a] \subseteq Bits
    BY <1>1, SettledReady DEF FlashTypeOK
  <2>4. ASSUME NEW a \in Page(f.addr) PROVE a - f.addr \in 0 .. PageSize - 1
    BY <1>4, Sizes DEF Page
  <2>5. ASSUME NEW a \in Addr
        PROVE  Settled'[a] = IF a \in Page(f.addr) THEN mem[a] \cup f.buf[a - f.addr] ELSE mem[a]
    <3>1. CASE a \in Page(f.addr)
      <4>1. buf[a - f.addr] = f.buf[a - f.addr] /\ f.buf[a - f.addr] \subseteq Bits
        BY <1>4, <2>2, <2>4, <3>1 DEF PageData
      <4>2. Settled'[a] = mem'[a] \cup (nvm'.data[a - nvm'.base] \cap Bits)
        BY <1>10, <3>1 DEF Settled, After
      <4>3. QED
        BY <1>2, <1>10, <3>1, <4>1, <4>2
    <3>2. CASE a \notin Page(f.addr)
      <4>1. Settled'[a] = mem'[a]
        BY <1>10, <3>2 DEF Settled, After
      <4>2. QED
        BY <1>2, <3>2, <4>1
    <3>3. QED
      BY <3>1, <3>2
  <2>6. \A a \in Page(f.addr) : IF a \in Range(f) THEN f.buf[a - f.addr] = f.src /\ Settled[a] = {}
                                ELSE f.buf[a - f.addr] \subseteq mem[a]
    BY <1>1, <2>1 DEF PageRead
  <2>7. QED
    BY <1>11, <2>3, <2>5, <2>6
<1>13. ASSUME ~clash PROVE TaskOK(g)' /\ \A a \in Range(g) : low[a] \subseteq Settled'[a] /\ Settled'[a] \subseteq high[a]
  <2>1. WriteDone(f) /\ Bounds
    BY <1>13 DEF FlashInv, Unspoilt, TaskOK
  <2>2. \A a \in Range(f) : f.src \subseteq high[a] /\ (a < f.addr => Settled[a] = f.src)
    BY <1>1, <2>1 DEF WriteDone, IsWriter
  <2>3. \A a \in Range(f) : a < f.addr + PageSize => a < f.addr \/ a \in Page(f.addr)
    BY <1>4, Sizes DEF Page, Range
  <2>4. \A a \in Range(f) : a < f.addr + PageSize => Settled'[a] = f.src
    BY <1>12, <1>13, <2>2, <2>3
  <2>5. \A a \in Range(f) : low[a] \subseteq Settled'[a] /\ Settled'[a] \subseteq high[a]
    BY <1>11, <1>12, <1>13, <2>1, <2>2 DEF Bounds
  <2>6. WriteDone(g)'
    BY <1>2, <1>7, <2>2, <2>4 DEF WriteDone
  <2>7. QED
    BY <1>7, <1>9, <2>5, <2>6 DEF TaskOK, PageRead, Stored, EraseDone, Aimed
<1>14. ADDR' \in Nat /\ f.at \in Commanding
  BY <1>1, <1>2, <1>4 DEF Commanding
<1>15. QED
  BY <1>1, <1>2, <1>7, <1>8, <1>9, <1>10, <1>12, <1>13, <1>14, BusyStep

\* The next turn of the loop: all rows are erased, or nvm_erase_row begins.
LEMMA NextRowStep ==
    ASSUME FlashInv, NEW t \in FlashTasks, nvm_erase_row(t)
    PROVE  FlashInv'
<1> DEFINE f == fp[t]
<1>1. FlashTypeOK /\ f \in TaskType /\ f.at = "row" /\ Erasing(f)
  BY DEF FlashInv, FlashTypeOK, nvm_erase_row, IsEraser
<1>2. f.from \in Nat /\ f.addr \in Nat /\ f.len \in Nat /\ f.addr >= f.from
  <2>1. PICK k \in 0 .. RowsPerSector : f.addr = f.from + RowSize * k
    BY <1>1 DEF Erasing
  <2>2. RowSize * k \in Nat
    BY <2>1, Sizes
  <2>3. QED
    BY <1>1, <2>1, <2>2 DEF TaskType
<1>3. CASE f.addr \notin Range(f)
  <2>1. Returns(t, 0) /\ UNCHANGED <<mem, pgbuf, nvm, ADDR, clash>>
    BY <1>3 DEF nvm_erase_row
  <2>2. \A a \in Range(f) : a < f.addr
    BY <1>2, <1>3 DEF Range
  <2>3. ~clash => \A a \in Range(f) : Settled[a] = f.src
    BY <1>1, <2>2 DEF FlashInv, Unspoilt, TaskOK, EraseDone, IsEraser, Erasing
  <2>4. QED
    BY <1>1, <2>1, <2>3, ReturnsStep
<1>4. CASE f.addr \in Range(f)
  BY <1>1, <1>4, FindReadyStep DEF nvm_erase_row
<1>5. QED
  BY <1>3, <1>4

\* ADDR is stored; nobody else waits to use it.
LEMMA SetAddrStep ==
    ASSUME FlashInv, NEW t \in FlashTasks, SetAddr(t)
    PROVE  FlashInv'
<1> DEFINE f == fp[t]
           w == [f EXCEPT !.at = "erase"]
<1>1. FlashTypeOK /\ f \in TaskType /\ f.at = "addr" /\ Erasing(f)
  BY DEF FlashInv, FlashTypeOK, SetAddr, IsEraser
<1>2. /\ fp' = [fp EXCEPT ![t].at = "erase"] /\ ADDR' = f.addr
      /\ UNCHANGED <<mem, pgbuf, nvm, low, high, clash>>
  BY DEF SetAddr
<1>3. PICK g : g = w
  OBVIOUS
<1>4. w \in TaskType /\ w.at = "erase" /\ w.from = f.from /\ w.len = f.len /\ w.src = f.src /\ w.addr = f.addr
  BY <1>1 DEF TaskType
<1>5. fp' = [fp EXCEPT ![t] = w]
  BY <1>1, <1>2 DEF FlashTypeOK, TaskType
<1>6. /\ g \in TaskType /\ g.at = "erase" /\ g.from = f.from /\ g.len = f.len /\ g.src = f.src
      /\ g.addr = f.addr /\ fp' = [fp EXCEPT ![t] = g] /\ Range(g) = Range(f)
  BY <1>3, <1>4, <1>5 DEF Range
<1> HIDE DEF w
<1>7. IsEraser(g) /\ ~IsWriter(g) /\ Erasing(g)
  BY <1>1, <1>6 DEF IsWriter, IsEraser, Erasing
<1>8. ASSUME ~clash PROVE TaskOK(g)'
  <2>1. Settled' = Settled /\ EraseDone(f)
    BY <1>2, <1>8 DEF Settled, After, FlashInv, Unspoilt, TaskOK
  <2>2. EraseDone(g)'
    BY <1>1, <1>2, <1>6, <2>1 DEF EraseDone, IsEraser
  <2>3. QED
    BY <1>2, <1>6, <1>7, <2>2 DEF TaskOK, WriteDone, PageRead, Stored, Aimed
<1>9. /\ high' \in [Addr -> SUBSET Bits] /\ low' \in [Addr -> SUBSET Bits] /\ clash' \in BOOLEAN
      /\ pgbuf' \in PageData /\ ADDR' \in Nat
  BY <1>1, <1>2 DEF FlashTypeOK, TaskType
<1>10. ASSUME ~clash, NEW u \in FlashTasks \ {t}, fp[u].at # "idle" PROVE Range(g) \cap Range(fp[u]) = {}
  BY <1>1, <1>6, <1>10, SameRange
<1>11. ~clash => nvm_is_ready /\ \A u \in FlashTasks \ {t} : fp[u].at \notin Commanding
  BY <1>1, AloneReady DEF Commanding
<1>12. \A u \in FlashTasks : fp[u].at = "erase" => fp[u].at \in Commanding
  BY DEF Commanding
<1>13. \A a \in Addr : low'[a] \subseteq low[a] /\ high[a] \subseteq high'[a]
  BY <1>2
<1>14. QED
  BY <1>1, <1>2, <1>6, <1>7, <1>8, <1>9, <1>10, <1>11, <1>12, <1>13, QuietStep

\* The row that an aligned address is in begins there.
LEMMA RowOf ==
    ASSUME NEW f, Erasing(f)
    PROVE  RowSize * (f.addr \div RowSize) = f.addr
<1>1. PICK k \in 0 .. RowsPerSector : f.addr = f.from + RowSize * k
  BY DEF Erasing
<1>2. PICK j \in 0 .. Sectors - 1 : f.from = SectorSize * j
  BY DEF Erasing, SectorBases
<1>3. j \in Nat /\ k \in Nat /\ RowsPerSector * j \in Nat
  BY Sizes
<1>4. f.addr = RowSize * (RowsPerSector * j + k) /\ RowsPerSector * j + k \in Nat
  <2>1. SectorSize * j = RowSize * (RowsPerSector * j)
    BY <1>3, Sizes
  <2>2. PICK m \in Nat : m = RowsPerSector * j
    BY <1>3
  <2>3. RowSize * m + RowSize * k = RowSize * (m + k)
    BY <1>3, Sizes
  <2>4. QED
    BY <1>1, <1>2, <1>3, <2>1, <2>2, <2>3
<1>5. PICK n \in Nat : f.addr = RowSize * n
  BY <1>4
<1>6. (RowSize * n) \div RowSize = n
  BY Sizes
<1>7. QED
  BY <1>5, <1>6

\* ERASE_ROW: the row comes to be erased, which nobody minds.
LEMMA EraseRowStep ==
    ASSUME FlashInv, NEW t \in FlashTasks, EraseRow(t)
    PROVE  FlashInv'
<1> DEFINE f == fp[t]
           w == [f EXCEPT !.at = "erasing"]
<1>1. FlashTypeOK /\ f \in TaskType /\ f.at = "erase" /\ Erasing(f) /\ f.addr \in Range(f)
  BY DEF FlashInv, FlashTypeOK, EraseRow, IsEraser, Erasing
<1>2. /\ fp' = [fp EXCEPT ![t].at = "erasing"] /\ UNCHANGED <<mem, pgbuf, ADDR, low, high, clash>>
      /\ IF nvm_is_ready THEN nvm' = [op |-> "erase", base |-> RowSize * (ADDR \div RowSize), data |-> Erased]
         ELSE nvm' = nvm
  BY DEF EraseRow
<1>3. PICK g : g = w
  OBVIOUS
<1>4. w \in TaskType /\ w.at = "erasing" /\ w.from = f.from /\ w.len = f.len /\ w.src = f.src /\ w.addr = f.addr
  BY <1>1 DEF TaskType
<1>5. fp' = [fp EXCEPT ![t] = w]
  BY <1>1, <1>2 DEF FlashTypeOK, TaskType
<1>6. /\ g \in TaskType /\ g.at = "erasing" /\ g.from = f.from /\ g.len = f.len /\ g.src = f.src
      /\ g.addr = f.addr /\ fp' = [fp EXCEPT ![t] = g] /\ Range(g) = Range(f)
  BY <1>3, <1>4, <1>5 DEF Range
<1> HIDE DEF w
<1>7. IsEraser(g) /\ ~IsWriter(g) /\ Erasing(g)
  BY <1>1, <1>6 DEF IsWriter, IsEraser, Erasing
<1>8. /\ high' \in [Addr -> SUBSET Bits] /\ low' \in [Addr -> SUBSET Bits] /\ clash' \in BOOLEAN
      /\ pgbuf' \in PageData /\ ADDR' \in Nat /\ ADDR \in Nat
  BY <1>1, <1>2 DEF FlashTypeOK
<1>9. ~clash => nvm_is_ready /\ ADDR = f.addr
  BY <1>1, AloneReady DEF Commanding, FlashInv, Unspoilt, TaskOK, Aimed
<1>10. CASE ~nvm_is_ready
  <2>1. clash /\ clash'
    BY <1>2, <1>9, <1>10
  <2>2. \A a \in Addr : low'[a] \subseteq low[a] /\ high[a] \subseteq high'[a]
    BY <1>2
  <2>3. QED
    BY <1>1, <1>2, <1>6, <1>7, <1>8, <1>10, <2>1, <2>2, QuietStep
<1>11. CASE nvm_is_ready
  <2>1. /\ nvm' \in [op : {"program", "erase"}, base : Nat, data : PageData] /\ nvm'.op = "erase"
        /\ nvm'.base = RowSize * (ADDR \div RowSize)
    <3>1. RowSize * (ADDR \div RowSize) \in Nat
      BY <1>8, Sizes
    <3>2. QED
      BY <1>2, <1>11, <3>1, IdleType
  <2>2. Row(f.addr) \subseteq Range(f) /\ Range(f) \subseteq Addr
    BY <1>1, RowIn, RangeIn
  <2>3. ASSUME ~clash PROVE nvm'.base = f.addr
    BY <1>1, <1>9, <2>1, <2>3, RowOf
  <2>4. ASSUME ~clash, NEW a \in Addr PROVE Settled'[a] = IF a \in Row(f.addr) THEN {} ELSE Settled[a]
    <3>1. Settled[a] = mem[a] /\ mem[a] \subseteq Bits
      BY <1>1, <1>11, SettledReady DEF FlashTypeOK
    <3>2. Settled'[a] = IF a \in Row(f.addr) THEN mem'[a] \ Bits ELSE mem'[a]
      BY <2>1, <2>3, <2>4 DEF Settled, After
    <3>3. QED
      BY <1>2, <3>1, <3>2
  <2>5. ASSUME ~clash PROVE TaskOK(g)' /\ \A a \in Range(g) : low[a] \subseteq Settled'[a] /\ Settled'[a] \subseteq high[a]
    <3>1. EraseDone(f) /\ Bounds
      BY <2>5 DEF FlashInv, Unspoilt, TaskOK
    <3>2. \A a \in Range(f) : low[a] = {} /\ (a < f.addr => Settled[a] = {})
      BY <1>1, <3>1 DEF EraseDone, IsEraser
    <3>3. EraseDone(g)'
      BY <1>2, <1>6, <2>2, <2>4, <2>5, <3>2 DEF EraseDone
    <3>4. TaskOK(g)'
      BY <1>6, <1>7, <3>3 DEF TaskOK, WriteDone, PageRead, Stored, Aimed
    <3>5. QED
      BY <1>6, <2>2, <2>4, <2>5, <3>1, <3>2, <3>4 DEF Bounds
  <2>6. ASSUME ~clash, NEW a \in Addr \ Range(g) PROVE Settled'[a] = Settled[a]
    BY <1>6, <2>2, <2>4, <2>6
  <2>7. f.at \in Commanding /\ nvm'.op # "program"
    BY <1>1, <2>1 DEF Commanding
  <2>8. QED
    BY <1>2, <1>6, <1>7, <1>8, <1>11, <2>1, <2>3, <2>5, <2>6, <2>7, BusyStep
<1>12. QED
  BY <1>10, <1>11

\* The controller ends: the flash is what it was coming to.
LEMMA NvmDoneStep ==
    ASSUME FlashInv, NvmDone
    PROVE  FlashInv'
<1>1. FlashTypeOK /\ (~clash => Unspoilt)
  BY DEF FlashInv
<1>2. mem' = Settled /\ nvm' = Ready /\ UNCHANGED <<ADDR, fp, low, high, clash>> /\ ~nvm_is_ready
  BY DEF NvmDone, Settled, nvm_is_ready
<1>3. pgbuf' \in PageData /\ (nvm.op # "program" => pgbuf' = pgbuf)
  BY <1>1, IdleType DEF NvmDone, FlashTypeOK
<1>4. mem' \in [Addr -> SUBSET Bits]
  <2>1. \A a \in Addr : Settled[a] \in SUBSET Bits
    <3> SUFFICES ASSUME NEW a \in Addr PROVE Settled[a] \in SUBSET Bits
      OBVIOUS
    <3>1. mem[a] \in SUBSET Bits
      BY <1>1 DEF FlashTypeOK
    <3>2. QED
      BY <3>1 DEF Settled, After
  <2>2. QED
    BY <1>2, <2>1 DEF Settled, After
<1>5. Ready \in [op : {"ready", "program", "erase"}, base : Nat, data : PageData] /\ Ready.op = "ready"
  BY IdleType DEF Ready
<1>6. FlashTypeOK'
  BY <1>1, <1>2, <1>3, <1>4, <1>5 DEF FlashTypeOK
<1>7. \A a \in Addr : Settled'[a] = Settled[a] /\ mem'[a] = Settled[a]
  <2>1. \A a \in Addr : Settled'[a] = mem'[a]
    BY <1>2, <1>5 DEF Settled, After
  <2>2. QED
    BY <1>2, <2>1
<1>8. ASSUME ~clash PROVE Unspoilt'
  <2>1. Apart /\ StillReady /\ RowAwaited /\ Bounds /\ \A u \in FlashTasks : TaskOK(fp[u])
    BY <1>1, <1>8 DEF Unspoilt
  <2>2. Apart' /\ StillReady' /\ RowAwaited'
    BY <1>2, <1>5, <2>1 DEF Apart, StillReady, RowAwaited, nvm_is_ready
  <2>3. Bounds'
    BY <1>2, <1>7, <2>1 DEF Bounds
  <2>4. ASSUME NEW u \in FlashTasks PROVE TaskOK(fp[u])'
    <3>1. TaskOK(fp[u]) /\ (fp[u].at # "idle" => Range(fp[u]) \subseteq Addr)
      BY <1>1, <2>1, RangeIn
    <3>2. WriteDone(fp[u])'
      BY <1>2, <1>7, <3>1 DEF TaskOK, WriteDone, IsWriter
    <3>3. EraseDone(fp[u])'
      BY <1>2, <1>7, <3>1 DEF TaskOK, EraseDone, IsEraser
    <3>4. Stored(fp[u])'
      BY <1>2, <2>1 DEF Stored, StillReady, Commanding
    <3>5. ASSUME fp[u].at \in {"write", "clear", "store"}, NEW a \in Page(fp[u].addr) PROVE a \in Addr /\ mem[a] \subseteq mem'[a]
      <4>1. fp[u].addr \in PageBases
        BY <1>1, <3>5 DEF FlashTypeOK, IsWriter, Writing
      <4>2. a \in Addr
        BY <3>5, <4>1, PageIn
      <4>3. nvm.op = "erase" => a \notin Row(nvm.base)
        BY <1>1, <2>1, <3>5, RowPages
      <4>4. QED
        BY <1>1, <1>7, <4>2, <4>3, SettledIs
    <3>6. PageRead(fp[u])'
      BY <1>2, <1>7, <3>1, <3>5 DEF TaskOK, PageRead
    <3>7. Aimed(fp[u])'
      BY <1>2, <3>1 DEF TaskOK, Aimed
    <3>8. QED
      BY <3>2, <3>3, <3>4, <3>6, <3>7 DEF TaskOK
  <2>5. QED
    BY <2>2, <2>3, <2>4 DEF Unspoilt
<1>9. QED
  BY <1>2, <1>6, <1>8 DEF FlashInv

\* A reset ends every call and stops the controller half way.
LEMMA ResetStep ==
    ASSUME FlashInv, Reset
    PROVE  FlashInv'
<1>1. FlashTypeOK /\ (~clash => Unspoilt)
  BY DEF FlashInv
<1>2. /\ nvm' = Ready /\ pgbuf' = Erased /\ ADDR' = 0 /\ fp' = [t \in FlashTasks |-> Idle] /\ UNCHANGED <<high, clash>>
  BY DEF Reset
<1>3. Ready \in [op : {"ready", "program", "erase"}, base : Nat, data : PageData] /\ Ready.op = "ready"
  BY IdleType DEF Ready
<1>4. CASE nvm = Ready
  <2>1. UNCHANGED <<mem, low>>
    BY <1>4 DEF Reset
  <2>2. FlashTypeOK'
    BY <1>1, <1>2, <1>3, <2>1, IdleType DEF FlashTypeOK
  <2>3. \A a \in Addr : Settled'[a] = mem'[a]
    BY <1>2, <1>3 DEF Settled, After
  <2>4. \A a \in Addr : Settled[a] = mem[a]
    BY <1>1, <1>4, SettledReady DEF nvm_is_ready
  <2>5. ~clash => Bounds'
    BY <1>1, <1>2, <2>1, <2>3, <2>4 DEF Unspoilt, Bounds
  <2>6. QED
    BY <1>2, <1>3, <2>2, <2>5, IdleType
       DEF FlashInv, Unspoilt, Apart, StillReady, RowAwaited, Commanding, TaskOK, WriteDone, PageRead, Stored,
           EraseDone, Aimed, Idle
<1>5. CASE nvm # Ready
  <2>1. nvm.op = "program" \/ nvm.op = "erase"
    BY <1>1, <1>5 DEF FlashTypeOK
  <2>2. PICK part \in [Busy -> SUBSET Bits] : mem' = After([a \in Addr |-> IF a \in Busy THEN part[a] ELSE {}])
    BY <1>5 DEF Reset
  <2>3. low' = [a \in Addr |-> IF a \in Busy /\ ~(low[a] \subseteq mem[a]) THEN low[a] \cap mem[a] ELSE low[a]]
    BY <1>5 DEF Reset
  <2>4. ASSUME NEW a \in Addr
        PROVE  /\ a \notin Busy => mem'[a] = mem[a] /\ Settled[a] = mem[a] /\ low'[a] = low[a]
               /\ a \in Busy /\ nvm.op = "program" =>
                    mem[a] \subseteq mem'[a] /\ mem'[a] \subseteq Settled[a] /\ low'[a] \subseteq mem[a]
               /\ a \in Busy /\ nvm.op = "erase" => mem'[a] \subseteq mem[a] /\ low'[a] \subseteq low[a]
               /\ mem'[a] \subseteq Bits /\ low'[a] \subseteq Bits
    <3>1. mem[a] \subseteq Bits /\ low[a] \subseteq Bits
      BY <1>1 DEF FlashTypeOK
    <3>2. CASE a \notin Busy
      <4>1. mem'[a] = mem[a]
        BY <2>1, <2>2, <3>2 DEF After, Busy
      <4>2. QED
        BY <1>1, <2>1, <2>3, <3>1, <3>2, <4>1, SettledIs DEF Busy
    <3>3. CASE a \in Busy /\ nvm.op = "program"
      <4>1. a \in Page(nvm.base) /\ nvm.op # "erase"
        BY <3>3 DEF Busy
      <4>2. mem'[a] = mem[a] \cup (nvm.data[a - nvm.base] \cap part[a]) /\ part[a] \subseteq Bits
        BY <2>2, <3>3, <4>1 DEF After
      <4>3. Settled[a] = mem[a] \cup nvm.data[a - nvm.base]
        BY <1>1, <3>3, <4>1, SettledIs
      <4>4. low'[a] \subseteq mem[a]
        BY <2>3, <3>3
      <4>5. QED
        BY <3>1, <3>3, <4>2, <4>3, <4>4
    <3>4. CASE a \in Busy /\ nvm.op = "erase"
      <4>1. a \in Row(nvm.base) /\ nvm.op # "program"
        BY <3>4 DEF Busy
      <4>2. mem'[a] = mem[a] \ part[a]
        BY <2>2, <3>4, <4>1 DEF After
      <4>3. low'[a] \subseteq low[a]
        BY <2>3
      <4>4. QED
        BY <3>1, <3>4, <4>2, <4>3
    <3>5. QED
      BY <2>1, <3>2, <3>3, <3>4
  <2>5. mem' \in [Addr -> SUBSET Bits] /\ low' \in [Addr -> SUBSET Bits]
    <3>1. mem' = [a \in Addr |-> mem'[a]]
      BY <2>2 DEF After
    <3>2. low' = [a \in Addr |-> low'[a]]
      BY <2>3
    <3>3. QED
      BY <2>4, <3>1, <3>2
  <2>6. FlashTypeOK'
    BY <1>1, <1>2, <1>3, <2>5, IdleType DEF FlashTypeOK
  <2>7. \A a \in Addr : Settled'[a] = mem'[a]
    BY <1>2, <1>3 DEF Settled, After
  <2>8. ASSUME ~clash, nvm.op = "erase", NEW a \in Busy PROVE low[a] = {}
    <3>1. PICK t \in FlashTasks : fp[t].at = "erasing" /\ Row(nvm.base) \subseteq Range(fp[t])
      BY <1>1, <2>8, RowOwned DEF Unspoilt
    <3>2. EraseDone(fp[t]) /\ a \in Range(fp[t])
      BY <1>1, <2>8, <3>1 DEF Unspoilt, TaskOK, Busy
    <3>3. QED
      BY <3>1, <3>2 DEF EraseDone, IsEraser
  <2>9. ASSUME ~clash PROVE Bounds'
    <3> SUFFICES ASSUME NEW a \in Addr PROVE mem'[a] \subseteq high[a] /\ low'[a] \subseteq mem'[a]
      BY <1>2, <2>7 DEF Bounds
    <3>1. mem[a] \subseteq high[a] /\ low[a] \subseteq Settled[a] /\ Settled[a] \subseteq high[a]
      BY <1>1, <2>9 DEF Unspoilt, Bounds
    <3>2. CASE a \notin Busy
      BY <2>4, <3>1, <3>2
    <3>3. CASE a \in Busy /\ nvm.op = "program"
      BY <2>4, <3>1, <3>3
    <3>4. CASE a \in Busy /\ nvm.op = "erase"
      BY <2>4, <2>8, <2>9, <3>1, <3>4
    <3>5. QED
      BY <2>1, <3>2, <3>3, <3>4
  <2>10. QED
    BY <1>2, <1>3, <2>6, <2>9, IdleType
       DEF FlashInv, Unspoilt, Apart, StillReady, RowAwaited, Commanding, TaskOK, WriteDone, PageRead, Stored,
           EraseDone, Aimed, Idle
<1>6. QED
  BY <1>4, <1>5

LEMMA FlashInvStep == FlashInv /\ [Next]_vars => FlashInv'
<1> SUFFICES ASSUME FlashInv, [Next]_vars PROVE FlashInv'
  OBVIOUS
<1>1. ASSUME NEW t \in FlashTasks, Call(t) PROVE FlashInv'
  BY <1>1, WriteStarts, EraseStarts DEF Call
<1>2. ASSUME NEW t \in FlashTasks, Step(t) PROVE FlashInv'
  <2>1. CASE nvm_write_buffer(t)
    BY <2>1, FindReadyStep DEF nvm_write_buffer
  <2>2. QED
    BY <1>2, <2>1, WritePageStep, ClearBufferStep, StoreOne, StoreLast, NextRowStep, SetAddrStep, EraseRowStep,
       RowErasedStep DEF Step
<1>3. CASE UNCHANGED flash
  <2>1. UNCHANGED <<mem, pgbuf, nvm, ADDR, fp, low, high, clash>>
    BY <1>3 DEF flash
  <2>2. Settled' = Settled
    BY <2>1 DEF Settled, After
  <2>3. FlashTypeOK' = FlashTypeOK
    BY <2>1 DEF FlashTypeOK
  <2>4. Unspoilt' = Unspoilt
    BY <2>1, <2>2 DEF Unspoilt, Apart, StillReady, RowAwaited, nvm_is_ready, Bounds, TaskOK, WriteDone, PageRead,
                     Stored, EraseDone, Aimed
  <2>5. QED
    BY <2>1, <2>3, <2>4 DEF FlashInv
<1>4. QED
  BY <1>1, <1>2, <1>3, NvmDoneStep, ResetStep DEF Next, vars, PowerLost, WdtExpires

\* Whatever is written and erased, by however many tasks, wherever it fails or
\* a reset cuts it off: until two tasks clash a byte has the bits it should.
THEOREM FlashBytesKept == Spec => []FlashKept
<1>1. FlashInv => FlashKept
  BY DEF FlashInv, Unspoilt, Bounds, FlashKept
<1>2. QED
  BY <1>1, FlashInvInit, FlashInvStep, PTL DEF Spec
=============================================================================
