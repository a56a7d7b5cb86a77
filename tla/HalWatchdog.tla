----------------------------- MODULE HalWatchdog -----------------------------
(***************************************************************************)
(* The watchdog of the SAMD21 (hw/mcu/atmel/samd21xx/src/hal_watchdog.c on *)
(* the ASF driver wdt.c).  It counts the 16 Hz clock that hal_watchdog_init*)
(* sets up and resets the processor unless it is tickled in time.          *)
(***************************************************************************)
EXTENDS Integers

CONSTANT Msecs      \* arguments of hal_watchdog_init: uint32_t

ASSUME WatchdogAssumption == Msecs \subseteq Nat

VARIABLES
    g_wdt_config,   \* [timeout_period, enable]; the period a WDT_PERIOD_*CLK
    wdt,            \* the WDT: whether it is enabled, and its period
    asked           \* history: the time last asked for, -1 if that was refused

wdtVars == <<g_wdt_config, wdt, asked>>

WDT_PERIOD_NONE == 0
WDT_PERIOD_16384CLK == 12

Off == [on |-> FALSE, period |-> WDT_PERIOD_16384CLK]

WdtInit ==
    /\ g_wdt_config = [timeout_period |-> WDT_PERIOD_NONE, enable |-> FALSE]
    /\ wdt = Off /\ asked = -1

\* Clocks of a period.
Clk(period) == 8 * 2 ^ (period - 1)

\* Mutation of Clocks: not multiplied by 2.
ClocksOnce(msecs) == (16 * (msecs % 2 ^ 28)) \div 1000

\* 16 * expire_msecs is taken modulo 2^32.
Clocks(msecs) == ((16 * (msecs % 2 ^ 28)) \div 1000) * 2

\* The loop: the first period that is long enough, if there is one.
Period(clocks) ==
    LET enough == {q \in 1 .. WDT_PERIOD_16384CLK : clocks <= Clk(q)}
    IN  IF enough = {} THEN WDT_PERIOD_NONE ELSE CHOOSE q \in enough : \A r \in enough : q <= r

-----------------------------------------------------------------------------

\* wdt_set_config: refused without a period; otherwise the WDT is stopped, and
\* set and started again if the configuration says so.
wdt_set_config(cfg) ==
    wdt' = IF cfg.timeout_period = WDT_PERIOD_NONE THEN wdt
           ELSE [on |-> cfg.enable, period |-> IF cfg.enable THEN cfg.timeout_period ELSE wdt.period]

\* A time that is too long leaves the defaults in g_wdt_config, and the WDT
\* as it is.
hal_watchdog_init(msecs) ==
    LET period == Period(Clocks(msecs))
        cfg == [timeout_period |-> period, enable |-> FALSE]
    IN  IF period = WDT_PERIOD_NONE
          THEN /\ g_wdt_config' = [timeout_period |-> WDT_PERIOD_16384CLK, enable |-> FALSE]
               /\ asked' = -1 /\ UNCHANGED wdt
          ELSE g_wdt_config' = cfg /\ wdt_set_config(cfg) /\ asked' = msecs

hal_watchdog_enable ==
    /\ g_wdt_config' = [g_wdt_config EXCEPT !.enable = TRUE]
    /\ wdt_set_config(g_wdt_config')
    /\ UNCHANGED asked

\* The processor starts again.
WdtReset ==
    /\ g_wdt_config' = [timeout_period |-> WDT_PERIOD_NONE, enable |-> FALSE]
    /\ wdt' = Off /\ asked' = -1

WdtNext == hal_watchdog_enable \/ \E msecs \in Msecs : hal_watchdog_init(msecs)

-----------------------------------------------------------------------------

\* Once enabled, the watchdog gives the program the time that was accepted, at
\* 16 clocks a second, and no more than four times that or half a second;
\* unless the time was so long that the product wrapped around.
WatchdogAsAsked ==
    wdt.on /\ asked >= 0 /\ asked < 2 ^ 28 =>
        /\ asked <= (Clk(wdt.period) * 1000) \div 16
        /\ wdt.period > 1 => (Clk(wdt.period) * 1000) \div 16 <= 4 * asked
=============================================================================
