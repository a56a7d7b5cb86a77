------------------------------ MODULE HalFlash ------------------------------
(***************************************************************************)
(* Writing and erasing the SAMD21's flash                                  *)
(* (hw/mcu/atmel/samd21xx/src/hal_flash.c on the ASF driver nvm.c), with   *)
(* the power lost, or the watchdog resetting the processor, at any time.   *)
(* A write is made page by page: the page is read, the new bytes put in,   *)
(* the whole page stored in the controller's page buffer, of which there   *)
(* is one, and the last store starts the programming.                      *)
(*                                                                         *)
(* A byte is the set of its bits that are programmed, to 0: an erased byte *)
(* is {}, and programming adds bits.  The NVM controller is external.      *)
(* Stores are modelled byte by byte, where the code stores two at a time.  *)
(* The driver takes no lock: its test of the controller, its store to ADDR *)
(* and its command are steps of their own.                                 *)
(***************************************************************************)
EXTENDS HalWatchdog, TLC

CONSTANTS
    FlashTasks, \* tasks that use the flash
    PageSize, PagesPerRow, RowsPerSector, Sectors,
    Bytes,      \* bytes that are written
    MaxLen,     \* bound: length of a write
    MaxOps,     \* bound: writes, erasures and calls of the watchdog's functions
    MaxResets   \* bound: resets

ASSUME FlashAssumption ==
    /\ {PageSize, PagesPerRow, RowsPerSector, Sectors} \subseteq Nat \ {0}
    /\ {MaxLen, MaxOps, MaxResets} \subseteq Nat

RowSize == PageSize * PagesPerRow
SectorSize == RowSize * RowsPerSector
Addr == 0 .. Sectors * SectorSize - 1
Page(base) == base .. base + PageSize - 1
Row(base) == base .. base + RowSize - 1
Erased == [i \in 0 .. PageSize - 1 |-> {}]

VARIABLES
    mem,        \* the flash
    pgbuf,      \* the page buffer of the controller
    nvm,        \* what the controller is doing: [op, base, data]
    ADDR,       \* its address register, as the address of a byte
    fp,         \* each task: where it is, and its variables
    \* history
    low, high,  \* the bits of each byte that have to be programmed, and that may be
    clash,      \* two tasks have used the controller, or the same bytes, at once
    ops, resets

flash == <<mem, pgbuf, nvm, ADDR, fp, low, high, clash>>
vars == <<flash, wdtVars, ops, resets>>

Ready == [op |-> "ready", base |-> 0, data |-> Erased]
Idle == [at |-> "idle", from |-> 0, len |-> 0, src |-> {}, addr |-> 0, buf |-> Erased, i |-> 0]
Range(f) == f.from .. f.from + f.len - 1

nvm_is_ready == nvm = Ready

Init ==
    /\ WdtInit
    /\ mem = [a \in Addr |-> {}] /\ pgbuf = Erased /\ nvm = Ready /\ ADDR = 0
    /\ fp = [t \in FlashTasks |-> Idle]
    /\ low = mem /\ high = mem /\ clash = FALSE
    /\ ops = 0 /\ resets = 0

\* The task ends its call; rc 0 says that what was asked for is done.
Returns(t, rc) ==
    /\ fp' = [fp EXCEPT ![t] = Idle]
    /\ LET done(a) == rc = 0 /\ a \in Range(fp[t])
       IN  /\ low' = [a \in Addr |-> IF done(a) THEN fp[t].src ELSE low[a]]
           /\ high' = [a \in Addr |-> IF done(a) THEN fp[t].src ELSE high[a]]

\* Where a task is that has found the controller ready and has not given its
\* last command yet.
Commanding == {"clear", "store", "addr", "erase"}
OtherCommands(t) == \E u \in FlashTasks \ {t} : fp[u].at \in Commanding
Overlaps(t, cells) == \E u \in FlashTasks \ {t} : fp[u].at # "idle" /\ Range(fp[u]) \cap cells # {}

-----------------------------------------------------------------------------
(* samd21_flash_write *)

samd21_flash_write(t, a, len, byte) ==
    /\ fp[t].at = "idle" /\ a + len - 1 \in Addr
    /\ fp' = [fp EXCEPT ![t] = [Idle EXCEPT !.at = "page", !.from = a, !.len = len, !.src = byte, !.addr = a]]
    /\ high' = [c \in Addr |-> IF c \in a .. a + len - 1 THEN high[c] \cup byte ELSE high[c]]
    /\ clash' = (clash \/ Overlaps(t, a .. a + len - 1))
    /\ UNCHANGED <<mem, pgbuf, nvm, ADDR, low>>

Base(f) == PageSize * (f.addr \div PageSize)

\* Mutation of Mine: write_len is not limited to what is left.
MineWhole(f) == IF f.addr \in Range(f) THEN f.addr .. Base(f) + PageSize - 1 ELSE {}

\* The bytes of the page at addr that are to be written: write_len of them.
Mine(f) == Page(Base(f)) \cap (f.addr .. f.from + f.len - 1)

\* The page as it is in the flash; the controller must be ready.
nvm_read_buffer(base) == [i \in 0 .. PageSize - 1 |-> mem[base + i]]

\* The turn of the loop for the page at addr: it is read, unless the controller
\* is busy, and the bytes are put in, unless one of them is not erased.
WritePage(t) ==
    LET f == fp[t]
        base == Base(f)
        mine == Mine(f)
        page == nvm_read_buffer(base)
        blank == \A a \in mine : page[a - base] = {}
        buf == [i \in 0 .. PageSize - 1 |-> IF base + i \in mine THEN f.src ELSE page[i]]
    IN  /\ f.at = "page"
        /\ IF mine = {} THEN Returns(t, 0)
           ELSE IF ~nvm_is_ready \/ ~blank THEN Returns(t, -1)
           ELSE fp' = [fp EXCEPT ![t].at = "write", ![t].addr = base, ![t].buf = buf] /\ UNCHANGED <<low, high>>
        /\ UNCHANGED <<mem, pgbuf, nvm, ADDR, clash>>

\* The test of the controller that nvm_write_buffer and nvm_erase_row begin
\* with: a busy one is refused.
FindReady(t, next) ==
    /\ IF ~nvm_is_ready
         THEN Returns(t, -1) /\ UNCHANGED clash
         ELSE /\ fp' = [fp EXCEPT ![t].at = next] /\ clash' = (clash \/ OtherCommands(t))
              /\ UNCHANGED <<low, high>>
    /\ UNCHANGED <<mem, pgbuf, nvm, ADDR>>

nvm_write_buffer(t) == fp[t].at = "write" /\ FindReady(t, "clear")

\* PAGE_BUFFER_CLEAR; a busy controller drops the command.
ClearBuffer(t) ==
    /\ fp[t].at = "clear"
    /\ pgbuf' = (IF nvm_is_ready THEN Erased ELSE pgbuf)
    /\ fp' = [fp EXCEPT ![t].at = "store", ![t].i = 0]
    /\ UNCHANGED <<mem, nvm, ADDR, low, high, clash>>

\* One store of its loop, which waits for a busy controller; the last one of a
\* page starts the programming, and the call returns while that goes on.
StoreByte(t) ==
    LET f == fp[t]
        buf == [pgbuf EXCEPT ![f.i] = f.buf[f.i]]
    IN  /\ f.at = "store" /\ nvm_is_ready
        /\ pgbuf' = buf /\ ADDR' = f.addr + f.i
        /\ IF f.i = PageSize - 1
             THEN /\ nvm' = [op |-> "program", base |-> f.addr, data |-> buf]
                  /\ fp' = [fp EXCEPT ![t].at = "page", ![t].addr = @ + PageSize]
             ELSE fp' = [fp EXCEPT ![t].i = @ + 1] /\ UNCHANGED nvm
        /\ UNCHANGED <<mem, low, high, clash>>

-----------------------------------------------------------------------------
(* samd21_flash_erase_sector *)

samd21_flash_erase_sector(t, a) ==
    /\ fp[t].at = "idle" /\ a \in Addr /\ a % SectorSize = 0
    /\ fp' = [fp EXCEPT ![t] = [Idle EXCEPT !.at = "row", !.from = a, !.len = SectorSize, !.addr = a]]
    /\ low' = [c \in Addr |-> IF c \in a .. a + SectorSize - 1 THEN {} ELSE low[c]]
    /\ clash' = (clash \/ Overlaps(t, a .. a + SectorSize - 1))
    /\ UNCHANGED <<mem, pgbuf, nvm, ADDR, high>>

\* The next turn of the loop: nvm_erase_row of the next row.
nvm_erase_row(t) ==
    /\ fp[t].at = "row"
    /\ IF fp[t].addr \notin Range(fp[t])
         THEN Returns(t, 0) /\ UNCHANGED <<mem, pgbuf, nvm, ADDR, clash>>
         ELSE FindReady(t, "addr")

SetAddr(t) ==
    /\ fp[t].at = "addr"
    /\ ADDR' = fp[t].addr /\ fp' = [fp EXCEPT ![t].at = "erase"]
    /\ UNCHANGED <<mem, pgbuf, nvm, low, high, clash>>

\* ERASE_ROW, of the row that ADDR is in by now.
EraseRow(t) ==
    /\ fp[t].at = "erase"
    /\ nvm' = (IF nvm_is_ready THEN [op |-> "erase", base |-> RowSize * (ADDR \div RowSize), data |-> Erased]
               ELSE nvm)
    /\ fp' = [fp EXCEPT ![t].at = "erasing"]
    /\ UNCHANGED <<mem, pgbuf, ADDR, low, high, clash>>

RowErased(t) ==
    /\ fp[t].at = "erasing" /\ nvm_is_ready
    /\ fp' = [fp EXCEPT ![t].at = "row", ![t].addr = @ + RowSize]
    /\ UNCHANGED <<mem, pgbuf, nvm, ADDR, low, high, clash>>

-----------------------------------------------------------------------------
(* The controller, and resets *)

\* What programming or erasing makes of the flash, as far as it gets: of each
\* byte the bits in part.
After(part) ==
    [a \in Addr |->
        IF nvm.op = "program" /\ a \in Page(nvm.base) THEN mem[a] \cup (nvm.data[a - nvm.base] \cap part[a])
        ELSE IF nvm.op = "erase" /\ a \in Row(nvm.base) THEN mem[a] \ part[a]
        ELSE mem[a]]

Bits == UNION Bytes
Busy == IF nvm.op = "program" THEN Page(nvm.base) ELSE Row(nvm.base)

NvmDone ==
    /\ nvm # Ready
    /\ mem' = After([a \in Addr |-> Bits]) /\ nvm' = Ready
    /\ pgbuf' \in IF nvm.op = "program" THEN {pgbuf, Erased} ELSE {pgbuf}
    /\ UNCHANGED <<ADDR, fp, low, high, clash, wdtVars, ops, resets>>

\* A reset ends every call where it is.  Programming that was going on stops
\* half way, and what it was about need not be in the flash, although the
\* write may have returned.
Reset ==
    /\ resets < MaxResets /\ resets' = resets + 1
    /\ WdtReset
    /\ IF nvm = Ready THEN UNCHANGED <<mem, low>>
       ELSE /\ \E part \in [Busy -> SUBSET Bits] :
                 mem' = After([a \in Addr |-> IF a \in Busy THEN part[a] ELSE {}])
            /\ low' = [a \in Addr |-> IF a \in Busy /\ ~(low[a] \subseteq mem[a]) THEN low[a] \cap mem[a] ELSE low[a]]
    /\ pgbuf' = Erased /\ nvm' = Ready /\ ADDR' = 0
    /\ fp' = [t \in FlashTasks |-> Idle]
    /\ UNCHANGED <<high, clash, ops>>

PowerLost == Reset

WdtExpires == wdt.on /\ Reset

-----------------------------------------------------------------------------

Call(t) ==
    /\ ops < MaxOps /\ ops' = ops + 1
    /\ \/ \E a \in Addr, len \in 1 .. MaxLen, byte \in Bytes : samd21_flash_write(t, a, len, byte)
       \/ \E a \in Addr : samd21_flash_erase_sector(t, a)

Step(t) ==
    \/ WritePage(t) \/ nvm_write_buffer(t) \/ ClearBuffer(t) \/ StoreByte(t)
    \/ nvm_erase_row(t) \/ SetAddr(t) \/ EraseRow(t) \/ RowErased(t)

Watchdog == ops < MaxOps /\ ops' = ops + 1 /\ WdtNext

Next ==
    \/ \E t \in FlashTasks : Call(t) /\ UNCHANGED <<wdtVars, resets>>
    \/ \E t \in FlashTasks : Step(t) /\ UNCHANGED <<wdtVars, ops, resets>>
    \/ NvmDone \/ PowerLost \/ WdtExpires
    \/ Watchdog /\ UNCHANGED <<flash, resets>>

Spec == Init /\ [][Next]_vars

-----------------------------------------------------------------------------
(* Properties *)

\* The tasks are alike, and FlashKept says nothing once they have clashed.
Symmetric == Permutations(FlashTasks)
Unclashed == ~clash

\* What is in the flash once the controller has done its work.
Settled == After([a \in Addr |-> Bits])

\* A byte has the bits programmed that the last completed write or erasure
\* gave it and none besides those a write has asked for since, whatever was
\* written around it in its page, failed, or was cut off by a reset; unless two
\* tasks have been between the test of the controller and the command that
\* follows it, or at the same bytes, at once.  What
\* a reset cuts off after its write has returned may be missing.
FlashKept ==
    clash \/ \A a \in Addr : low[a] \subseteq Settled[a] /\ Settled[a] \subseteq high[a]
=============================================================================
