---------------------------- MODULE WincHifProofs ----------------------------
(***************************************************************************)
(* Proofs about the host interface of the WINC1500, for any number of      *)
(* messages, packets and failing accesses.                                 *)
(***************************************************************************)
EXTENDS WincHif, TLAPS

-----------------------------------------------------------------------------
(* Where the tasks may be *)

SendPCs == {"s_wake", "s_waken", "s_ask", "s_wait", "s_write", "s_give", "s_sleep",
            "s_asleep"}

\* In hif_isr, and not in a hif_send of the callback.
IsrPCs == {"wake", "waken", "ctrl0", "clear", "header", "receive", "rx_done", "irq_on",
           "rx_late", "irq_late", "callback", "sleep", "asleep"}

\* Types of what is not a flag, and what they need of the locals.
HifTypeOK ==
    /\ gu8Interrupt \in 0 .. 255 /\ gu8ChipSleep \in 0 .. 255
    /\ pc \in [Tasks -> {"idle", "release", "loop", "store"} \cup IsrPCs \cup SendPCs]
    /\ dec \in 0 .. 255 /\ wi_mtx \in Tasks \cup {Nobody}
    /\ sending \in [Tasks -> Nat] /\ dma_addr \in [Tasks -> Nat]
    /\ back \in [Tasks -> {"idle", "release", "receive", "callback"}]
    /\ allocs \in 0 .. MaxSends /\ buffer \in 0 .. allocs
    /\ mem \in [1 .. MaxSends -> Nat] /\ given \subseteq 1 .. MaxSends
    /\ msgs \in Nat /\ sends \in Nat /\ fails \in Nat /\ leaked \in Nat
    /\ received \in Seq(Nat) /\ taken \in Seq(Nat) /\ returned \subseteq Nat
    /\ pc["wifi"] = "store" => dec # 0
    /\ \A t \in Tasks : pc[t] \in {"s_write", "s_give"} => dma_addr[t] \in 1 .. MaxSends

\* The interface mutex: the Wi-Fi task has it in hif_handle_isr with its
\* callbacks, not in the poll; the application has it in all of hif_send.  So
\* two tasks are in hif_send only if overlap says so.
Mutex ==
    /\ pc["app"] \in {"idle", "release"} \cup SendPCs
    /\ pc["app"] \in SendPCs => back["app"] = "release"
    /\ pc["app"] # "idle" <=> wi_mtx = "app"
    /\ pc["wifi"] # "release" /\ back["wifi"] # "release"
    /\ wi_mtx = "wifi" <=> \/ pc["wifi"] \in {"loop", "store"} \cup IsrPCs
                           \/ pc["wifi"] \in SendPCs /\ back["wifi"] # "idle"
    /\ ~overlap => ~(pc["app"] \in SendPCs /\ pc["wifi"] \in SendPCs)

Base == HifTypeOK /\ Mutex

-----------------------------------------------------------------------------
(* The interrupt *)

\* Interrupts latched or counted.
Latched == gu8Interrupt + (IF detected THEN 1 ELSE 0)

Looking == {"wake", "waken", "ctrl0", "clear"}

\* What is latched or counted is the message that waits, and one for each
\* failure: hif_isr may handle a message it did not count down for when it is
\* tried again.  So fewer than 255 failures do not wrap the count.
Counted ==
    /\ pc["wifi"] = "store" => dec \in 1 .. gu8Interrupt
    /\ Latched <= fails + (IF posted THEN 1 ELSE 0) - (IF pc["wifi"] \in Looking THEN 1 ELSE 0)

Interrupts == fails < 255 => Counted /\ NoLostInterrupt

-----------------------------------------------------------------------------
(* The messages *)

\* The task is at the message it has cleared the bit of.
AtMessage == \/ pc["wifi"] \in {"header", "receive"}
             \/ pc["wifi"] \in SendPCs /\ back["wifi"] = "receive"

\* RX done has still to be set for it.
Undone == \/ pc["wifi"] \in {"rx_done", "rx_late"}
          \/ /\ ~gu8HifSizeDone
             /\ \/ pc["wifi"] = "callback"
                \/ pc["wifi"] \in SendPCs /\ back["wifi"] = "callback"

Messages ==
    /\ posted => busy
    /\ pc["wifi"] = "clear" => posted
    /\ pc["wifi"] \in {"rx_done", "irq_on"} => gu8HifSizeDone
    /\ AtMessage \/ Undone => busy /\ ~posted
    /\ \A i \in 1 .. Len(received) :
          received[i] <= msgs /\ (posted \/ AtMessage => received[i] < msgs)
    /\ InOrder

-----------------------------------------------------------------------------
(* The chip's sleep *)

\* The uses of the chip a task has counted.
UsesIsr(t) == \/ pc[t] \in IsrPCs \ {"wake", "waken", "asleep"}
              \/ pc[t] \in SendPCs /\ back[t] \in {"receive", "callback"}
UsesSend(t) == pc[t] \in SendPCs \ {"s_wake", "s_waken", "s_asleep"}
Uses(t) == (IF UsesIsr(t) THEN 1 ELSE 0) + (IF UsesSend(t) THEN 1 ELSE 0)

\* The chip is awake while anybody has counted a use of it, and from the access
\* that wakes it until that is counted.
Awake ==
    /\ gu8ChipSleep > 0 => awake
    /\ gu8ChipSleep = leaked + Uses("wifi") + Uses("app")
    /\ \A t \in Tasks : pc[t] \in {"waken", "s_waken"} => awake

Sleep == ~overlap /\ leaked < 254 => Awake

-----------------------------------------------------------------------------
(* The packets *)

\* What became of packet p: the chip has got it, or has its buffer.
Sent(p) == \/ \E i \in 1 .. Len(taken) : taken[i] = p
           \/ \E a \in given : mem[a] = p

\* Packet p is in no buffer and has not been taken.
Unsent(p) == /\ \A a \in 1 .. MaxSends : mem[a] # p
             /\ \A i \in 1 .. Len(taken) : taken[i] # p

\* A buffer is written once, by one packet, and taken once.
Buffers ==
    /\ \A a \in 1 .. MaxSends : mem[a] <= sends /\ (a > allocs => mem[a] = 0 /\ a \notin given)
    /\ \A i \in 1 .. Len(taken) : taken[i] <= sends
    /\ \A a, b \in 1 .. MaxSends : mem[a] = mem[b] /\ mem[a] # 0 => a = b
    /\ \A a \in given : mem[a] # 0 /\ \A i \in 1 .. Len(taken) : taken[i] # mem[a]
    /\ \A i, j \in 1 .. Len(taken) : taken[i] = taken[j] => i = j

\* Where hif_send is with its packet and its buffer.
Sending(t) ==
    /\ pc[t] \in SendPCs => sending[t] \in 1 .. sends
    /\ pc[t] \in {"s_wake", "s_waken", "s_ask", "s_wait", "s_write"} => Unsent(sending[t])
    /\ pc[t] = "s_wait" /\ ~request /\ buffer # 0 => mem[buffer] = 0 /\ buffer \notin given
    /\ pc[t] = "s_write" =>
          /\ dma_addr[t] \in 1 .. allocs /\ dma_addr[t] \notin given
          /\ mem[dma_addr[t]] = 0
    /\ pc[t] = "s_give" =>
          /\ dma_addr[t] \in 1 .. allocs /\ dma_addr[t] \notin given
          /\ mem[dma_addr[t]] = sending[t]
          /\ \A i \in 1 .. Len(taken) : taken[i] # sending[t]
    /\ pc[t] \in {"s_sleep", "s_asleep"} => Sent(sending[t])

Delivered == /\ Buffers
             /\ \A t \in Tasks : Sending(t)
             /\ \A p \in returned : Sent(p)

Packets == ~overlap => Delivered

HifInv == Base /\ Interrupts /\ Messages /\ Sleep /\ Packets

-----------------------------------------------------------------------------
\* What Append does to the two histories.
LEMMA Appended ==
    ASSUME NEW s \in Seq(Nat), NEW x \in Nat
    PROVE  /\ Append(s, x) \in Seq(Nat)
           /\ Len(Append(s, x)) = Len(s) + 1 /\ Len(s) \in Nat
           /\ \A i \in 1 .. Len(s) : Append(s, x)[i] = s[i]
           /\ Append(s, x)[Len(s) + 1] = x
  OBVIOUS

\* A message later than all before it keeps the order.
LEMMA OrderKept ==
    ASSUME NEW s \in Seq(Nat), NEW x \in Nat,
           \A i \in 1 .. Len(s) : s[i] < x,
           \A i, j \in 1 .. Len(s) : i < j => s[i] < s[j]
    PROVE  /\ \A i \in 1 .. Len(Append(s, x)) : Append(s, x)[i] <= x
           /\ \A i, j \in 1 .. Len(Append(s, x)) :
                 i < j => Append(s, x)[i] < Append(s, x)[j]
  OBVIOUS

\* A uint8_t that has room does not wrap.
LEMMA Room ==
    ASSUME NEW n \in 0 .. 254
    PROVE  (n + 1) % 256 = n + 1
  OBVIOUS

\* The Wi-Fi task outside hif_send keeps the types.
LEMMA HifTypeOKWifi ==
    ASSUME HifTypeOK,
           Isr \/ Events \/ LoopLoads \/ LoopStores \/ LoopEnds \/ IsrStep
           \/ IsrFails \/ RxDoneFails
    PROVE  HifTypeOK'
<1>. USE DEF HifTypeOK, Tasks, Nobody, IsrPCs, SendPCs, Goto, hif, tasks, pin, chip,
     failures, history
<1>1. CASE Isr
  BY <1>1 DEF Isr
<1>2. CASE Events
  BY <1>2 DEF Events
<1>3. CASE LoopLoads
  BY <1>3 DEF LoopLoads
<1>4. CASE LoopStores
  BY <1>4 DEF LoopStores
<1>5. CASE LoopEnds
  BY <1>5 DEF LoopEnds, StartsSend
<1>6. CASE Wake("wifi", "wake", "waken")
  BY <1>6 DEF Wake
<1>7. CASE WakeCounted("wifi", "waken", "ctrl0")
  BY <1>7 DEF WakeCounted
<1>8. CASE IsrReads
  BY <1>8 DEF IsrReads
<1>9. CASE IsrClears
  BY <1>9 DEF IsrClears
<1>10. CASE IsrHeader
  BY <1>10 DEF IsrHeader
<1>11. CASE Receive
  <2>1. received' = received \/ received' = Append(received, msgs)
    BY <1>11 DEF Receive
  <2>2. received' \in Seq(Nat)
    <3>1. received \in Seq(Nat) /\ msgs \in Nat
      OBVIOUS
    <3>. HIDE DEF HifTypeOK
    <3>. QED
      BY <2>1, <3>1, Appended
  <2>3. /\ pc' = [pc EXCEPT !["wifi"] = pc'["wifi"]] /\ pc'["wifi"] \in {"rx_done", "callback"}
        /\ UNCHANGED <<gu8Interrupt, gu8ChipSleep, dec, wi_mtx, sending, dma_addr, back,
                       buffer, mem, given, fails, leaked, msgs, sends, allocs, taken, returned>>
    BY <1>11 DEF Receive
  <2>. QED
    BY <2>3, <2>2
<1>12. CASE SetRxDone("rx_done", "irq_on", "callback")
  BY <1>12 DEF SetRxDone
<1>13. CASE IrqOn("irq_on", "callback")
  BY <1>13 DEF IrqOn
<1>14. CASE SetRxDone("rx_late", "irq_late", "sleep")
  BY <1>14 DEF SetRxDone
<1>15. CASE IrqOn("irq_late", "sleep")
  BY <1>15 DEF IrqOn
<1>16. CASE CallbackSends
  BY <1>16 DEF CallbackSends, StartsSend
<1>17. CASE CallbackReturns
  BY <1>17 DEF CallbackReturns
<1>18. CASE SleepCounted("wifi", "sleep", "asleep")
  BY <1>18 DEF SleepCounted
<1>19. CASE MaySleep("wifi", "asleep", "loop") /\ UNCHANGED history
  BY <1>19 DEF MaySleep
<1>20. CASE IsrFails
  <2>1. /\ pc' = [pc EXCEPT !["wifi"] = "wake"]
        /\ fails' = fails + 1 /\ leaked' \in {leaked, leaked + 1}
    BY <1>20 DEF IsrFails, Fails
  <2>2. UNCHANGED <<gu8Interrupt, gu8ChipSleep, dec, wi_mtx, sending, dma_addr, back,
                    buffer, mem, given, received, msgs, sends, allocs, taken, returned>>
    BY <1>20 DEF IsrFails
  <2>. QED
    BY <2>1, <2>2
<1>21. CASE RxDoneFails
  BY <1>21 DEF RxDoneFails, Fails
<1>. QED
  BY <1>1, <1>2, <1>3, <1>4, <1>5, <1>6, <1>7, <1>8, <1>9, <1>10, <1>11, <1>12,
     <1>13, <1>14, <1>15, <1>16, <1>17, <1>18, <1>19, <1>20, <1>21 DEF IsrStep

\* hif_send keeps the types.
LEMMA HifTypeOKSend ==
    ASSUME HifTypeOK, NEW t \in Tasks,
           SendStep(t) \/ SendFails(t)
    PROVE  HifTypeOK'
<1>. USE DEF HifTypeOK, Tasks, Nobody, IsrPCs, SendPCs, Goto, hif, tasks, pin, chip,
     failures, history
<1>1. CASE Wake(t, "s_wake", "s_waken")
  BY <1>1 DEF Wake
<1>2. CASE WakeCounted(t, "s_waken", "s_ask")
  BY <1>2 DEF WakeCounted
<1>3. CASE SendAsks(t)
  BY <1>3 DEF SendAsks
<1>4. CASE SendAddress(t)
  <2>1. /\ pc' = [pc EXCEPT ![t] = "s_write"]
        /\ dma_addr' = [dma_addr EXCEPT ![t] = buffer] /\ buffer \in 1 .. MaxSends
    BY <1>4, HifAssumption DEF SendAddress
  <2>2. UNCHANGED <<gu8Interrupt, gu8ChipSleep, dec, wi_mtx, sending, back, buffer, mem,
                    given, fails, leaked, received, msgs, sends, allocs, taken, returned>>
    BY <1>4 DEF SendAddress
  <2>. QED
    BY <2>1, <2>2
<1>5. CASE SendWrites(t)
  <2>1. /\ pc' = [pc EXCEPT ![t] = "s_give"]
        /\ mem' = [mem EXCEPT ![dma_addr[t]] = sending[t]]
    BY <1>5 DEF SendWrites
  <2>2. UNCHANGED <<gu8Interrupt, gu8ChipSleep, dec, wi_mtx, sending, dma_addr, back, buffer,
                    given, fails, leaked, received, msgs, sends, allocs, taken, returned>>
    BY <1>5 DEF SendWrites
  <2>3. pc[t] = "s_write"
    BY <1>5 DEF SendWrites
  <2>. QED
    BY <2>1, <2>2, <2>3
<1>6. CASE SendGives(t)
  BY <1>6 DEF SendGives
<1>7. CASE SleepCounted(t, "s_sleep", "s_asleep")
  BY <1>7 DEF SleepCounted
<1>8. CASE SendReturns(t)
  <2>1. pc' = [pc EXCEPT ![t] = back[t]] /\ returned' = returned \cup {sending[t]}
    BY <1>8 DEF SendReturns, MaySleep
  <2>2. UNCHANGED <<gu8Interrupt, gu8ChipSleep, dec, wi_mtx, sending, dma_addr, back,
                    buffer, mem, given, fails, leaked, received, msgs, sends, allocs, taken>>
    BY <1>8 DEF SendReturns, MaySleep
  <2>3. returned' \subseteq Nat
    <3>1. sending[t] \in Nat /\ returned \subseteq Nat
      OBVIOUS
    <3>. HIDE DEF HifTypeOK
    <3>. QED
      BY <2>1, <3>1
  <2>4. pc' \in [Tasks -> {"idle", "release", "loop", "store"} \cup IsrPCs \cup SendPCs]
    BY <2>1
  <2>. QED
    BY <2>1, <2>2, <2>3, <2>4
<1>9. CASE SendNoBuffer(t)
  BY <1>9 DEF SendNoBuffer
<1>10. CASE SendFails(t)
  <2>1. /\ pc' = [pc EXCEPT ![t] = back[t]] /\ fails' \in Nat /\ leaked' \in Nat
        /\ UNCHANGED <<gu8Interrupt, gu8ChipSleep, dec, wi_mtx, sending, dma_addr, back,
                       buffer, mem, given, received, msgs, sends, allocs, taken, returned>>
    BY <1>10 DEF SendFails, Fails
  <2>. QED
    BY <2>1
<1>. QED
  BY <1>1, <1>2, <1>3, <1>4, <1>5, <1>6, <1>7, <1>8, <1>9, <1>10 DEF SendStep

\* The application and the chip keep the types.
LEMMA HifTypeOKRest ==
    ASSUME HifTypeOK,
           AppSends \/ AppReleases \/ ChipStep
    PROVE  HifTypeOK'
<1>. USE DEF HifTypeOK, Tasks, Nobody, IsrPCs, SendPCs, Goto, hif, tasks, pin, chip,
     failures, history
<1>1. CASE AppSends
  BY <1>1 DEF AppSends, StartsSend
<1>2. CASE AppReleases
  BY <1>2 DEF AppReleases
<1>3. CASE ChipPosts
  BY <1>3 DEF ChipPosts
<1>4. CASE ChipAllocates
  <2>1. allocs' \in 0 .. MaxSends /\ buffer' \in 0 .. allocs'
    BY <1>4, HifAssumption DEF ChipAllocates
  <2>2. UNCHANGED <<gu8Interrupt, gu8ChipSleep, pc, dec, wi_mtx, sending, dma_addr, back,
                    mem, given, fails, leaked, received, msgs, sends, taken, returned>>
    BY <1>4 DEF ChipAllocates
  <2>. QED
    BY <2>1, <2>2
<1>5. CASE ChipTakes
  <2>1. PICK a \in given : given' = given \ {a} /\ taken' = Append(taken, mem[a])
    BY <1>5 DEF ChipTakes
  <2>2. mem[a] \in Nat
    OBVIOUS
  <2>3. taken' \in Seq(Nat) /\ given' \subseteq 1 .. MaxSends
    BY <2>1, <2>2, Appended
  <2>4. UNCHANGED <<gu8Interrupt, gu8ChipSleep, pc, dec, wi_mtx, sending, dma_addr, back,
                    buffer, mem, fails, leaked, received, msgs, sends, allocs, returned>>
    BY <1>5 DEF ChipTakes
  <2>. QED
    BY <2>3, <2>4
<1>. QED
  BY <1>1, <1>2, <1>3, <1>4, <1>5 DEF ChipStep

\* The Wi-Fi task, with the mutex.
LEMMA MutexWifi ==
    ASSUME Base,
           Isr \/ Events \/ LoopLoads \/ LoopStores \/ LoopEnds \/ IsrStep
           \/ IsrFails \/ RxDoneFails
    PROVE  Mutex'
<1>. USE DEF Base, HifTypeOK, Mutex, InSend, Tasks, Nobody, IsrPCs, SendPCs, Goto, hif,
     tasks, pin, chip, failures, history
<1>1. CASE Isr
  BY <1>1 DEF Isr
<1>2. CASE Events
  BY <1>2 DEF Events
<1>3. CASE LoopLoads
  BY <1>3 DEF LoopLoads
<1>4. CASE LoopStores
  BY <1>4 DEF LoopStores
<1>5. CASE LoopEnds
  BY <1>5 DEF LoopEnds, StartsSend
<1>6. CASE Wake("wifi", "wake", "waken")
  BY <1>6 DEF Wake
<1>7. CASE WakeCounted("wifi", "waken", "ctrl0")
  BY <1>7 DEF WakeCounted
<1>8. CASE IsrReads
  BY <1>8 DEF IsrReads
<1>9. CASE IsrClears
  BY <1>9 DEF IsrClears
<1>10. CASE IsrHeader
  BY <1>10 DEF IsrHeader
<1>11. CASE Receive
  BY <1>11 DEF Receive
<1>12. CASE SetRxDone("rx_done", "irq_on", "callback")
  BY <1>12 DEF SetRxDone
<1>13. CASE IrqOn("irq_on", "callback")
  BY <1>13 DEF IrqOn
<1>14. CASE SetRxDone("rx_late", "irq_late", "sleep")
  BY <1>14 DEF SetRxDone
<1>15. CASE IrqOn("irq_late", "sleep")
  BY <1>15 DEF IrqOn
<1>16. CASE CallbackSends
  BY <1>16 DEF CallbackSends, StartsSend
<1>17. CASE CallbackReturns
  BY <1>17 DEF CallbackReturns
<1>18. CASE SleepCounted("wifi", "sleep", "asleep")
  BY <1>18 DEF SleepCounted
<1>19. CASE MaySleep("wifi", "asleep", "loop") /\ UNCHANGED history
  BY <1>19 DEF MaySleep
<1>20. CASE IsrFails
  BY <1>20 DEF IsrFails, Fails
<1>21. CASE RxDoneFails
  BY <1>21 DEF RxDoneFails, Fails
<1>. QED
  BY <1>1, <1>2, <1>3, <1>4, <1>5, <1>6, <1>7, <1>8, <1>9, <1>10, <1>11, <1>12,
     <1>13, <1>14, <1>15, <1>16, <1>17, <1>18, <1>19, <1>20, <1>21 DEF IsrStep

\* hif_send comes back to where it was called.
LEMMA MutexSend ==
    ASSUME Base, NEW t \in Tasks,
           SendStep(t) \/ SendFails(t)
    PROVE  Mutex'
<1>. USE DEF Base, HifTypeOK, Mutex, InSend, Tasks, Nobody, IsrPCs, SendPCs, Goto, hif,
     tasks, pin, chip, failures, history
<1>1. CASE Wake(t, "s_wake", "s_waken")
  BY <1>1 DEF Wake
<1>2. CASE WakeCounted(t, "s_waken", "s_ask")
  BY <1>2 DEF WakeCounted
<1>3. CASE SendAsks(t)
  BY <1>3 DEF SendAsks
<1>4. CASE SendAddress(t)
  BY <1>4 DEF SendAddress
<1>5. CASE SendWrites(t)
  BY <1>5 DEF SendWrites
<1>6. CASE SendGives(t)
  BY <1>6 DEF SendGives
<1>7. CASE SleepCounted(t, "s_sleep", "s_asleep")
  BY <1>7 DEF SleepCounted
<1>8. CASE SendReturns(t)
  BY <1>8 DEF SendReturns, MaySleep
<1>9. CASE SendNoBuffer(t)
  BY <1>9 DEF SendNoBuffer
<1>10. CASE SendFails(t)
  <2>1. /\ pc' = [pc EXCEPT ![t] = back[t]] /\ pc[t] \in SendPCs
        /\ UNCHANGED <<wi_mtx, back, overlap>>
    BY <1>10 DEF SendFails, Fails
  <2>. QED
    BY <2>1
<1>. QED
  BY <1>1, <1>2, <1>3, <1>4, <1>5, <1>6, <1>7, <1>8, <1>9, <1>10 DEF SendStep

\* The application takes the mutex before it sends.
LEMMA MutexRest ==
    ASSUME Base,
           AppSends \/ AppReleases \/ ChipStep
    PROVE  Mutex'
<1>. USE DEF Base, HifTypeOK, Mutex, InSend, Tasks, Nobody, IsrPCs, SendPCs, Goto, hif,
     tasks, pin, chip, failures, history
<1>1. CASE AppSends
  BY <1>1 DEF AppSends, StartsSend
<1>2. CASE AppReleases
  BY <1>2 DEF AppReleases
<1>3. CASE ChipPosts
  BY <1>3 DEF ChipPosts
<1>4. CASE ChipAllocates
  BY <1>4 DEF ChipAllocates
<1>5. CASE ChipTakes
  BY <1>5 DEF ChipTakes
<1>. QED
  BY <1>1, <1>2, <1>3, <1>4, <1>5 DEF ChipStep

\* The interrupt counts what was latched; the Wi-Fi task counts down and looks.
LEMMA InterruptsWifi ==
    ASSUME Base, Interrupts,
           Isr \/ Events \/ LoopLoads \/ LoopStores \/ LoopEnds \/ IsrStep
           \/ IsrFails \/ RxDoneFails
    PROVE  Interrupts'
<1>. USE DEF Base, HifTypeOK, Mutex, Interrupts, Counted, Latched, Looking,
     NoLostInterrupt, InSend,
        Tasks, Nobody, IsrPCs, SendPCs, Goto, hif, tasks, pin, chip, failures, history
<1>1. CASE Isr
  <2>. SUFFICES ASSUME fails' < 255
                PROVE  Counted' /\ NoLostInterrupt'
    OBVIOUS
  <2>1. UNCHANGED <<pc, dec, posted, fails>> /\ detected /\ ~detected'
    BY <1>1 DEF Isr
  <2>2. gu8Interrupt + 1 <= 255
    BY <2>1
  <2>3. gu8Interrupt' = gu8Interrupt + 1
    <3>1. gu8Interrupt' = (gu8Interrupt + 1) % 256 /\ gu8Interrupt \in 0 .. 254
      BY <2>2, <1>1 DEF Isr
    <3>. HIDE DEF Base, HifTypeOK, Mutex, Interrupts
    <3>. QED
      BY <3>1, Room
  <2>. QED
    BY <2>1, <2>3
<1>2. CASE Events
  BY <1>2 DEF Events
<1>3. CASE LoopLoads
  BY <1>3 DEF LoopLoads
<1>4. CASE LoopStores
  BY <1>4 DEF LoopStores
<1>5. CASE LoopEnds
  BY <1>5 DEF LoopEnds, StartsSend
<1>6. CASE Wake("wifi", "wake", "waken")
  BY <1>6 DEF Wake
<1>7. CASE WakeCounted("wifi", "waken", "ctrl0")
  BY <1>7 DEF WakeCounted
<1>8. CASE IsrReads
  BY <1>8 DEF IsrReads
<1>9. CASE IsrClears
  BY <1>9 DEF IsrClears
<1>10. CASE IsrHeader
  BY <1>10 DEF IsrHeader
<1>11. CASE Receive
  BY <1>11 DEF Receive
<1>12. CASE SetRxDone("rx_done", "irq_on", "callback")
  BY <1>12 DEF SetRxDone
<1>13. CASE IrqOn("irq_on", "callback")
  BY <1>13 DEF IrqOn
<1>14. CASE SetRxDone("rx_late", "irq_late", "sleep")
  BY <1>14 DEF SetRxDone
<1>15. CASE IrqOn("irq_late", "sleep")
  BY <1>15 DEF IrqOn
<1>16. CASE CallbackSends
  BY <1>16 DEF CallbackSends, StartsSend
<1>17. CASE CallbackReturns
  BY <1>17 DEF CallbackReturns
<1>18. CASE SleepCounted("wifi", "sleep", "asleep")
  BY <1>18 DEF SleepCounted
<1>19. CASE MaySleep("wifi", "asleep", "loop") /\ UNCHANGED history
  BY <1>19 DEF MaySleep
<1>20. CASE IsrFails
  <2>1. fails' = fails + 1 /\ pc'["wifi"] = "wake"
    BY <1>20 DEF IsrFails, Fails
  <2>2. /\ pc["wifi"] \in {"wake", "ctrl0", "clear", "header", "asleep"}
        /\ UNCHANGED <<gu8Interrupt, dec, posted, detected>>
    BY <1>20 DEF IsrFails
  <2>. QED
    BY <2>1, <2>2
<1>21. CASE RxDoneFails
  BY <1>21 DEF RxDoneFails, Fails
<1>. QED
  BY <1>1, <1>2, <1>3, <1>4, <1>5, <1>6, <1>7, <1>8, <1>9, <1>10, <1>11, <1>12,
     <1>13, <1>14, <1>15, <1>16, <1>17, <1>18, <1>19, <1>20, <1>21 DEF IsrStep

\* hif_send leaves the interrupt alone.
LEMMA InterruptsSend ==
    ASSUME Base, Interrupts, NEW t \in Tasks,
           SendStep(t) \/ SendFails(t)
    PROVE  Interrupts'
<1>. USE DEF Base, HifTypeOK, Mutex, Interrupts, Counted, Latched, Looking,
     NoLostInterrupt, InSend,
        Tasks, Nobody, IsrPCs, SendPCs, Goto, hif, tasks, pin, chip, failures, history
<1>1. CASE Wake(t, "s_wake", "s_waken")
  BY <1>1 DEF Wake
<1>2. CASE WakeCounted(t, "s_waken", "s_ask")
  BY <1>2 DEF WakeCounted
<1>3. CASE SendAsks(t)
  BY <1>3 DEF SendAsks
<1>4. CASE SendAddress(t)
  BY <1>4 DEF SendAddress
<1>5. CASE SendWrites(t)
  BY <1>5 DEF SendWrites
<1>6. CASE SendGives(t)
  BY <1>6 DEF SendGives
<1>7. CASE SleepCounted(t, "s_sleep", "s_asleep")
  BY <1>7 DEF SleepCounted
<1>8. CASE SendReturns(t)
  BY <1>8 DEF SendReturns, MaySleep
<1>9. CASE SendNoBuffer(t)
  BY <1>9 DEF SendNoBuffer
<1>10. CASE SendFails(t)
  <2>1. /\ pc' = [pc EXCEPT ![t] = back[t]] /\ pc[t] \in SendPCs /\ fails' = fails + 1
        /\ UNCHANGED <<gu8Interrupt, dec, posted, detected>>
    BY <1>10 DEF SendFails, Fails
  <2>2. /\ pc["wifi"] \in Looking \cup {"store"} => pc'["wifi"] = pc["wifi"]
        /\ pc'["wifi"] \in Looking \cup {"store"} => pc'["wifi"] = pc["wifi"]
    BY <2>1
  <2>. QED
    BY <2>1, <2>2
<1>. QED
  BY <1>1, <1>2, <1>3, <1>4, <1>5, <1>6, <1>7, <1>8, <1>9, <1>10 DEF SendStep

\* A message is latched with its bit, which the chip sets when the last message
\* is done.
LEMMA InterruptsRest ==
    ASSUME Base, Messages, Interrupts,
           AppSends \/ AppReleases \/ ChipStep
    PROVE  Interrupts'
<1>. USE DEF Base, HifTypeOK, Mutex, Interrupts, Counted, Latched, Looking,
     NoLostInterrupt, InSend,
        Tasks, Nobody, IsrPCs, SendPCs, Goto, hif, tasks, pin, chip, failures, history
<1>1. CASE AppSends
  BY <1>1 DEF AppSends, StartsSend
<1>2. CASE AppReleases
  BY <1>2 DEF AppReleases
<1>3. CASE ChipPosts
  <2>1. ~posted
    BY <1>3 DEF ChipPosts, Messages
  <2>2. /\ posted' = TRUE /\ detected' = TRUE
        /\ UNCHANGED <<gu8Interrupt, pc, dec, fails>>
    BY <1>3 DEF ChipPosts
  <2>. QED
    BY <2>1, <2>2
<1>4. CASE ChipAllocates
  BY <1>4 DEF ChipAllocates
<1>5. CASE ChipTakes
  BY <1>5 DEF ChipTakes
<1>. QED
  BY <1>1, <1>2, <1>3, <1>4, <1>5 DEF ChipStep

\* The Wi-Fi task hands a message on once, and lets the chip post the next after it.
LEMMA MessagesWifi ==
    ASSUME Base, Messages,
           Isr \/ Events \/ LoopLoads \/ LoopStores \/ LoopEnds \/ IsrStep
           \/ IsrFails \/ RxDoneFails
    PROVE  Messages'
<1>. USE DEF Base, HifTypeOK, Mutex, Messages, AtMessage, Undone, InOrder, InSend,
        Tasks, Nobody, IsrPCs, SendPCs, Goto, hif, tasks, pin, chip, failures, history
<1>1. CASE Isr
  BY <1>1 DEF Isr
<1>2. CASE Events
  BY <1>2 DEF Events
<1>3. CASE LoopLoads
  BY <1>3 DEF LoopLoads
<1>4. CASE LoopStores
  BY <1>4 DEF LoopStores
<1>5. CASE LoopEnds
  BY <1>5 DEF LoopEnds, StartsSend
<1>6. CASE Wake("wifi", "wake", "waken")
  BY <1>6 DEF Wake
<1>7. CASE WakeCounted("wifi", "waken", "ctrl0")
  BY <1>7 DEF WakeCounted
<1>8. CASE IsrReads
  BY <1>8 DEF IsrReads
<1>9. CASE IsrClears
  BY <1>9 DEF IsrClears
<1>10. CASE IsrHeader
  BY <1>10 DEF IsrHeader
<1>11. CASE Receive
  <2>1. CASE received' = received /\ pc' = [pc EXCEPT !["wifi"] = "callback"]
    BY <1>11, <2>1 DEF Receive
  <2>2. CASE received' = Append(received, msgs) /\ pc' = [pc EXCEPT !["wifi"] = "rx_done"]
    <3>1. /\ received \in Seq(Nat) /\ msgs \in Nat /\ busy /\ ~posted
          /\ \A i \in 1 .. Len(received) : received[i] < msgs
          /\ UNCHANGED <<busy, posted, back, msgs>> /\ gu8HifSizeDone'
      BY <1>11, <2>2 DEF Receive
    <3>2. /\ \A i \in 1 .. Len(received') : received'[i] <= msgs
          /\ InOrder'
      <4>1. \A i, j \in 1 .. Len(received) : i < j => received[i] < received[j]
        OBVIOUS
      <4>. HIDE DEF Base, HifTypeOK, Mutex, Messages
      <4>. QED
        BY <2>2, <3>1, <4>1, OrderKept
    <3>3. pc'["wifi"] = "rx_done" /\ ~AtMessage'
      BY <2>2
    <3>. QED
      BY <3>1, <3>2, <3>3
  <2>. QED
    BY <1>11, <2>1, <2>2 DEF Receive
<1>12. CASE SetRxDone("rx_done", "irq_on", "callback")
  BY <1>12 DEF SetRxDone
<1>13. CASE IrqOn("irq_on", "callback")
  BY <1>13 DEF IrqOn
<1>14. CASE SetRxDone("rx_late", "irq_late", "sleep")
  BY <1>14 DEF SetRxDone
<1>15. CASE IrqOn("irq_late", "sleep")
  BY <1>15 DEF IrqOn
<1>16. CASE CallbackSends
  BY <1>16 DEF CallbackSends, StartsSend
<1>17. CASE CallbackReturns
  BY <1>17 DEF CallbackReturns
<1>18. CASE SleepCounted("wifi", "sleep", "asleep")
  BY <1>18 DEF SleepCounted
<1>19. CASE MaySleep("wifi", "asleep", "loop") /\ UNCHANGED history
  BY <1>19 DEF MaySleep
<1>20. CASE IsrFails
  BY <1>20 DEF IsrFails, Fails
<1>21. CASE RxDoneFails
  BY <1>21 DEF RxDoneFails, Fails
<1>. QED
  BY <1>1, <1>2, <1>3, <1>4, <1>5, <1>6, <1>7, <1>8, <1>9, <1>10, <1>11, <1>12,
     <1>13, <1>14, <1>15, <1>16, <1>17, <1>18, <1>19, <1>20, <1>21 DEF IsrStep

\* A callback that sends comes back to its message.
LEMMA MessagesSend ==
    ASSUME Base, Messages, NEW t \in Tasks,
           SendStep(t) \/ SendFails(t)
    PROVE  Messages'
<1>. USE DEF Base, HifTypeOK, Mutex, Messages, AtMessage, Undone, InOrder, InSend,
        Tasks, Nobody, IsrPCs, SendPCs, Goto, hif, tasks, pin, chip, failures, history
<1>1. CASE Wake(t, "s_wake", "s_waken")
  BY <1>1 DEF Wake
<1>2. CASE WakeCounted(t, "s_waken", "s_ask")
  BY <1>2 DEF WakeCounted
<1>3. CASE SendAsks(t)
  BY <1>3 DEF SendAsks
<1>4. CASE SendAddress(t)
  BY <1>4 DEF SendAddress
<1>5. CASE SendWrites(t)
  BY <1>5 DEF SendWrites
<1>6. CASE SendGives(t)
  BY <1>6 DEF SendGives
<1>7. CASE SleepCounted(t, "s_sleep", "s_asleep")
  BY <1>7 DEF SleepCounted
<1>8. CASE SendReturns(t)
  BY <1>8 DEF SendReturns, MaySleep
<1>9. CASE SendNoBuffer(t)
  BY <1>9 DEF SendNoBuffer
<1>10. CASE SendFails(t)
  <2>1. /\ pc' = [pc EXCEPT ![t] = back[t]] /\ pc[t] \in SendPCs
        /\ UNCHANGED <<back, gu8HifSizeDone, posted, busy, msgs, received>>
    BY <1>10 DEF SendFails, Fails
  <2>. QED
    BY <2>1
<1>. QED
  BY <1>1, <1>2, <1>3, <1>4, <1>5, <1>6, <1>7, <1>8, <1>9, <1>10 DEF SendStep

\* A message is posted when the last one is done.
LEMMA MessagesRest ==
    ASSUME Base, Messages,
           AppSends \/ AppReleases \/ ChipStep
    PROVE  Messages'
<1>. USE DEF Base, HifTypeOK, Mutex, Messages, AtMessage, Undone, InOrder, InSend,
        Tasks, Nobody, IsrPCs, SendPCs, Goto, hif, tasks, pin, chip, failures, history
<1>1. CASE AppSends
  BY <1>1 DEF AppSends, StartsSend
<1>2. CASE AppReleases
  BY <1>2 DEF AppReleases
<1>3. CASE ChipPosts
  BY <1>3 DEF ChipPosts
<1>4. CASE ChipAllocates
  BY <1>4 DEF ChipAllocates
<1>5. CASE ChipTakes
  BY <1>5 DEF ChipTakes
<1>. QED
  BY <1>1, <1>2, <1>3, <1>4, <1>5 DEF ChipStep

\* A task uses the chip at most twice, in hif_isr and in a hif_send inside it.
LEMMA UsesFew == \A t \in Tasks : Uses(t) \in 0 .. 2 /\ Uses(t)' \in 0 .. 2
  BY DEF Uses

\* Without overlap one task uses the chip at a time.
LEMMA OneUser ==
    ASSUME Base, ~overlap, NEW t \in Tasks, NEW u \in Tasks \ {t},
           pc[t] \in SendPCs \cup IsrPCs
    PROVE  pc[u] \in {"idle", "release"} /\ Uses(u) = 0
  BY DEF Base, HifTypeOK, Mutex, Tasks, Nobody, SendPCs, IsrPCs, Uses, UsesIsr, UsesSend

\* So the count is what that task uses and what has been left.
LEMMA SleepMoves ==
    ASSUME Base, Sleep, NEW t \in Tasks,
           pc[t] \in SendPCs \cup IsrPCs,
           \A u \in Tasks \ {t} : pc'[u] = pc[u],
           back' = back, overlap' = overlap,
           leaked' \in Nat, leaked <= leaked',
           ~overlap /\ leaked' < 254 /\ Awake /\ gu8ChipSleep = leaked + Uses(t) =>
               /\ gu8ChipSleep' = leaked' + Uses(t)'
               /\ gu8ChipSleep' > 0 => awake'
               /\ pc'[t] \in {"waken", "s_waken"} => awake'
    PROVE  Sleep'
<1>. SUFFICES ASSUME ~overlap, leaked' < 254
              PROVE  Awake'
  BY DEF Sleep
<1>1. PICK u \in Tasks : u # t /\ Tasks = {t, u}
  BY DEF Tasks
<1>2. pc[u] \in {"idle", "release"} /\ Uses(u) = 0 /\ pc'[u] = pc[u]
  BY <1>1, OneUser DEF Base, HifTypeOK
<1>3. Uses(u)' = 0
  BY <1>2 DEF Uses, UsesIsr, UsesSend, SendPCs, IsrPCs
<1>4. Uses(t) \in Nat /\ Uses(t)' \in Nat
  BY DEF Uses
<1>5. /\ Uses("wifi") + Uses("app") = Uses(t)
      /\ Uses("wifi")' + Uses("app")' = Uses(t)'
  BY <1>1, <1>2, <1>3, <1>4 DEF Tasks
<1>6. Awake
  BY DEF Sleep, Base, HifTypeOK
<1>7. gu8ChipSleep = leaked + Uses(t)
  BY <1>5, <1>6, <1>4 DEF Awake, Base, HifTypeOK, Uses
<1>8. /\ gu8ChipSleep' = leaked' + Uses(t)'
      /\ gu8ChipSleep' > 0 => awake'
      /\ pc'[t] \in {"waken", "s_waken"} => awake'
  BY <1>6, <1>7
<1>9. gu8ChipSleep' = leaked' + Uses("wifi")' + Uses("app")'
  BY <1>5, <1>8, <1>4 DEF Uses
<1>10. \A v \in Tasks : pc'[v] \in {"waken", "s_waken"} => awake'
  BY <1>1, <1>2, <1>8
<1>. QED
  BY <1>8, <1>9, <1>10 DEF Awake

\* hif_isr counts its use of the chip.
LEMMA SleepWifi ==
    ASSUME Base, Sleep,
           Isr \/ Events \/ LoopLoads \/ LoopStores \/ LoopEnds \/ IsrStep
           \/ IsrFails \/ RxDoneFails
    PROVE  Sleep'
<1>. USE DEF Tasks
<1>1. CASE Isr
  <2>1. UNCHANGED <<gu8ChipSleep, awake, leaked, overlap, pc, back>>
    BY <1>1 DEF Isr, Goto, hif, tasks, pin, chip, failures, history
  <2>. QED
    BY <2>1 DEF Sleep, Awake, Uses, UsesIsr, UsesSend
<1>2. CASE Events
  BY <1>2 DEF Events, Base, HifTypeOK, Mutex, Sleep, Awake, Uses, UsesIsr, UsesSend,
     InSend,
       Nobody, IsrPCs, SendPCs, Goto, hif, pin, chip, failures, history
<1>3. CASE LoopLoads
  BY <1>3 DEF LoopLoads, Base, HifTypeOK, Mutex, Sleep, Awake, Uses, UsesIsr, UsesSend,
     InSend,
       Nobody, IsrPCs, SendPCs, Goto, hif, pin, chip, failures, history
<1>4. CASE LoopStores
  BY <1>4 DEF LoopStores, Base, HifTypeOK, Mutex, Sleep, Awake, Uses, UsesIsr, UsesSend,
     InSend,
       Nobody, IsrPCs, SendPCs, Goto, hif, pin, chip, failures, history
<1>5. CASE LoopEnds
  <2>1. /\ pc["wifi"] = "loop" /\ pc'["wifi"] \in {"idle", "s_wake"}
        /\ pc'["wifi"] = "s_wake" => back'["wifi"] = "idle"
        /\ pc'["app"] = pc["app"] /\ back'["app"] = back["app"]
    BY <1>5 DEF LoopEnds, StartsSend, Goto, Base, HifTypeOK
  <2>2. UNCHANGED <<gu8ChipSleep, awake, leaked>>
    BY <1>5 DEF LoopEnds, chip, failures
  <2>3. ~overlap' => ~overlap
    BY <1>5, Zenon DEF LoopEnds, StartsSend
  <2>4. Uses("wifi") = 0 /\ Uses("wifi")' = 0 /\ Uses("app")' = Uses("app")
    BY <2>1 DEF Uses, UsesIsr, UsesSend, SendPCs, IsrPCs
  <2>. QED
    BY <2>1, <2>2, <2>4, <2>3 DEF Sleep, Awake
<1>6. CASE Wake("wifi", "wake", "waken")
  <2>1. /\ pc["wifi"] = "wake" /\ pc' = [pc EXCEPT !["wifi"] = "waken"]
        /\ UNCHANGED <<back, overlap>>
        /\ (awake \/ gu8ChipSleep = 0 => awake') /\ UNCHANGED <<gu8ChipSleep, leaked>>
    BY <1>6 DEF Goto, hif, chip, failures, history, Wake
  <2>2. Uses("wifi")' = Uses("wifi")
    BY <2>1 DEF Base, HifTypeOK, Mutex, Uses, UsesIsr, UsesSend, SendPCs, IsrPCs, Tasks
  <2>3. /\ pc["wifi"] \in SendPCs \cup IsrPCs /\ \A u \in Tasks \ {"wifi"} : pc'[u] = pc[u]
        /\ leaked' \in Nat /\ leaked <= leaked'
    BY <2>1 DEF Base, HifTypeOK, SendPCs, IsrPCs
  <2>4. ~overlap /\ leaked' < 254 /\ Awake /\ gu8ChipSleep = leaked + Uses("wifi") =>
            /\ gu8ChipSleep' = leaked' + Uses("wifi")'
            /\ gu8ChipSleep' > 0 => awake'
            /\ pc'["wifi"] \in {"waken", "s_waken"} => awake'
    <3>1. /\ Uses("wifi") \in 0 .. 2 /\ Uses("wifi")' \in 0 .. 2
          /\ leaked \in Nat /\ gu8ChipSleep \in 0 .. 255
      BY UsesFew DEF Base, HifTypeOK
    <3>. QED
      BY <2>1, <2>2, <2>3, <3>1 DEF Awake
  <2>. QED
    BY <2>1, <2>3, <2>4, SleepMoves
<1>7. CASE WakeCounted("wifi", "waken", "ctrl0")
  <2>1. /\ pc["wifi"] = "waken" /\ pc' = [pc EXCEPT !["wifi"] = "ctrl0"]
        /\ UNCHANGED <<back, overlap>>
        /\ gu8ChipSleep' = (gu8ChipSleep + 1) % 256 /\ UNCHANGED <<awake, leaked>>
    BY <1>7 DEF Goto, hif, chip, failures, history, WakeCounted
  <2>2. Uses("wifi")' = Uses("wifi") + 1
    BY <2>1 DEF Base, HifTypeOK, Mutex, Uses, UsesIsr, UsesSend, SendPCs, IsrPCs, Tasks
  <2>3. /\ pc["wifi"] \in SendPCs \cup IsrPCs /\ \A u \in Tasks \ {"wifi"} : pc'[u] = pc[u]
        /\ leaked' \in Nat /\ leaked <= leaked'
        /\ pc'["wifi"] \notin {"waken", "s_waken"}
    BY <2>1 DEF Base, HifTypeOK, SendPCs, IsrPCs
  <2>4. ~overlap /\ leaked' < 254 /\ Awake /\ gu8ChipSleep = leaked + Uses("wifi") =>
            /\ gu8ChipSleep' = leaked' + Uses("wifi")'
            /\ gu8ChipSleep' > 0 => awake'
            /\ pc'["wifi"] \in {"waken", "s_waken"} => awake'
    <3>1. /\ Uses("wifi") \in 0 .. 2 /\ Uses("wifi")' \in 0 .. 2
          /\ leaked \in Nat /\ gu8ChipSleep \in 0 .. 255
      BY UsesFew DEF Base, HifTypeOK
    <3>2. gu8ChipSleep \in 0 .. 254 => gu8ChipSleep' = gu8ChipSleep + 1
      BY <2>1, Room
    <3>3. leaked < 254 /\ gu8ChipSleep = leaked + Uses("wifi") => gu8ChipSleep \in 0 .. 254
      BY <2>2, <3>1
    <3>. QED
      BY <3>2, <3>3, <2>1, <2>2, <2>3, <3>1 DEF Awake
  <2>. QED
    BY <2>1, <2>3, <2>4, SleepMoves
<1>8. CASE IsrReads
  <2>1. PICK p \in {"clear", "sleep"} : pc' = [pc EXCEPT !["wifi"] = p]
    BY <1>8 DEF Goto, hif, chip, failures, history, IsrReads
  <2>2. /\ pc["wifi"] = "ctrl0" /\ pc' = [pc EXCEPT !["wifi"] = p]
        /\ UNCHANGED <<back, overlap>>
        /\ UNCHANGED <<gu8ChipSleep, awake, leaked>>
    BY <1>8, <2>1 DEF Goto, hif, chip, failures, history, IsrReads
  <2>3. Uses("wifi")' = Uses("wifi")
    BY <2>2 DEF Base, HifTypeOK, Mutex, Uses, UsesIsr, UsesSend, SendPCs, IsrPCs, Tasks
  <2>4. /\ pc["wifi"] \in SendPCs \cup IsrPCs /\ \A u \in Tasks \ {"wifi"} : pc'[u] = pc[u]
        /\ leaked' \in Nat /\ leaked <= leaked'
        /\ pc'["wifi"] \notin {"waken", "s_waken"}
    BY <2>2 DEF Base, HifTypeOK, SendPCs, IsrPCs
  <2>5. ~overlap /\ leaked' < 254 /\ Awake /\ gu8ChipSleep = leaked + Uses("wifi") =>
            /\ gu8ChipSleep' = leaked' + Uses("wifi")'
            /\ gu8ChipSleep' > 0 => awake'
            /\ pc'["wifi"] \in {"waken", "s_waken"} => awake'
    <3>1. /\ Uses("wifi") \in 0 .. 2 /\ Uses("wifi")' \in 0 .. 2
          /\ leaked \in Nat /\ gu8ChipSleep \in 0 .. 255
      BY UsesFew DEF Base, HifTypeOK
    <3>. QED
      BY <2>2, <2>3, <2>4, <3>1 DEF Awake
  <2>. QED
    BY <2>2, <2>4, <2>5, SleepMoves
<1>9. CASE IsrClears
  <2>1. /\ pc["wifi"] = "clear" /\ pc' = [pc EXCEPT !["wifi"] = "header"]
        /\ UNCHANGED <<back, overlap>>
        /\ UNCHANGED <<gu8ChipSleep, awake, leaked>>
    BY <1>9 DEF Goto, hif, chip, failures, history, IsrClears
  <2>2. Uses("wifi")' = Uses("wifi")
    BY <2>1 DEF Base, HifTypeOK, Mutex, Uses, UsesIsr, UsesSend, SendPCs, IsrPCs, Tasks
  <2>3. /\ pc["wifi"] \in SendPCs \cup IsrPCs /\ \A u \in Tasks \ {"wifi"} : pc'[u] = pc[u]
        /\ leaked' \in Nat /\ leaked <= leaked'
        /\ pc'["wifi"] \notin {"waken", "s_waken"}
    BY <2>1 DEF Base, HifTypeOK, SendPCs, IsrPCs
  <2>4. ~overlap /\ leaked' < 254 /\ Awake /\ gu8ChipSleep = leaked + Uses("wifi") =>
            /\ gu8ChipSleep' = leaked' + Uses("wifi")'
            /\ gu8ChipSleep' > 0 => awake'
            /\ pc'["wifi"] \in {"waken", "s_waken"} => awake'
    <3>1. /\ Uses("wifi") \in 0 .. 2 /\ Uses("wifi")' \in 0 .. 2
          /\ leaked \in Nat /\ gu8ChipSleep \in 0 .. 255
      BY UsesFew DEF Base, HifTypeOK
    <3>. QED
      BY <2>1, <2>2, <2>3, <3>1 DEF Awake
  <2>. QED
    BY <2>1, <2>3, <2>4, SleepMoves
<1>10. CASE IsrHeader
  <2>1. /\ pc["wifi"] = "header" /\ pc' = [pc EXCEPT !["wifi"] = "receive"]
        /\ UNCHANGED <<back, overlap>>
        /\ UNCHANGED <<gu8ChipSleep, awake, leaked>>
    BY <1>10 DEF Goto, hif, chip, failures, history, IsrHeader
  <2>2. Uses("wifi")' = Uses("wifi")
    BY <2>1 DEF Base, HifTypeOK, Mutex, Uses, UsesIsr, UsesSend, SendPCs, IsrPCs, Tasks
  <2>3. /\ pc["wifi"] \in SendPCs \cup IsrPCs /\ \A u \in Tasks \ {"wifi"} : pc'[u] = pc[u]
        /\ leaked' \in Nat /\ leaked <= leaked'
        /\ pc'["wifi"] \notin {"waken", "s_waken"}
    BY <2>1 DEF Base, HifTypeOK, SendPCs, IsrPCs
  <2>4. ~overlap /\ leaked' < 254 /\ Awake /\ gu8ChipSleep = leaked + Uses("wifi") =>
            /\ gu8ChipSleep' = leaked' + Uses("wifi")'
            /\ gu8ChipSleep' > 0 => awake'
            /\ pc'["wifi"] \in {"waken", "s_waken"} => awake'
    <3>1. /\ Uses("wifi") \in 0 .. 2 /\ Uses("wifi")' \in 0 .. 2
          /\ leaked \in Nat /\ gu8ChipSleep \in 0 .. 255
      BY UsesFew DEF Base, HifTypeOK
    <3>. QED
      BY <2>1, <2>2, <2>3, <3>1 DEF Awake
  <2>. QED
    BY <2>1, <2>3, <2>4, SleepMoves
<1>11. CASE Receive
  <2>1. PICK p \in {"rx_done", "callback"} : pc' = [pc EXCEPT !["wifi"] = p]
    BY <1>11 DEF Goto, hif, chip, failures, history, Receive
  <2>2. /\ pc["wifi"] = "receive" /\ pc' = [pc EXCEPT !["wifi"] = p]
        /\ UNCHANGED <<back, overlap>>
        /\ UNCHANGED <<gu8ChipSleep, awake, leaked>>
    BY <1>11, <2>1 DEF Goto, hif, chip, failures, history, Receive
  <2>3. Uses("wifi")' = Uses("wifi")
    BY <2>2 DEF Base, HifTypeOK, Mutex, Uses, UsesIsr, UsesSend, SendPCs, IsrPCs, Tasks
  <2>4. /\ pc["wifi"] \in SendPCs \cup IsrPCs /\ \A u \in Tasks \ {"wifi"} : pc'[u] = pc[u]
        /\ leaked' \in Nat /\ leaked <= leaked'
        /\ pc'["wifi"] \notin {"waken", "s_waken"}
    BY <2>2 DEF Base, HifTypeOK, SendPCs, IsrPCs
  <2>5. ~overlap /\ leaked' < 254 /\ Awake /\ gu8ChipSleep = leaked + Uses("wifi") =>
            /\ gu8ChipSleep' = leaked' + Uses("wifi")'
            /\ gu8ChipSleep' > 0 => awake'
            /\ pc'["wifi"] \in {"waken", "s_waken"} => awake'
    <3>1. /\ Uses("wifi") \in 0 .. 2 /\ Uses("wifi")' \in 0 .. 2
          /\ leaked \in Nat /\ gu8ChipSleep \in 0 .. 255
      BY UsesFew DEF Base, HifTypeOK
    <3>. QED
      BY <2>2, <2>3, <2>4, <3>1 DEF Awake
  <2>. QED
    BY <2>2, <2>4, <2>5, SleepMoves
<1>12. CASE SetRxDone("rx_done", "irq_on", "callback")
  <2>1. /\ pc["wifi"] = "rx_done" /\ pc' = [pc EXCEPT !["wifi"] = "irq_on"]
        /\ UNCHANGED <<back, overlap>>
        /\ UNCHANGED <<gu8ChipSleep, awake, leaked>>
    BY <1>12 DEF Goto, hif, chip, failures, history, SetRxDone
  <2>2. Uses("wifi")' = Uses("wifi")
    BY <2>1 DEF Base, HifTypeOK, Mutex, Uses, UsesIsr, UsesSend, SendPCs, IsrPCs, Tasks
  <2>3. /\ pc["wifi"] \in SendPCs \cup IsrPCs /\ \A u \in Tasks \ {"wifi"} : pc'[u] = pc[u]
        /\ leaked' \in Nat /\ leaked <= leaked'
        /\ pc'["wifi"] \notin {"waken", "s_waken"}
    BY <2>1 DEF Base, HifTypeOK, SendPCs, IsrPCs
  <2>4. ~overlap /\ leaked' < 254 /\ Awake /\ gu8ChipSleep = leaked + Uses("wifi") =>
            /\ gu8ChipSleep' = leaked' + Uses("wifi")'
            /\ gu8ChipSleep' > 0 => awake'
            /\ pc'["wifi"] \in {"waken", "s_waken"} => awake'
    <3>1. /\ Uses("wifi") \in 0 .. 2 /\ Uses("wifi")' \in 0 .. 2
          /\ leaked \in Nat /\ gu8ChipSleep \in 0 .. 255
      BY UsesFew DEF Base, HifTypeOK
    <3>. QED
      BY <2>1, <2>2, <2>3, <3>1 DEF Awake
  <2>. QED
    BY <2>1, <2>3, <2>4, SleepMoves
<1>13. CASE IrqOn("irq_on", "callback")
  <2>1. /\ pc["wifi"] = "irq_on" /\ pc' = [pc EXCEPT !["wifi"] = "callback"]
        /\ UNCHANGED <<back, overlap>>
        /\ UNCHANGED <<gu8ChipSleep, awake, leaked>>
    BY <1>13 DEF Goto, hif, chip, failures, history, IrqOn
  <2>2. Uses("wifi")' = Uses("wifi")
    BY <2>1 DEF Base, HifTypeOK, Mutex, Uses, UsesIsr, UsesSend, SendPCs, IsrPCs, Tasks
  <2>3. /\ pc["wifi"] \in SendPCs \cup IsrPCs /\ \A u \in Tasks \ {"wifi"} : pc'[u] = pc[u]
        /\ leaked' \in Nat /\ leaked <= leaked'
        /\ pc'["wifi"] \notin {"waken", "s_waken"}
    BY <2>1 DEF Base, HifTypeOK, SendPCs, IsrPCs
  <2>4. ~overlap /\ leaked' < 254 /\ Awake /\ gu8ChipSleep = leaked + Uses("wifi") =>
            /\ gu8ChipSleep' = leaked' + Uses("wifi")'
            /\ gu8ChipSleep' > 0 => awake'
            /\ pc'["wifi"] \in {"waken", "s_waken"} => awake'
    <3>1. /\ Uses("wifi") \in 0 .. 2 /\ Uses("wifi")' \in 0 .. 2
          /\ leaked \in Nat /\ gu8ChipSleep \in 0 .. 255
      BY UsesFew DEF Base, HifTypeOK
    <3>. QED
      BY <2>1, <2>2, <2>3, <3>1 DEF Awake
  <2>. QED
    BY <2>1, <2>3, <2>4, SleepMoves
<1>14. CASE SetRxDone("rx_late", "irq_late", "sleep")
  <2>1. /\ pc["wifi"] = "rx_late" /\ pc' = [pc EXCEPT !["wifi"] = "irq_late"]
        /\ UNCHANGED <<back, overlap>>
        /\ UNCHANGED <<gu8ChipSleep, awake, leaked>>
    BY <1>14 DEF Goto, hif, chip, failures, history, SetRxDone
  <2>2. Uses("wifi")' = Uses("wifi")
    BY <2>1 DEF Base, HifTypeOK, Mutex, Uses, UsesIsr, UsesSend, SendPCs, IsrPCs, Tasks
  <2>3. /\ pc["wifi"] \in SendPCs \cup IsrPCs /\ \A u \in Tasks \ {"wifi"} : pc'[u] = pc[u]
        /\ leaked' \in Nat /\ leaked <= leaked'
        /\ pc'["wifi"] \notin {"waken", "s_waken"}
    BY <2>1 DEF Base, HifTypeOK, SendPCs, IsrPCs
  <2>4. ~overlap /\ leaked' < 254 /\ Awake /\ gu8ChipSleep = leaked + Uses("wifi") =>
            /\ gu8ChipSleep' = leaked' + Uses("wifi")'
            /\ gu8ChipSleep' > 0 => awake'
            /\ pc'["wifi"] \in {"waken", "s_waken"} => awake'
    <3>1. /\ Uses("wifi") \in 0 .. 2 /\ Uses("wifi")' \in 0 .. 2
          /\ leaked \in Nat /\ gu8ChipSleep \in 0 .. 255
      BY UsesFew DEF Base, HifTypeOK
    <3>. QED
      BY <2>1, <2>2, <2>3, <3>1 DEF Awake
  <2>. QED
    BY <2>1, <2>3, <2>4, SleepMoves
<1>15. CASE IrqOn("irq_late", "sleep")
  <2>1. /\ pc["wifi"] = "irq_late" /\ pc' = [pc EXCEPT !["wifi"] = "sleep"]
        /\ UNCHANGED <<back, overlap>>
        /\ UNCHANGED <<gu8ChipSleep, awake, leaked>>
    BY <1>15 DEF Goto, hif, chip, failures, history, IrqOn
  <2>2. Uses("wifi")' = Uses("wifi")
    BY <2>1 DEF Base, HifTypeOK, Mutex, Uses, UsesIsr, UsesSend, SendPCs, IsrPCs, Tasks
  <2>3. /\ pc["wifi"] \in SendPCs \cup IsrPCs /\ \A u \in Tasks \ {"wifi"} : pc'[u] = pc[u]
        /\ leaked' \in Nat /\ leaked <= leaked'
        /\ pc'["wifi"] \notin {"waken", "s_waken"}
    BY <2>1 DEF Base, HifTypeOK, SendPCs, IsrPCs
  <2>4. ~overlap /\ leaked' < 254 /\ Awake /\ gu8ChipSleep = leaked + Uses("wifi") =>
            /\ gu8ChipSleep' = leaked' + Uses("wifi")'
            /\ gu8ChipSleep' > 0 => awake'
            /\ pc'["wifi"] \in {"waken", "s_waken"} => awake'
    <3>1. /\ Uses("wifi") \in 0 .. 2 /\ Uses("wifi")' \in 0 .. 2
          /\ leaked \in Nat /\ gu8ChipSleep \in 0 .. 255
      BY UsesFew DEF Base, HifTypeOK
    <3>. QED
      BY <2>1, <2>2, <2>3, <3>1 DEF Awake
  <2>. QED
    BY <2>1, <2>3, <2>4, SleepMoves
<1>16. CASE CallbackSends
  BY <1>16 DEF CallbackSends, StartsSend, Base, HifTypeOK, Mutex, Sleep, Awake, Uses,
     UsesIsr, UsesSend, InSend,
       Nobody, IsrPCs, SendPCs, Goto, hif, pin, chip, failures, history
<1>17. CASE CallbackReturns
  BY <1>17 DEF CallbackReturns, Base, HifTypeOK, Mutex, Sleep, Awake, Uses, UsesIsr,
     UsesSend, InSend,
       Nobody, IsrPCs, SendPCs, Goto, hif, pin, chip, failures, history
<1>18. CASE SleepCounted("wifi", "sleep", "asleep")
  <2>1. /\ pc["wifi"] = "sleep" /\ pc' = [pc EXCEPT !["wifi"] = "asleep"]
        /\ UNCHANGED <<back, overlap>>
        /\ gu8ChipSleep' = (IF gu8ChipSleep >= 1 THEN gu8ChipSleep - 1 ELSE gu8ChipSleep)
        /\ UNCHANGED <<awake, leaked>>
    BY <1>18 DEF Goto, hif, chip, failures, history, SleepCounted
  <2>2. Uses("wifi")' = Uses("wifi") - 1
    BY <2>1 DEF Base, HifTypeOK, Mutex, Uses, UsesIsr, UsesSend, SendPCs, IsrPCs, Tasks
  <2>3. /\ pc["wifi"] \in SendPCs \cup IsrPCs /\ \A u \in Tasks \ {"wifi"} : pc'[u] = pc[u]
        /\ leaked' \in Nat /\ leaked <= leaked'
        /\ pc'["wifi"] \notin {"waken", "s_waken"}
    BY <2>1 DEF Base, HifTypeOK, SendPCs, IsrPCs
  <2>4. ~overlap /\ leaked' < 254 /\ Awake /\ gu8ChipSleep = leaked + Uses("wifi") =>
            /\ gu8ChipSleep' = leaked' + Uses("wifi")'
            /\ gu8ChipSleep' > 0 => awake'
            /\ pc'["wifi"] \in {"waken", "s_waken"} => awake'
    <3>1. /\ Uses("wifi") \in 0 .. 2 /\ Uses("wifi")' \in 0 .. 2
          /\ leaked \in Nat /\ gu8ChipSleep \in 0 .. 255
      BY UsesFew DEF Base, HifTypeOK
    <3>. QED
      BY <2>1, <2>2, <2>3, <3>1 DEF Awake
  <2>. QED
    BY <2>1, <2>3, <2>4, SleepMoves
<1>19. CASE MaySleep("wifi", "asleep", "loop") /\ UNCHANGED history
  <2>1. /\ pc["wifi"] = "asleep" /\ pc' = [pc EXCEPT !["wifi"] = "loop"]
        /\ UNCHANGED <<back, overlap>>
        /\ (awake /\ gu8ChipSleep # 0 => awake') /\ UNCHANGED <<gu8ChipSleep, leaked>>
    BY <1>19 DEF Goto, hif, chip, failures, history, MaySleep
  <2>2. Uses("wifi")' = Uses("wifi")
    BY <2>1 DEF Base, HifTypeOK, Mutex, Uses, UsesIsr, UsesSend, SendPCs, IsrPCs, Tasks
  <2>3. /\ pc["wifi"] \in SendPCs \cup IsrPCs /\ \A u \in Tasks \ {"wifi"} : pc'[u] = pc[u]
        /\ leaked' \in Nat /\ leaked <= leaked'
        /\ pc'["wifi"] \notin {"waken", "s_waken"}
    BY <2>1 DEF Base, HifTypeOK, SendPCs, IsrPCs
  <2>4. ~overlap /\ leaked' < 254 /\ Awake /\ gu8ChipSleep = leaked + Uses("wifi") =>
            /\ gu8ChipSleep' = leaked' + Uses("wifi")'
            /\ gu8ChipSleep' > 0 => awake'
            /\ pc'["wifi"] \in {"waken", "s_waken"} => awake'
    <3>1. /\ Uses("wifi") \in 0 .. 2 /\ Uses("wifi")' \in 0 .. 2
          /\ leaked \in Nat /\ gu8ChipSleep \in 0 .. 255
      BY UsesFew DEF Base, HifTypeOK
    <3>. QED
      BY <2>1, <2>2, <2>3, <3>1 DEF Awake
  <2>. QED
    BY <2>1, <2>3, <2>4, SleepMoves
<1>20. CASE IsrFails
  <2>1. /\ pc' = [pc EXCEPT !["wifi"] = "wake"] /\ UNCHANGED <<back, overlap, gu8ChipSleep, awake>>
        /\ \/ pc["wifi"] \in {"ctrl0", "clear", "header"} /\ leaked' = leaked + 1
           \/ pc["wifi"] \in {"wake", "asleep"} /\ leaked' = leaked + 0
    BY <1>20 DEF IsrFails, Fails, Goto, hif, chip, history
  <2>2. leaked' + Uses("wifi")' = leaked + Uses("wifi")
    <3>1. CASE leaked' = leaked + 1 /\ pc["wifi"] \notin {"wake", "asleep", "s_wake", "s_asleep"}
      <4>1. Uses("wifi")' + 1 = Uses("wifi")
        BY <2>1, <3>1 DEF Base, HifTypeOK, Mutex, Uses, UsesIsr, UsesSend, SendPCs,
           IsrPCs, Tasks
      <4>. QED
        BY <3>1, <4>1, UsesFew DEF Base, HifTypeOK
    <3>2. CASE leaked' = leaked + 0 /\ pc["wifi"] \in {"wake", "asleep", "s_wake", "s_asleep"}
      <4>1. Uses("wifi")' = Uses("wifi")
        BY <2>1, <3>2 DEF Base, HifTypeOK, Mutex, Uses, UsesIsr, UsesSend, SendPCs,
           IsrPCs, Tasks
      <4>. QED
        BY <3>2, <4>1, UsesFew DEF Base, HifTypeOK
    <3>. QED
      BY <2>1, <3>1, <3>2
  <2>3. /\ pc["wifi"] \in SendPCs \cup IsrPCs /\ \A u \in Tasks \ {"wifi"} : pc'[u] = pc[u]
        /\ leaked' \in Nat /\ leaked <= leaked' /\ pc'["wifi"] = "wake"
    BY <2>1 DEF Base, HifTypeOK, SendPCs, IsrPCs
  <2>4. ~overlap /\ leaked' < 254 /\ Awake /\ gu8ChipSleep = leaked + Uses("wifi") =>
            /\ gu8ChipSleep' = leaked' + Uses("wifi")'
            /\ gu8ChipSleep' > 0 => awake'
            /\ pc'["wifi"] \in {"waken", "s_waken"} => awake'
    <3>1. /\ Uses("wifi") \in 0 .. 2 /\ Uses("wifi")' \in 0 .. 2
          /\ leaked \in Nat /\ gu8ChipSleep \in 0 .. 255
      BY UsesFew DEF Base, HifTypeOK
    <3>. QED
      BY <2>1, <2>2, <2>3, <3>1 DEF Awake
  <2>. QED
    BY <2>1, <2>3, <2>4, SleepMoves
<1>21. CASE RxDoneFails
  <2>1. PICK p \in {"callback", "sleep"} : pc' = [pc EXCEPT !["wifi"] = p]
    BY <1>21 DEF Goto, hif, chip, failures, history, RxDoneFails, Fails, Base, HifTypeOK
  <2>2. /\ pc["wifi"] \in {"rx_done", "rx_late"} /\ pc' = [pc EXCEPT !["wifi"] = p]
        /\ UNCHANGED <<back, overlap>>
        /\ UNCHANGED <<gu8ChipSleep, awake, leaked>>
    BY <1>21, <2>1 DEF Goto, hif, chip, failures, history, RxDoneFails, Fails, Base,
       HifTypeOK
  <2>3. Uses("wifi")' = Uses("wifi")
    BY <2>2 DEF Base, HifTypeOK, Mutex, Uses, UsesIsr, UsesSend, SendPCs, IsrPCs, Tasks
  <2>4. /\ pc["wifi"] \in SendPCs \cup IsrPCs /\ \A u \in Tasks \ {"wifi"} : pc'[u] = pc[u]
        /\ leaked' \in Nat /\ leaked <= leaked'
        /\ pc'["wifi"] \notin {"waken", "s_waken"}
    BY <2>2 DEF Base, HifTypeOK, SendPCs, IsrPCs
  <2>5. ~overlap /\ leaked' < 254 /\ Awake /\ gu8ChipSleep = leaked + Uses("wifi") =>
            /\ gu8ChipSleep' = leaked' + Uses("wifi")'
            /\ gu8ChipSleep' > 0 => awake'
            /\ pc'["wifi"] \in {"waken", "s_waken"} => awake'
    <3>1. /\ Uses("wifi") \in 0 .. 2 /\ Uses("wifi")' \in 0 .. 2
          /\ leaked \in Nat /\ gu8ChipSleep \in 0 .. 255
      BY UsesFew DEF Base, HifTypeOK
    <3>. QED
      BY <2>2, <2>3, <2>4, <3>1 DEF Awake
  <2>. QED
    BY <2>2, <2>4, <2>5, SleepMoves
<1>. QED
  BY <1>1, <1>2, <1>3, <1>4, <1>5, <1>6, <1>7, <1>8, <1>9, <1>10, <1>11, <1>12,
     <1>13, <1>14, <1>15, <1>16, <1>17, <1>18, <1>19, <1>20, <1>21 DEF IsrStep

\* hif_send counts its own use of the chip, inside a callback one more.
LEMMA SleepSend ==
    ASSUME Base, Sleep, NEW t \in Tasks,
           SendStep(t) \/ SendFails(t)
    PROVE  Sleep'
<1>. USE DEF Tasks
<1>1. CASE Wake(t, "s_wake", "s_waken")
  <2>1. /\ pc[t] = "s_wake" /\ pc' = [pc EXCEPT ![t] = "s_waken"]
        /\ UNCHANGED <<back, overlap>>
        /\ (awake \/ gu8ChipSleep = 0 => awake') /\ UNCHANGED <<gu8ChipSleep, leaked>>
    BY <1>1 DEF Goto, hif, chip, failures, history, Wake
  <2>2. Uses(t)' = Uses(t)
    BY <2>1 DEF Base, HifTypeOK, Mutex, Uses, UsesIsr, UsesSend, SendPCs, IsrPCs, Tasks
  <2>3. /\ pc[t] \in SendPCs \cup IsrPCs /\ \A u \in Tasks \ {t} : pc'[u] = pc[u]
        /\ leaked' \in Nat /\ leaked <= leaked'
    BY <2>1 DEF Base, HifTypeOK, SendPCs, IsrPCs
  <2>4. ~overlap /\ leaked' < 254 /\ Awake /\ gu8ChipSleep = leaked + Uses(t) =>
            /\ gu8ChipSleep' = leaked' + Uses(t)'
            /\ gu8ChipSleep' > 0 => awake'
            /\ pc'[t] \in {"waken", "s_waken"} => awake'
    <3>1. /\ Uses(t) \in 0 .. 2 /\ Uses(t)' \in 0 .. 2
          /\ leaked \in Nat /\ gu8ChipSleep \in 0 .. 255
      BY UsesFew DEF Base, HifTypeOK
    <3>. QED
      BY <2>1, <2>2, <2>3, <3>1 DEF Awake
  <2>. QED
    BY <2>1, <2>3, <2>4, SleepMoves
<1>2. CASE WakeCounted(t, "s_waken", "s_ask")
  <2>1. /\ pc[t] = "s_waken" /\ pc' = [pc EXCEPT ![t] = "s_ask"]
        /\ UNCHANGED <<back, overlap>>
        /\ gu8ChipSleep' = (gu8ChipSleep + 1) % 256 /\ UNCHANGED <<awake, leaked>>
    BY <1>2 DEF Goto, hif, chip, failures, history, WakeCounted
  <2>2. Uses(t)' = Uses(t) + 1
    BY <2>1 DEF Base, HifTypeOK, Mutex, Uses, UsesIsr, UsesSend, SendPCs, IsrPCs, Tasks
  <2>3. /\ pc[t] \in SendPCs \cup IsrPCs /\ \A u \in Tasks \ {t} : pc'[u] = pc[u]
        /\ leaked' \in Nat /\ leaked <= leaked'
        /\ pc'[t] \notin {"waken", "s_waken"}
    BY <2>1 DEF Base, HifTypeOK, SendPCs, IsrPCs
  <2>4. ~overlap /\ leaked' < 254 /\ Awake /\ gu8ChipSleep = leaked + Uses(t) =>
            /\ gu8ChipSleep' = leaked' + Uses(t)'
            /\ gu8ChipSleep' > 0 => awake'
            /\ pc'[t] \in {"waken", "s_waken"} => awake'
    <3>1. /\ Uses(t) \in 0 .. 2 /\ Uses(t)' \in 0 .. 2
          /\ leaked \in Nat /\ gu8ChipSleep \in 0 .. 255
      BY UsesFew DEF Base, HifTypeOK
    <3>2. gu8ChipSleep \in 0 .. 254 => gu8ChipSleep' = gu8ChipSleep + 1
      BY <2>1, Room
    <3>3. leaked < 254 /\ gu8ChipSleep = leaked + Uses(t) => gu8ChipSleep \in 0 .. 254
      BY <2>2, <3>1
    <3>. QED
      BY <3>2, <3>3, <2>1, <2>2, <2>3, <3>1 DEF Awake
  <2>. QED
    BY <2>1, <2>3, <2>4, SleepMoves
<1>3. CASE SendAsks(t)
  <2>1. /\ pc[t] = "s_ask" /\ pc' = [pc EXCEPT ![t] = "s_wait"]
        /\ UNCHANGED <<back, overlap>>
        /\ UNCHANGED <<gu8ChipSleep, awake, leaked>>
    BY <1>3 DEF Goto, hif, chip, failures, history, SendAsks
  <2>2. Uses(t)' = Uses(t)
    BY <2>1 DEF Base, HifTypeOK, Mutex, Uses, UsesIsr, UsesSend, SendPCs, IsrPCs, Tasks
  <2>3. /\ pc[t] \in SendPCs \cup IsrPCs /\ \A u \in Tasks \ {t} : pc'[u] = pc[u]
        /\ leaked' \in Nat /\ leaked <= leaked'
        /\ pc'[t] \notin {"waken", "s_waken"}
    BY <2>1 DEF Base, HifTypeOK, SendPCs, IsrPCs
  <2>4. ~overlap /\ leaked' < 254 /\ Awake /\ gu8ChipSleep = leaked + Uses(t) =>
            /\ gu8ChipSleep' = leaked' + Uses(t)'
            /\ gu8ChipSleep' > 0 => awake'
            /\ pc'[t] \in {"waken", "s_waken"} => awake'
    <3>1. /\ Uses(t) \in 0 .. 2 /\ Uses(t)' \in 0 .. 2
          /\ leaked \in Nat /\ gu8ChipSleep \in 0 .. 255
      BY UsesFew DEF Base, HifTypeOK
    <3>. QED
      BY <2>1, <2>2, <2>3, <3>1 DEF Awake
  <2>. QED
    BY <2>1, <2>3, <2>4, SleepMoves
<1>4. CASE SendAddress(t)
  <2>1. /\ pc[t] = "s_wait" /\ pc' = [pc EXCEPT ![t] = "s_write"]
        /\ UNCHANGED <<back, overlap>>
        /\ UNCHANGED <<gu8ChipSleep, awake, leaked>>
    BY <1>4 DEF Goto, hif, chip, failures, history, SendAddress
  <2>2. Uses(t)' = Uses(t)
    BY <2>1 DEF Base, HifTypeOK, Mutex, Uses, UsesIsr, UsesSend, SendPCs, IsrPCs, Tasks
  <2>3. /\ pc[t] \in SendPCs \cup IsrPCs /\ \A u \in Tasks \ {t} : pc'[u] = pc[u]
        /\ leaked' \in Nat /\ leaked <= leaked'
        /\ pc'[t] \notin {"waken", "s_waken"}
    BY <2>1 DEF Base, HifTypeOK, SendPCs, IsrPCs
  <2>4. ~overlap /\ leaked' < 254 /\ Awake /\ gu8ChipSleep = leaked + Uses(t) =>
            /\ gu8ChipSleep' = leaked' + Uses(t)'
            /\ gu8ChipSleep' > 0 => awake'
            /\ pc'[t] \in {"waken", "s_waken"} => awake'
    <3>1. /\ Uses(t) \in 0 .. 2 /\ Uses(t)' \in 0 .. 2
          /\ leaked \in Nat /\ gu8ChipSleep \in 0 .. 255
      BY UsesFew DEF Base, HifTypeOK
    <3>. QED
      BY <2>1, <2>2, <2>3, <3>1 DEF Awake
  <2>. QED
    BY <2>1, <2>3, <2>4, SleepMoves
<1>5. CASE SendWrites(t)
  <2>1. /\ pc[t] = "s_write" /\ pc' = [pc EXCEPT ![t] = "s_give"]
        /\ UNCHANGED <<back, overlap>>
        /\ UNCHANGED <<gu8ChipSleep, awake, leaked>>
    BY <1>5 DEF Goto, hif, chip, failures, history, SendWrites
  <2>2. Uses(t)' = Uses(t)
    BY <2>1 DEF Base, HifTypeOK, Mutex, Uses, UsesIsr, UsesSend, SendPCs, IsrPCs, Tasks
  <2>3. /\ pc[t] \in SendPCs \cup IsrPCs /\ \A u \in Tasks \ {t} : pc'[u] = pc[u]
        /\ leaked' \in Nat /\ leaked <= leaked'
        /\ pc'[t] \notin {"waken", "s_waken"}
    BY <2>1 DEF Base, HifTypeOK, SendPCs, IsrPCs
  <2>4. ~overlap /\ leaked' < 254 /\ Awake /\ gu8ChipSleep = leaked + Uses(t) =>
            /\ gu8ChipSleep' = leaked' + Uses(t)'
            /\ gu8ChipSleep' > 0 => awake'
            /\ pc'[t] \in {"waken", "s_waken"} => awake'
    <3>1. /\ Uses(t) \in 0 .. 2 /\ Uses(t)' \in 0 .. 2
          /\ leaked \in Nat /\ gu8ChipSleep \in 0 .. 255
      BY UsesFew DEF Base, HifTypeOK
    <3>. QED
      BY <2>1, <2>2, <2>3, <3>1 DEF Awake
  <2>. QED
    BY <2>1, <2>3, <2>4, SleepMoves
<1>6. CASE SendGives(t)
  <2>1. /\ pc[t] = "s_give" /\ pc' = [pc EXCEPT ![t] = "s_sleep"]
        /\ UNCHANGED <<back, overlap>>
        /\ UNCHANGED <<gu8ChipSleep, awake, leaked>>
    BY <1>6 DEF Goto, hif, chip, failures, history, SendGives
  <2>2. Uses(t)' = Uses(t)
    BY <2>1 DEF Base, HifTypeOK, Mutex, Uses, UsesIsr, UsesSend, SendPCs, IsrPCs, Tasks
  <2>3. /\ pc[t] \in SendPCs \cup IsrPCs /\ \A u \in Tasks \ {t} : pc'[u] = pc[u]
        /\ leaked' \in Nat /\ leaked <= leaked'
        /\ pc'[t] \notin {"waken", "s_waken"}
    BY <2>1 DEF Base, HifTypeOK, SendPCs, IsrPCs
  <2>4. ~overlap /\ leaked' < 254 /\ Awake /\ gu8ChipSleep = leaked + Uses(t) =>
            /\ gu8ChipSleep' = leaked' + Uses(t)'
            /\ gu8ChipSleep' > 0 => awake'
            /\ pc'[t] \in {"waken", "s_waken"} => awake'
    <3>1. /\ Uses(t) \in 0 .. 2 /\ Uses(t)' \in 0 .. 2
          /\ leaked \in Nat /\ gu8ChipSleep \in 0 .. 255
      BY UsesFew DEF Base, HifTypeOK
    <3>. QED
      BY <2>1, <2>2, <2>3, <3>1 DEF Awake
  <2>. QED
    BY <2>1, <2>3, <2>4, SleepMoves
<1>7. CASE SleepCounted(t, "s_sleep", "s_asleep")
  <2>1. /\ pc[t] = "s_sleep" /\ pc' = [pc EXCEPT ![t] = "s_asleep"]
        /\ UNCHANGED <<back, overlap>>
        /\ gu8ChipSleep' = (IF gu8ChipSleep >= 1 THEN gu8ChipSleep - 1 ELSE gu8ChipSleep)
        /\ UNCHANGED <<awake, leaked>>
    BY <1>7 DEF Goto, hif, chip, failures, history, SleepCounted
  <2>2. Uses(t)' = Uses(t) - 1
    BY <2>1 DEF Base, HifTypeOK, Mutex, Uses, UsesIsr, UsesSend, SendPCs, IsrPCs, Tasks
  <2>3. /\ pc[t] \in SendPCs \cup IsrPCs /\ \A u \in Tasks \ {t} : pc'[u] = pc[u]
        /\ leaked' \in Nat /\ leaked <= leaked'
        /\ pc'[t] \notin {"waken", "s_waken"}
    BY <2>1 DEF Base, HifTypeOK, SendPCs, IsrPCs
  <2>4. ~overlap /\ leaked' < 254 /\ Awake /\ gu8ChipSleep = leaked + Uses(t) =>
            /\ gu8ChipSleep' = leaked' + Uses(t)'
            /\ gu8ChipSleep' > 0 => awake'
            /\ pc'[t] \in {"waken", "s_waken"} => awake'
    <3>1. /\ Uses(t) \in 0 .. 2 /\ Uses(t)' \in 0 .. 2
          /\ leaked \in Nat /\ gu8ChipSleep \in 0 .. 255
      BY UsesFew DEF Base, HifTypeOK
    <3>. QED
      BY <2>1, <2>2, <2>3, <3>1 DEF Awake
  <2>. QED
    BY <2>1, <2>3, <2>4, SleepMoves
<1>8. CASE SendReturns(t)
  <2>1. /\ pc[t] = "s_asleep" /\ pc' = [pc EXCEPT ![t] = back[t]]
        /\ UNCHANGED <<back, overlap>>
        /\ (awake /\ gu8ChipSleep # 0 => awake') /\ UNCHANGED <<gu8ChipSleep, leaked>>
    BY <1>8 DEF Goto, hif, failures, SendReturns, MaySleep
  <2>2. Uses(t)' = Uses(t)
    BY <2>1 DEF Base, HifTypeOK, Mutex, Uses, UsesIsr, UsesSend, SendPCs, IsrPCs, Tasks
  <2>3. /\ pc[t] \in SendPCs \cup IsrPCs /\ \A u \in Tasks \ {t} : pc'[u] = pc[u]
        /\ leaked' \in Nat /\ leaked <= leaked'
        /\ pc'[t] \notin {"waken", "s_waken"}
    BY <2>1 DEF Base, HifTypeOK, SendPCs, IsrPCs
  <2>4. ~overlap /\ leaked' < 254 /\ Awake /\ gu8ChipSleep = leaked + Uses(t) =>
            /\ gu8ChipSleep' = leaked' + Uses(t)'
            /\ gu8ChipSleep' > 0 => awake'
            /\ pc'[t] \in {"waken", "s_waken"} => awake'
    <3>1. /\ Uses(t) \in 0 .. 2 /\ Uses(t)' \in 0 .. 2
          /\ leaked \in Nat /\ gu8ChipSleep \in 0 .. 255
      BY UsesFew DEF Base, HifTypeOK
    <3>. QED
      BY <2>1, <2>2, <2>3, <3>1 DEF Awake
  <2>. QED
    BY <2>1, <2>3, <2>4, SleepMoves
<1>9. CASE SendNoBuffer(t)
  <2>1. /\ pc[t] = "s_wait" /\ pc' = [pc EXCEPT ![t] = back[t]]
        /\ UNCHANGED <<back, overlap>>
        /\ leaked' = leaked + 1 /\ UNCHANGED <<gu8ChipSleep, awake>>
    BY <1>9 DEF Goto, hif, chip, failures, history, SendNoBuffer
  <2>2. Uses(t)' = Uses(t) - 1
    BY <2>1 DEF Base, HifTypeOK, Mutex, Uses, UsesIsr, UsesSend, SendPCs, IsrPCs, Tasks
  <2>3. /\ pc[t] \in SendPCs \cup IsrPCs /\ \A u \in Tasks \ {t} : pc'[u] = pc[u]
        /\ leaked' \in Nat /\ leaked <= leaked'
        /\ pc'[t] \notin {"waken", "s_waken"}
    BY <2>1 DEF Base, HifTypeOK, SendPCs, IsrPCs
  <2>4. ~overlap /\ leaked' < 254 /\ Awake /\ gu8ChipSleep = leaked + Uses(t) =>
            /\ gu8ChipSleep' = leaked' + Uses(t)'
            /\ gu8ChipSleep' > 0 => awake'
            /\ pc'[t] \in {"waken", "s_waken"} => awake'
    <3>1. /\ Uses(t) \in 0 .. 2 /\ Uses(t)' \in 0 .. 2
          /\ leaked \in Nat /\ gu8ChipSleep \in 0 .. 255
      BY UsesFew DEF Base, HifTypeOK
    <3>. QED
      BY <2>1, <2>2, <2>3, <3>1 DEF Awake
  <2>. QED
    BY <2>1, <2>3, <2>4, SleepMoves
<1>10. CASE SendFails(t)
  <2>1. /\ pc' = [pc EXCEPT ![t] = back[t]] /\ UNCHANGED <<back, overlap, gu8ChipSleep, awake>>
        /\ \/ pc[t] \in {"s_ask", "s_wait", "s_write", "s_give"} /\ leaked' = leaked + 1
           \/ pc[t] \in {"s_wake", "s_asleep"} /\ leaked' = leaked + 0
    BY <1>10 DEF SendFails, Fails, Goto, hif, chip, history
  <2>2. leaked' + Uses(t)' = leaked + Uses(t)
    <3>1. CASE leaked' = leaked + 1 /\ pc[t] \notin {"wake", "asleep", "s_wake", "s_asleep"}
      <4>1. Uses(t)' + 1 = Uses(t)
        BY <2>1, <3>1 DEF Base, HifTypeOK, Mutex, Uses, UsesIsr, UsesSend, SendPCs,
           IsrPCs, Tasks
      <4>. QED
        BY <3>1, <4>1, UsesFew DEF Base, HifTypeOK
    <3>2. CASE leaked' = leaked + 0 /\ pc[t] \in {"wake", "asleep", "s_wake", "s_asleep"}
      <4>1. Uses(t)' = Uses(t)
        BY <2>1, <3>2 DEF Base, HifTypeOK, Mutex, Uses, UsesIsr, UsesSend, SendPCs,
           IsrPCs, Tasks
      <4>. QED
        BY <3>2, <4>1, UsesFew DEF Base, HifTypeOK
    <3>. QED
      BY <2>1, <3>1, <3>2
  <2>3. /\ pc[t] \in SendPCs \cup IsrPCs /\ \A u \in Tasks \ {t} : pc'[u] = pc[u]
        /\ leaked' \in Nat /\ leaked <= leaked'
        /\ pc'[t] \notin {"waken", "s_waken"}
    BY <2>1 DEF Base, HifTypeOK, SendPCs, IsrPCs
  <2>4. ~overlap /\ leaked' < 254 /\ Awake /\ gu8ChipSleep = leaked + Uses(t) =>
            /\ gu8ChipSleep' = leaked' + Uses(t)'
            /\ gu8ChipSleep' > 0 => awake'
            /\ pc'[t] \in {"waken", "s_waken"} => awake'
    <3>1. /\ Uses(t) \in 0 .. 2 /\ Uses(t)' \in 0 .. 2
          /\ leaked \in Nat /\ gu8ChipSleep \in 0 .. 255
      BY UsesFew DEF Base, HifTypeOK
    <3>. QED
      BY <2>1, <2>2, <2>3, <3>1 DEF Awake
  <2>. QED
    BY <2>1, <2>3, <2>4, SleepMoves
<1>. QED
  BY <1>1, <1>2, <1>3, <1>4, <1>5, <1>6, <1>7, <1>8, <1>9, <1>10 DEF SendStep

\* Nobody else wakes the chip or lets it sleep.
LEMMA SleepRest ==
    ASSUME Base, Sleep,
           AppSends \/ AppReleases \/ ChipStep
    PROVE  Sleep'
<1>. USE DEF Tasks
<1>1. CASE AppSends
  BY <1>1 DEF AppSends, StartsSend, Base, HifTypeOK, Mutex, Sleep, Awake, Uses, UsesIsr,
     UsesSend, InSend,
       Nobody, IsrPCs, SendPCs, Goto, hif, pin, chip, failures, history
<1>2. CASE AppReleases
  BY <1>2 DEF AppReleases, Base, HifTypeOK, Mutex, Sleep, Awake, Uses, UsesIsr,
     UsesSend, InSend,
       Nobody, IsrPCs, SendPCs, Goto, hif, pin, chip, failures, history
<1>3. CASE ChipPosts
  <2>1. UNCHANGED <<gu8ChipSleep, awake, leaked, overlap, pc, back>>
    BY <1>3 DEF ChipPosts, Goto, hif, tasks, pin, chip, failures, history
  <2>. QED
    BY <2>1 DEF Sleep, Awake, Uses, UsesIsr, UsesSend
<1>4. CASE ChipAllocates
  <2>1. UNCHANGED <<gu8ChipSleep, awake, leaked, overlap, pc, back>>
    BY <1>4 DEF ChipAllocates, Goto, hif, tasks, pin, chip, failures, history
  <2>. QED
    BY <2>1 DEF Sleep, Awake, Uses, UsesIsr, UsesSend
<1>5. CASE ChipTakes
  <2>1. UNCHANGED <<gu8ChipSleep, awake, leaked, overlap, pc, back>>
    BY <1>5 DEF ChipTakes, Goto, hif, tasks, pin, chip, failures, history
  <2>. QED
    BY <2>1 DEF Sleep, Awake, Uses, UsesIsr, UsesSend
<1>. QED
  BY <1>1, <1>2, <1>3, <1>4, <1>5 DEF ChipStep

\* Steps that do not touch buffers keep the packets: a task that leaves
\* hif_send, or goes on to where the packet is in the same state.
LEMMA PacketsKept ==
    ASSUME Packets, ~overlap' => ~overlap,
           UNCHANGED <<sending, dma_addr, request, buffer, mem, given, sends, allocs, taken,
                       returned>>,
           \A t \in Tasks :
               \/ pc'[t] = pc[t] \/ pc'[t] \notin SendPCs
               \/ pc[t] = "s_wake" /\ pc'[t] = "s_waken"
               \/ pc[t] = "s_waken" /\ pc'[t] = "s_ask"
               \/ pc[t] = "s_sleep" /\ pc'[t] = "s_asleep"
    PROVE  Packets'
<1>. SUFFICES ASSUME ~overlap'
              PROVE  Delivered'
  BY DEF Packets
<1>1. Delivered
  BY DEF Packets
<1>2. Buffers' /\ \A p \in returned' : Sent(p)'
  BY <1>1 DEF Delivered, Buffers, Sent
<1>3. ASSUME NEW t \in Tasks
      PROVE  Sending(t)'
  <2>1. Sending(t) /\ (Unsent(sending[t])' <=> Unsent(sending[t]))
        /\ (Sent(sending[t])' <=> Sent(sending[t]))
    BY <1>1 DEF Delivered, Unsent, Sent
  <2>2. CASE pc'[t] = pc[t]
    BY <2>1, <2>2 DEF Sending
  <2>3. CASE pc'[t] \notin SendPCs
    BY <2>3 DEF Sending, SendPCs
  <2>4. CASE \/ pc[t] = "s_wake" /\ pc'[t] = "s_waken"
             \/ pc[t] = "s_waken" /\ pc'[t] = "s_ask"
             \/ pc[t] = "s_sleep" /\ pc'[t] = "s_asleep"
    BY <2>1, <2>4 DEF Sending, SendPCs
  <2>. QED
    BY <2>2, <2>3, <2>4
<1>. QED
  BY <1>2, <1>3 DEF Delivered

\* A new packet has a number that no buffer holds.
LEMMA PacketsStart ==
    ASSUME Base, Packets, NEW t \in Tasks, NEW where, StartsSend(t, where),
           pc' = [pc EXCEPT ![t] = "s_wake"],
           UNCHANGED <<dma_addr, request, buffer, mem, given, allocs, taken, returned>>
    PROVE  Packets'
<1>. SUFFICES ASSUME ~overlap'
              PROVE  Delivered'
  BY DEF Packets
<1>1. ~overlap
  BY Zenon DEF StartsSend
<1>2. Delivered
  BY <1>1 DEF Packets
<1>3. /\ sends' = sends + 1 /\ sends \in Nat
      /\ sending' = [sending EXCEPT ![t] = sends + 1] /\ sending \in [Tasks -> Nat]
      /\ pc'[t] = "s_wake" /\ \A u \in Tasks \ {t} : pc'[u] = pc[u]
      /\ mem \in [1 .. MaxSends -> Nat] /\ taken \in Seq(Nat)
  BY DEF StartsSend, Base, HifTypeOK
<1>4. Buffers' /\ \A p \in returned' : Sent(p)'
  BY <1>2, <1>3 DEF Delivered, Buffers, Sent
<1>5. Unsent(sends + 1)
  BY <1>2, <1>3 DEF Delivered, Buffers, Unsent
<1>6. Sending(t)'
  <2>1. sending'[t] = sends + 1 /\ Unsent(sending[t])'
    BY <1>3, <1>5 DEF Unsent
  <2>. QED
    BY <2>1, <1>3 DEF Sending, SendPCs
<1>7. ASSUME NEW u \in Tasks, u # t
      PROVE  Sending(u)'
  <2>1. sending'[u] = sending[u] /\ pc'[u] = pc[u] /\ Sending(u)
    BY <1>2, <1>3, <1>7 DEF Delivered
  <2>2. (Unsent(sending[u])' <=> Unsent(sending[u])) /\ (Sent(sending[u])' <=> Sent(sending[u]))
    BY <2>1 DEF Unsent, Sent
  <2>3. pc'[u] \in SendPCs => sending'[u] \in 1 .. sends'
    BY <2>1, <1>3 DEF Sending
  <2>. QED
    BY <2>1, <2>2, <2>3 DEF Sending
<1>. QED
  BY <1>4, <1>6, <1>7 DEF Delivered

\* The one task in hif_send moves: the others have no packet.
LEMMA PacketsMove ==
    ASSUME Base, Packets, NEW t \in Tasks, pc[t] \in SendPCs, overlap' = overlap,
           \A u \in Tasks \ {t} : pc'[u] = pc[u],
           ~overlap /\ Delivered => Buffers' /\ Sending(t)' /\ \A p \in returned' : Sent(p)'
    PROVE  Packets'
<1>. SUFFICES ASSUME ~overlap
              PROVE  Delivered'
  BY DEF Packets
<1>1. ASSUME NEW u \in Tasks \ {t}
      PROVE  Sending(u)'
  <2>1. pc'[u] \in {"idle", "release"}
    BY OneUser
  <2>. QED
    BY <2>1 DEF Sending, SendPCs
<1>2. Buffers' /\ Sending(t)' /\ \A p \in returned' : Sent(p)'
  BY DEF Packets
<1>. QED
  BY <1>1, <1>2 DEF Delivered

\* The Wi-Fi task touches no buffer outside hif_send.
LEMMA PacketsWifi ==
    ASSUME Base, Packets,
           Isr \/ Events \/ LoopLoads \/ LoopStores \/ LoopEnds \/ IsrStep
           \/ IsrFails \/ RxDoneFails
    PROVE  Packets'
<1>. USE DEF Tasks
<1>1. CASE Isr
  <2>1. UNCHANGED <<sending, dma_addr, request, buffer, mem, given, sends, allocs, taken,
                    returned, overlap, pc>>
    BY <1>1 DEF Isr, hif, tasks, chip, failures, history
  <2>. QED
    BY <2>1, PacketsKept
<1>2. CASE Events
  <2>1. UNCHANGED <<sending, dma_addr, request, buffer, mem, given, sends, allocs, taken,
                    returned, overlap>>
    BY <1>2 DEF Events, Goto, hif, tasks, chip, failures, history
  <2>2. \A u \in Tasks : pc'[u] = pc[u] \/ pc'[u] \notin SendPCs
    BY <1>2 DEF Events, Goto, Base, HifTypeOK, Mutex, SendPCs
  <2>. QED
    BY <2>1, <2>2, PacketsKept
<1>3. CASE LoopLoads
  <2>1. UNCHANGED <<sending, dma_addr, request, buffer, mem, given, sends, allocs, taken,
                    returned, overlap>>
    BY <1>3 DEF LoopLoads, Goto, hif, tasks, chip, failures, history
  <2>2. \A u \in Tasks : pc'[u] = pc[u] \/ pc'[u] \notin SendPCs
    BY <1>3 DEF LoopLoads, Goto, Base, HifTypeOK, Mutex, SendPCs
  <2>. QED
    BY <2>1, <2>2, PacketsKept
<1>4. CASE LoopStores
  <2>1. UNCHANGED <<sending, dma_addr, request, buffer, mem, given, sends, allocs, taken,
                    returned, overlap>>
    BY <1>4 DEF LoopStores, Goto, hif, tasks, chip, failures, history
  <2>2. \A u \in Tasks : pc'[u] = pc[u] \/ pc'[u] \notin SendPCs
    BY <1>4 DEF LoopStores, Goto, Base, HifTypeOK, Mutex, SendPCs
  <2>. QED
    BY <2>1, <2>2, PacketsKept
<1>5. CASE LoopEnds
  <2>1. CASE pc' = [pc EXCEPT !["wifi"] = "idle"] /\ UNCHANGED <<sends, sending, overlap>>
    <3>1. UNCHANGED <<dma_addr, request, buffer, mem, given, allocs, taken, returned>>
      BY <1>5 DEF LoopEnds, chip
    <3>2. \A u \in Tasks : pc'[u] = pc[u] \/ pc'[u] \notin SendPCs
      BY <2>1 DEF Base, HifTypeOK, SendPCs
    <3>. QED
      BY <2>1, <3>1, <3>2, PacketsKept
  <2>2. CASE pc' = [pc EXCEPT !["wifi"] = "s_wake"] /\ StartsSend("wifi", "idle")
    <3>1. UNCHANGED <<dma_addr, request, buffer, mem, given, allocs, taken, returned>>
      BY <1>5 DEF LoopEnds, chip
    <3>. QED
      BY <2>2, <3>1, PacketsStart
  <2>. QED
    BY <1>5, <2>1, <2>2 DEF LoopEnds, Goto
<1>6. CASE Wake("wifi", "wake", "waken")
  <2>1. UNCHANGED <<sending, dma_addr, request, buffer, mem, given, sends, allocs, taken,
                    returned, overlap>>
    BY <1>6 DEF Wake, Goto, hif, tasks, chip, failures, history
  <2>2. \A u \in Tasks : pc'[u] = pc[u] \/ pc'[u] \notin SendPCs
    BY <1>6 DEF Wake, Goto, Base, HifTypeOK, Mutex, SendPCs
  <2>. QED
    BY <2>1, <2>2, PacketsKept
<1>7. CASE WakeCounted("wifi", "waken", "ctrl0")
  <2>1. UNCHANGED <<sending, dma_addr, request, buffer, mem, given, sends, allocs, taken,
                    returned, overlap>>
    BY <1>7 DEF WakeCounted, Goto, hif, tasks, chip, failures, history
  <2>2. \A u \in Tasks : pc'[u] = pc[u] \/ pc'[u] \notin SendPCs
    BY <1>7 DEF WakeCounted, Goto, Base, HifTypeOK, Mutex, SendPCs
  <2>. QED
    BY <2>1, <2>2, PacketsKept
<1>8. CASE IsrReads
  <2>1. UNCHANGED <<sending, dma_addr, request, buffer, mem, given, sends, allocs, taken,
                    returned, overlap>>
    BY <1>8 DEF IsrReads, Goto, hif, tasks, chip, failures, history
  <2>2. \A u \in Tasks : pc'[u] = pc[u] \/ pc'[u] \notin SendPCs
    BY <1>8 DEF IsrReads, Goto, Base, HifTypeOK, Mutex, SendPCs
  <2>. QED
    BY <2>1, <2>2, PacketsKept
<1>9. CASE IsrClears
  <2>1. UNCHANGED <<sending, dma_addr, request, buffer, mem, given, sends, allocs, taken,
                    returned, overlap>>
    BY <1>9 DEF IsrClears, Goto, hif, tasks, chip, failures, history
  <2>2. \A u \in Tasks : pc'[u] = pc[u] \/ pc'[u] \notin SendPCs
    BY <1>9 DEF IsrClears, Goto, Base, HifTypeOK, Mutex, SendPCs
  <2>. QED
    BY <2>1, <2>2, PacketsKept
<1>10. CASE IsrHeader
  <2>1. UNCHANGED <<sending, dma_addr, request, buffer, mem, given, sends, allocs, taken,
                    returned, overlap>>
    BY <1>10 DEF IsrHeader, Goto, hif, tasks, chip, failures, history
  <2>2. \A u \in Tasks : pc'[u] = pc[u] \/ pc'[u] \notin SendPCs
    BY <1>10 DEF IsrHeader, Goto, Base, HifTypeOK, Mutex, SendPCs
  <2>. QED
    BY <2>1, <2>2, PacketsKept
<1>11. CASE Receive
  <2>1. UNCHANGED <<sending, dma_addr, request, buffer, mem, given, sends, allocs, taken,
                    returned, overlap>>
    BY <1>11 DEF Receive, Goto, hif, tasks, chip, failures, history
  <2>2. \A u \in Tasks : pc'[u] = pc[u] \/ pc'[u] \notin SendPCs
    BY <1>11 DEF Receive, Goto, Base, HifTypeOK, Mutex, SendPCs
  <2>. QED
    BY <2>1, <2>2, PacketsKept
<1>12. CASE SetRxDone("rx_done", "irq_on", "callback")
  <2>1. UNCHANGED <<sending, dma_addr, request, buffer, mem, given, sends, allocs, taken,
                    returned, overlap>>
    BY <1>12 DEF SetRxDone, Goto, hif, tasks, chip, failures, history
  <2>2. \A u \in Tasks : pc'[u] = pc[u] \/ pc'[u] \notin SendPCs
    BY <1>12 DEF SetRxDone, Goto, Base, HifTypeOK, Mutex, SendPCs
  <2>. QED
    BY <2>1, <2>2, PacketsKept
<1>13. CASE IrqOn("irq_on", "callback")
  <2>1. UNCHANGED <<sending, dma_addr, request, buffer, mem, given, sends, allocs, taken,
                    returned, overlap>>
    BY <1>13 DEF IrqOn, Goto, hif, tasks, chip, failures, history
  <2>2. \A u \in Tasks : pc'[u] = pc[u] \/ pc'[u] \notin SendPCs
    BY <1>13 DEF IrqOn, Goto, Base, HifTypeOK, Mutex, SendPCs
  <2>. QED
    BY <2>1, <2>2, PacketsKept
<1>14. CASE SetRxDone("rx_late", "irq_late", "sleep")
  <2>1. UNCHANGED <<sending, dma_addr, request, buffer, mem, given, sends, allocs, taken,
                    returned, overlap>>
    BY <1>14 DEF SetRxDone, Goto, hif, tasks, chip, failures, history
  <2>2. \A u \in Tasks : pc'[u] = pc[u] \/ pc'[u] \notin SendPCs
    BY <1>14 DEF SetRxDone, Goto, Base, HifTypeOK, Mutex, SendPCs
  <2>. QED
    BY <2>1, <2>2, PacketsKept
<1>15. CASE IrqOn("irq_late", "sleep")
  <2>1. UNCHANGED <<sending, dma_addr, request, buffer, mem, given, sends, allocs, taken,
                    returned, overlap>>
    BY <1>15 DEF IrqOn, Goto, hif, tasks, chip, failures, history
  <2>2. \A u \in Tasks : pc'[u] = pc[u] \/ pc'[u] \notin SendPCs
    BY <1>15 DEF IrqOn, Goto, Base, HifTypeOK, Mutex, SendPCs
  <2>. QED
    BY <2>1, <2>2, PacketsKept
<1>16. CASE CallbackSends
  <2>1. PICK p : StartsSend("wifi", p) /\ pc' = [pc EXCEPT !["wifi"] = "s_wake"]
    BY <1>16 DEF CallbackSends, Goto
  <2>2. UNCHANGED <<dma_addr, request, buffer, mem, given, allocs, taken, returned>>
    BY <1>16 DEF CallbackSends, chip
  <2>. QED
    BY <2>1, <2>2, PacketsStart
<1>17. CASE CallbackReturns
  <2>1. UNCHANGED <<sending, dma_addr, request, buffer, mem, given, sends, allocs, taken,
                    returned, overlap>>
    BY <1>17 DEF CallbackReturns, Goto, hif, tasks, chip, failures, history
  <2>2. \A u \in Tasks : pc'[u] = pc[u] \/ pc'[u] \notin SendPCs
    BY <1>17 DEF CallbackReturns, Goto, Base, HifTypeOK, Mutex, SendPCs
  <2>. QED
    BY <2>1, <2>2, PacketsKept
<1>18. CASE SleepCounted("wifi", "sleep", "asleep")
  <2>1. UNCHANGED <<sending, dma_addr, request, buffer, mem, given, sends, allocs, taken,
                    returned, overlap>>
    BY <1>18 DEF SleepCounted, Goto, hif, tasks, chip, failures, history
  <2>2. \A u \in Tasks : pc'[u] = pc[u] \/ pc'[u] \notin SendPCs
    BY <1>18 DEF SleepCounted, Goto, Base, HifTypeOK, Mutex, SendPCs
  <2>. QED
    BY <2>1, <2>2, PacketsKept
<1>19. CASE MaySleep("wifi", "asleep", "loop") /\ UNCHANGED history
  <2>1. UNCHANGED <<sending, dma_addr, request, buffer, mem, given, sends, allocs, taken,
                    returned, overlap>>
    BY <1>19 DEF MaySleep, Goto, hif, tasks, chip, failures, history
  <2>2. \A u \in Tasks : pc'[u] = pc[u] \/ pc'[u] \notin SendPCs
    BY <1>19 DEF MaySleep, Goto, Base, HifTypeOK, Mutex, SendPCs
  <2>. QED
    BY <2>1, <2>2, PacketsKept
<1>20. CASE IsrFails
  <2>1. UNCHANGED <<sending, dma_addr, request, buffer, mem, given, sends, allocs, taken,
                    returned, overlap>>
    BY <1>20 DEF IsrFails, Fails, Goto, hif, tasks, chip, failures, history
  <2>2. \A u \in Tasks : pc'[u] = pc[u] \/ pc'[u] \notin SendPCs
    BY <1>20 DEF IsrFails, Fails, Goto, Base, HifTypeOK, Mutex, SendPCs
  <2>. QED
    BY <2>1, <2>2, PacketsKept
<1>21. CASE RxDoneFails
  <2>1. UNCHANGED <<sending, dma_addr, request, buffer, mem, given, sends, allocs, taken,
                    returned, overlap>>
    BY <1>21 DEF RxDoneFails, Fails, Goto, hif, tasks, chip, failures, history
  <2>2. \A u \in Tasks : pc'[u] = pc[u] \/ pc'[u] \notin SendPCs
    BY <1>21 DEF RxDoneFails, Fails, Goto, Base, HifTypeOK, Mutex, SendPCs
  <2>. QED
    BY <2>1, <2>2, PacketsKept
<1>. QED
  BY <1>1, <1>2, <1>3, <1>4, <1>5, <1>6, <1>7, <1>8, <1>9, <1>10, <1>11, <1>12,
     <1>13, <1>14, <1>15, <1>16, <1>17, <1>18, <1>19, <1>20, <1>21 DEF IsrStep

\* hif_send writes one packet into one new buffer and hands it over.
LEMMA PacketsSend ==
    ASSUME Base, Packets, NEW t \in Tasks,
           SendStep(t) \/ SendFails(t)
    PROVE  Packets'
<1>. USE DEF Tasks
<1>1. CASE Wake(t, "s_wake", "s_waken")
  <2>1. UNCHANGED <<sending, dma_addr, request, buffer, mem, given, sends, allocs, taken,
                    returned, overlap>>
    BY <1>1 DEF Wake, Goto, hif, tasks, chip, failures, history
  <2>2. \A u \in Tasks :
               \/ pc'[u] = pc[u] \/ pc'[u] \notin SendPCs
               \/ pc[u] = "s_wake" /\ pc'[u] = "s_waken"
               \/ pc[u] = "s_waken" /\ pc'[u] = "s_ask"
               \/ pc[u] = "s_sleep" /\ pc'[u] = "s_asleep"
    BY <1>1 DEF Wake, Goto, Base, HifTypeOK, Mutex, SendPCs
  <2>. QED
    BY <2>1, <2>2, PacketsKept
<1>2. CASE WakeCounted(t, "s_waken", "s_ask")
  <2>1. UNCHANGED <<sending, dma_addr, request, buffer, mem, given, sends, allocs, taken,
                    returned, overlap>>
    BY <1>2 DEF WakeCounted, Goto, hif, tasks, chip, failures, history
  <2>2. \A u \in Tasks :
               \/ pc'[u] = pc[u] \/ pc'[u] \notin SendPCs
               \/ pc[u] = "s_wake" /\ pc'[u] = "s_waken"
               \/ pc[u] = "s_waken" /\ pc'[u] = "s_ask"
               \/ pc[u] = "s_sleep" /\ pc'[u] = "s_asleep"
    BY <1>2 DEF WakeCounted, Goto, Base, HifTypeOK, Mutex, SendPCs
  <2>. QED
    BY <2>1, <2>2, PacketsKept
<1>3. CASE SendAsks(t)
  <2>1. /\ pc[t] = "s_ask" /\ pc' = [pc EXCEPT ![t] = "s_wait"]
        /\ request'
        /\ UNCHANGED <<sending, dma_addr, buffer, mem, given, sends, allocs, taken, returned, overlap>>
    BY <1>3 DEF SendAsks, Goto, hif, tasks, chip, failures, history
  <2>2. pc'[t] = "s_wait" /\ \A u \in Tasks \ {t} : pc'[u] = pc[u]
    BY <2>1 DEF Base, HifTypeOK
  <2>3. ASSUME ~overlap, Delivered
        PROVE  Buffers' /\ Sending(t)' /\ \A p \in returned' : Sent(p)'
    <3>1. /\ Buffers /\ Sending(t) /\ \A p \in returned : Sent(p)
          /\ MaxSends \in Nat /\ sends \in Nat /\ allocs \in 0 .. MaxSends
          /\ buffer \in 0 .. allocs /\ taken \in Seq(Nat)
          /\ mem \in [1 .. MaxSends -> Nat] /\ given \subseteq 1 .. MaxSends
          /\ dma_addr \in [Tasks -> Nat] /\ sending \in [Tasks -> Nat]
          /\ back[t] \notin SendPCs
      BY <2>3, HifAssumption DEF Delivered, Base, HifTypeOK, SendPCs
    <3>2. Buffers' /\ \A p \in returned' : Sent(p)'
      BY <2>1, <3>1 DEF Buffers, Sent
    <3>3. Unsent(sending[t])'
      BY <2>1, <3>1 DEF Sending, Unsent
    <3>4. Sending(t)'
      BY <2>1, <2>2, <3>1, <3>3 DEF Sending, SendPCs
    <3>. QED
      BY <3>2, <3>4
  <2>. QED
    BY <2>1, <2>2, <2>3, PacketsMove DEF SendPCs
<1>4. CASE SendAddress(t)
  <2>1. /\ pc[t] = "s_wait" /\ pc' = [pc EXCEPT ![t] = "s_write"]
        /\ ~request /\ buffer # 0 /\ dma_addr' = [dma_addr EXCEPT ![t] = buffer]
        /\ UNCHANGED <<sending, request, buffer, mem, given, sends, allocs, taken, returned, overlap>>
    BY <1>4 DEF SendAddress, Goto, hif, tasks, chip, failures, history
  <2>2. pc'[t] = "s_write" /\ \A u \in Tasks \ {t} : pc'[u] = pc[u]
    BY <2>1 DEF Base, HifTypeOK
  <2>3. ASSUME ~overlap, Delivered
        PROVE  Buffers' /\ Sending(t)' /\ \A p \in returned' : Sent(p)'
    <3>1. /\ Buffers /\ Sending(t) /\ \A p \in returned : Sent(p)
          /\ MaxSends \in Nat /\ sends \in Nat /\ allocs \in 0 .. MaxSends
          /\ buffer \in 0 .. allocs /\ taken \in Seq(Nat)
          /\ mem \in [1 .. MaxSends -> Nat] /\ given \subseteq 1 .. MaxSends
          /\ dma_addr \in [Tasks -> Nat] /\ sending \in [Tasks -> Nat]
          /\ back[t] \notin SendPCs
      BY <2>3, HifAssumption DEF Delivered, Base, HifTypeOK, SendPCs
    <3>2. Buffers' /\ \A p \in returned' : Sent(p)'
      BY <2>1, <3>1 DEF Buffers, Sent
    <3>3. Unsent(sending[t])'
      BY <2>1, <3>1 DEF Sending, Unsent
    <3>4. Sending(t)'
      BY <2>1, <2>2, <3>1, <3>3 DEF Sending, SendPCs
    <3>. QED
      BY <3>2, <3>4
  <2>. QED
    BY <2>1, <2>2, <2>3, PacketsMove DEF SendPCs
<1>5. CASE SendWrites(t)
  <2>1. /\ pc[t] = "s_write" /\ pc' = [pc EXCEPT ![t] = "s_give"]
        /\ mem' = [mem EXCEPT ![dma_addr[t]] = sending[t]]
        /\ UNCHANGED <<sending, dma_addr, request, buffer, given, sends, allocs, taken, returned, overlap>>
    BY <1>5 DEF SendWrites, Goto, hif, tasks, chip, failures, history
  <2>2. pc'[t] = "s_give" /\ \A u \in Tasks \ {t} : pc'[u] = pc[u]
    BY <2>1 DEF Base, HifTypeOK
  <2>3. ASSUME ~overlap, Delivered
        PROVE  Buffers' /\ Sending(t)' /\ \A p \in returned' : Sent(p)'
    <3>1. /\ Buffers /\ Sending(t) /\ \A p \in returned : Sent(p)
          /\ MaxSends \in Nat /\ sends \in Nat /\ allocs \in 0 .. MaxSends
          /\ buffer \in 0 .. allocs /\ taken \in Seq(Nat)
          /\ mem \in [1 .. MaxSends -> Nat] /\ given \subseteq 1 .. MaxSends
          /\ dma_addr \in [Tasks -> Nat] /\ sending \in [Tasks -> Nat]
          /\ back[t] \notin SendPCs
      BY <2>3, HifAssumption DEF Delivered, Base, HifTypeOK, SendPCs
    <3>2. /\ dma_addr[t] \in 1 .. allocs /\ dma_addr[t] \in 1 .. MaxSends
          /\ dma_addr[t] \notin given /\ mem[dma_addr[t]] = 0
          /\ sending[t] \in 1 .. sends /\ Unsent(sending[t])
      BY <2>1, <3>1 DEF Sending, SendPCs
    <3>3. /\ mem'[dma_addr[t]] = sending[t]
          /\ \A a \in 1 .. MaxSends : a # dma_addr[t] => mem'[a] = mem[a]
      BY <2>1, <3>1, <3>2
    <3>4. \A p \in returned' : Sent(p)'
      BY <2>1, <3>1, <3>2, <3>3 DEF Sent
    <3>5. Buffers'
      <4>. PICK d : d = dma_addr[t]
        OBVIOUS
      <4>1. /\ d \in 1 .. allocs /\ d \in 1 .. MaxSends /\ d \notin given
            /\ mem'[d] = sending[t] /\ \A a \in 1 .. MaxSends : a # d => mem'[a] = mem[a]
            /\ \A a \in 1 .. MaxSends : mem[a] # sending[t]
        BY <3>2, <3>3 DEF Unsent
      <4>2. ASSUME NEW a \in 1 .. MaxSends
            PROVE  mem'[a] <= sends /\ (a > allocs => mem'[a] = 0 /\ a \notin given)
        <5>1. mem[a] <= sends /\ (a > allocs => mem[a] = 0 /\ a \notin given)
          BY <3>1 DEF Buffers
        <5>2. CASE a = d
          BY <3>1, <3>2, <4>1, <5>2
        <5>3. CASE a # d
          BY <4>1, <5>1, <5>3
        <5>. QED
          BY <5>2, <5>3
      <4>3. ASSUME NEW a \in 1 .. MaxSends, NEW b \in 1 .. MaxSends,
                   mem'[a] = mem'[b], mem'[a] # 0
            PROVE  a = b
        BY <3>1, <4>1, <4>3 DEF Buffers
      <4>4. ASSUME NEW a \in given
            PROVE  mem'[a] # 0 /\ \A i \in 1 .. Len(taken) : taken[i] # mem'[a]
        BY <3>1, <4>1 DEF Buffers
      <4>. QED
        BY <2>1, <3>1, <4>2, <4>3, <4>4 DEF Buffers
    <3>6. Sending(t)'
      BY <2>1, <2>2, <3>2, <3>3 DEF Sending, Unsent, SendPCs
    <3>. QED
      BY <3>4, <3>5, <3>6
  <2>. QED
    BY <2>1, <2>2, <2>3, PacketsMove DEF SendPCs
<1>6. CASE SendGives(t)
  <2>1. /\ pc[t] = "s_give" /\ pc' = [pc EXCEPT ![t] = "s_sleep"]
        /\ given' = given \cup {dma_addr[t]}
        /\ UNCHANGED <<sending, dma_addr, request, buffer, mem, sends, allocs, taken, returned, overlap>>
    BY <1>6 DEF SendGives, Goto, hif, tasks, chip, failures, history
  <2>2. pc'[t] = "s_sleep" /\ \A u \in Tasks \ {t} : pc'[u] = pc[u]
    BY <2>1 DEF Base, HifTypeOK
  <2>3. ASSUME ~overlap, Delivered
        PROVE  Buffers' /\ Sending(t)' /\ \A p \in returned' : Sent(p)'
    <3>1. /\ Buffers /\ Sending(t) /\ \A p \in returned : Sent(p)
          /\ MaxSends \in Nat /\ sends \in Nat /\ allocs \in 0 .. MaxSends
          /\ buffer \in 0 .. allocs /\ taken \in Seq(Nat)
          /\ mem \in [1 .. MaxSends -> Nat] /\ given \subseteq 1 .. MaxSends
          /\ dma_addr \in [Tasks -> Nat] /\ sending \in [Tasks -> Nat]
          /\ back[t] \notin SendPCs
      BY <2>3, HifAssumption DEF Delivered, Base, HifTypeOK, SendPCs
    <3>2. /\ dma_addr[t] \in 1 .. allocs /\ mem[dma_addr[t]] = sending[t]
          /\ sending[t] \in 1 .. sends
          /\ \A i \in 1 .. Len(taken) : taken[i] # sending[t]
      BY <2>1, <3>1 DEF Sending, SendPCs
    <3>3. (\A p \in returned' : Sent(p)') /\ Sent(sending[t])'
      BY <2>1, <3>1, <3>2 DEF Sent
    <3>4. Buffers'
      BY <2>1, <3>1, <3>2 DEF Buffers
    <3>5. Sending(t)'
      BY <2>1, <2>2, <3>2, <3>3 DEF Sending, SendPCs
    <3>. QED
      BY <3>3, <3>4, <3>5
  <2>. QED
    BY <2>1, <2>2, <2>3, PacketsMove DEF SendPCs
<1>7. CASE SleepCounted(t, "s_sleep", "s_asleep")
  <2>1. UNCHANGED <<sending, dma_addr, request, buffer, mem, given, sends, allocs, taken,
                    returned, overlap>>
    BY <1>7 DEF SleepCounted, Goto, hif, tasks, chip, failures, history
  <2>2. \A u \in Tasks :
               \/ pc'[u] = pc[u] \/ pc'[u] \notin SendPCs
               \/ pc[u] = "s_wake" /\ pc'[u] = "s_waken"
               \/ pc[u] = "s_waken" /\ pc'[u] = "s_ask"
               \/ pc[u] = "s_sleep" /\ pc'[u] = "s_asleep"
    BY <1>7 DEF SleepCounted, Goto, Base, HifTypeOK, Mutex, SendPCs
  <2>. QED
    BY <2>1, <2>2, PacketsKept
<1>8. CASE SendReturns(t)
  <2>1. /\ pc[t] = "s_asleep" /\ pc' = [pc EXCEPT ![t] = back[t]]
        /\ returned' = returned \cup {sending[t]}
        /\ UNCHANGED <<sending, dma_addr, request, buffer, mem, given, sends, allocs, taken, overlap>>
    BY <1>8 DEF SendReturns, MaySleep, Goto, hif, tasks, chip, failures, history
  <2>2. pc'[t] = back[t] /\ \A u \in Tasks \ {t} : pc'[u] = pc[u]
    BY <2>1 DEF Base, HifTypeOK
  <2>3. ASSUME ~overlap, Delivered
        PROVE  Buffers' /\ Sending(t)' /\ \A p \in returned' : Sent(p)'
    <3>1. /\ Buffers /\ Sending(t) /\ \A p \in returned : Sent(p)
          /\ MaxSends \in Nat /\ sends \in Nat /\ allocs \in 0 .. MaxSends
          /\ buffer \in 0 .. allocs /\ taken \in Seq(Nat)
          /\ mem \in [1 .. MaxSends -> Nat] /\ given \subseteq 1 .. MaxSends
          /\ dma_addr \in [Tasks -> Nat] /\ sending \in [Tasks -> Nat]
          /\ back[t] \notin SendPCs
      BY <2>3, HifAssumption DEF Delivered, Base, HifTypeOK, SendPCs
    <3>2. Sent(sending[t])
      BY <2>1, <3>1 DEF Sending
    <3>3. Buffers' /\ \A p \in returned' : Sent(p)'
      BY <2>1, <3>1, <3>2 DEF Buffers, Sent
    <3>4. Sending(t)'
      BY <2>2, <3>1 DEF Sending, SendPCs
    <3>. QED
      BY <3>3, <3>4
  <2>. QED
    BY <2>1, <2>2, <2>3, PacketsMove DEF SendPCs
<1>9. CASE SendNoBuffer(t)
  <2>1. UNCHANGED <<sending, dma_addr, request, buffer, mem, given, sends, allocs, taken,
                    returned, overlap>>
    BY <1>9 DEF SendNoBuffer, Goto, hif, tasks, chip, failures, history
  <2>2. \A u \in Tasks : pc'[u] = pc[u] \/ pc'[u] \notin SendPCs
    BY <1>9 DEF SendNoBuffer, Goto, Base, HifTypeOK, Mutex, SendPCs
  <2>. QED
    BY <2>1, <2>2, PacketsKept
<1>10. CASE SendFails(t)
  <2>1. UNCHANGED <<sending, dma_addr, request, buffer, mem, given, sends, allocs, taken,
                    returned, overlap>>
    BY <1>10 DEF SendFails, Fails, Goto, hif, tasks, chip, failures, history
  <2>2. \A u \in Tasks : pc'[u] = pc[u] \/ pc'[u] \notin SendPCs
    BY <1>10 DEF SendFails, Fails, Goto, Base, HifTypeOK, Mutex, SendPCs
  <2>. QED
    BY <2>1, <2>2, PacketsKept
<1>. QED
  BY <1>1, <1>2, <1>3, <1>4, <1>5, <1>6, <1>7, <1>8, <1>9, <1>10 DEF SendStep

\* The chip gives every buffer once, and takes what it holds once.
LEMMA PacketsRest ==
    ASSUME Base, Packets,
           AppSends \/ AppReleases \/ ChipStep
    PROVE  Packets'
<1>. USE DEF Tasks
<1>1. CASE AppSends
  <2>1. StartsSend("app", "release") /\ pc' = [pc EXCEPT !["app"] = "s_wake"]
    BY <1>1 DEF AppSends, Goto
  <2>2. UNCHANGED <<dma_addr, request, buffer, mem, given, allocs, taken, returned>>
    BY <1>1 DEF AppSends, chip
  <2>. QED
    BY <2>1, <2>2, PacketsStart
<1>2. CASE AppReleases
  <2>1. UNCHANGED <<sending, dma_addr, request, buffer, mem, given, sends, allocs, taken,
                    returned, overlap>>
    BY <1>2 DEF AppReleases, Goto, hif, tasks, chip, failures, history
  <2>2. \A u \in Tasks : pc'[u] = pc[u] \/ pc'[u] \notin SendPCs
    BY <1>2 DEF AppReleases, Goto, Base, HifTypeOK, Mutex, SendPCs
  <2>. QED
    BY <2>1, <2>2, PacketsKept
<1>3. CASE ChipPosts
  <2>1. UNCHANGED <<sending, dma_addr, request, buffer, mem, given, sends, allocs, taken,
                    returned, overlap, pc>>
    BY <1>3 DEF ChipPosts, hif, tasks, chip, failures, history
  <2>. QED
    BY <2>1, PacketsKept
<1>4. CASE ChipAllocates
  <2>1. /\ UNCHANGED <<sending, dma_addr, mem, given, sends, taken, returned, pc, overlap>>
        /\ \/ allocs' = allocs + 1 /\ buffer' = allocs + 1 /\ allocs < MaxSends
           \/ allocs' = allocs /\ buffer' = 0
    BY <1>4 DEF ChipAllocates, tasks, history
  <2>. SUFFICES ASSUME ~overlap
                PROVE  Delivered'
    BY <2>1 DEF Packets
  <2>2. Delivered /\ allocs \in 0 .. MaxSends /\ MaxSends \in Nat
    BY HifAssumption DEF Packets, Base, HifTypeOK
  <2>3. Buffers' /\ \A p \in returned' : Sent(p)'
    BY <2>1, <2>2 DEF Delivered, Buffers, Sent
  <2>4. buffer' # 0 => mem[buffer'] = 0 /\ buffer' \notin given
    BY <2>1, <2>2 DEF Delivered, Buffers
  <2>5. ASSUME NEW t \in Tasks
        PROVE  Sending(t)'
    <3>1. Sending(t) /\ (Unsent(sending[t])' <=> Unsent(sending[t]))
          /\ (Sent(sending[t])' <=> Sent(sending[t]))
      BY <2>1, <2>2 DEF Delivered, Unsent, Sent
    <3>. QED
      BY <2>1, <2>2, <2>4, <3>1 DEF Sending
  <2>. QED
    BY <2>3, <2>5 DEF Delivered
<1>5. CASE ChipTakes
  <2>1. PICK a \in given : given' = given \ {a} /\ taken' = Append(taken, mem[a])
    BY <1>5 DEF ChipTakes
  <2>2. UNCHANGED <<sending, dma_addr, request, buffer, mem, sends, allocs, returned, pc, overlap>>
    BY <1>5 DEF ChipTakes, tasks
  <2>. SUFFICES ASSUME ~overlap
                PROVE  Delivered'
    BY <2>2 DEF Packets
  <2>3. Delivered /\ taken \in Seq(Nat) /\ mem[a] \in Nat /\ a \in 1 .. MaxSends
    BY DEF Packets, Base, HifTypeOK
  <2>4. /\ Len(taken') = Len(taken) + 1 /\ Len(taken) \in Nat
        /\ \A i \in 1 .. Len(taken) : taken'[i] = taken[i]
        /\ taken'[Len(taken) + 1] = mem[a]
    BY <2>1, <2>3, Appended
  <2>5. \A i \in 1 .. Len(taken') : i \in 1 .. Len(taken) \/ i = Len(taken) + 1
    BY <2>4
  <2>6. /\ mem[a] <= sends /\ mem[a] # 0 /\ given \subseteq 1 .. MaxSends
        /\ \A i \in 1 .. Len(taken) : taken[i] # mem[a]
        /\ \A b \in 1 .. MaxSends : mem[b] = mem[a] => b = a
    BY <2>3 DEF Delivered, Buffers, Base, HifTypeOK
  <2>7. ASSUME NEW p, Sent(p)
        PROVE  Sent(p)'
    <3>1. CASE \E i \in 1 .. Len(taken) : taken[i] = p
      BY <3>1, <2>4 DEF Sent
    <3>2. CASE \E b \in given : mem[b] = p
      BY <3>2, <2>1, <2>2, <2>4 DEF Sent
    <3>. QED
      BY <2>7, <3>1, <3>2 DEF Sent
  <2>8. Buffers'
    <3>1. /\ \A b \in 1 .. MaxSends :
                mem'[b] <= sends' /\ (b > allocs' => mem'[b] = 0 /\ b \notin given')
          /\ \A b, c \in 1 .. MaxSends : mem'[b] = mem'[c] /\ mem'[b] # 0 => b = c
      BY <2>1, <2>2, <2>3 DEF Delivered, Buffers
    <3>2. \A i \in 1 .. Len(taken') : taken'[i] <= sends'
      BY <2>2, <2>3, <2>4, <2>5, <2>6 DEF Delivered, Buffers
    <3>3. \A b \in given' : mem'[b] # 0 /\ \A i \in 1 .. Len(taken') : taken'[i] # mem'[b]
      BY <2>1, <2>2, <2>3, <2>4, <2>5, <2>6 DEF Delivered, Buffers
    <3>4. \A i, j \in 1 .. Len(taken') : taken'[i] = taken'[j] => i = j
      BY <2>3, <2>4, <2>5, <2>6 DEF Delivered, Buffers
    <3>. QED
      BY <3>1, <3>2, <3>3, <3>4 DEF Buffers
  <2>9. ASSUME NEW t \in Tasks
        PROVE  Sending(t)'
    <3>1. Sending(t) /\ dma_addr[t] \in Nat /\ allocs \in 0 .. MaxSends /\ MaxSends \in Nat
      BY <2>3, HifAssumption DEF Delivered, Base, HifTypeOK
    <3>2. Unsent(sending[t]) => Unsent(sending[t])'
      BY <2>2, <2>3, <2>4, <2>5 DEF Unsent
    <3>3. Sent(sending[t]) => Sent(sending[t])'
      BY <2>2, <2>7 DEF Sent
    <3>4. pc[t] = "s_give" => \A i \in 1 .. Len(taken') : taken'[i] # sending[t]
      BY <2>1, <2>4, <2>5, <2>6, <3>1 DEF Sending
    <3>. QED
      BY <2>1, <2>2, <3>1, <3>2, <3>3, <3>4 DEF Sending
  <2>10. \A p \in returned' : Sent(p)'
    BY <2>2, <2>3, <2>7 DEF Delivered
  <2>. QED
    BY <2>8, <2>9, <2>10 DEF Delivered
<1>. QED
  BY <1>1, <1>2, <1>3, <1>4, <1>5 DEF ChipStep

-----------------------------------------------------------------------------
(* The specification *)

\* HifInv holds in the initial state.
LEMMA HifInit == Init => HifInv
<1>. SUFFICES ASSUME Init
              PROVE  HifInv
  OBVIOUS
<1>1. HifTypeOK
  BY HifAssumption DEF Init, HifTypeOK, Tasks, Nobody, IsrPCs, SendPCs
<1>2. Mutex
  BY DEF Init, Mutex, Tasks, Nobody, IsrPCs, SendPCs
<1>3. Interrupts
  BY DEF Init, Interrupts, Counted, Latched, Looking, NoLostInterrupt, Tasks
<1>4. Messages
  BY DEF Init, Messages, AtMessage, Undone, InOrder, Tasks, SendPCs
<1>5. Sleep
  BY DEF Init, Sleep, Awake, Uses, UsesIsr, UsesSend, Tasks, IsrPCs, SendPCs
<1>6. Packets
  <2>1. \A t \in Tasks : Sending(t)
    BY DEF Init, Sending, Tasks, SendPCs
  <2>2. Buffers
    BY HifAssumption DEF Init, Buffers
  <2>. QED
    BY <2>1, <2>2 DEF Init, Packets, Delivered
<1>. QED
  BY <1>1, <1>2, <1>3, <1>4, <1>5, <1>6 DEF HifInv, Base

\* Every step of the tasks, the interrupt and the chip keeps HifInv.
LEMMA HifNext == HifInv /\ [Next]_vars => HifInv'
<1>. SUFFICES ASSUME HifInv, [Next]_vars
              PROVE  HifInv'
  OBVIOUS
<1>. USE DEF HifInv, Base
<1>1. CASE Isr \/ Events \/ LoopLoads \/ LoopStores \/ LoopEnds \/ IsrStep
           \/ IsrFails \/ RxDoneFails
  BY <1>1, HifTypeOKWifi, MutexWifi, InterruptsWifi, MessagesWifi, SleepWifi, PacketsWifi
<1>2. CASE \E t \in Tasks : SendStep(t) \/ SendFails(t)
  BY <1>2, HifTypeOKSend, MutexSend, InterruptsSend, MessagesSend, SleepSend, PacketsSend
<1>3. CASE AppSends \/ AppReleases \/ ChipStep
  BY <1>3, HifTypeOKRest, MutexRest, InterruptsRest, MessagesRest, SleepRest, PacketsRest
<1>4. CASE UNCHANGED vars
  <2>1. UNCHANGED <<hif, tasks, pin, chip, failures, history>>
    BY <1>4 DEF vars
  <2>. USE <2>1 DEF hif, tasks, pin, chip, failures, history
  <2>2. HifTypeOK' /\ Mutex'
    BY DEF HifTypeOK, Mutex
  <2>3. Interrupts' /\ Messages'
    BY DEF Interrupts, Counted, Latched, NoLostInterrupt, Messages, AtMessage, Undone,
       InOrder
  <2>4. Sleep'
    BY DEF Sleep, Awake, Uses, UsesIsr, UsesSend
  <2>5. Packets'
    BY PacketsKept
  <2>. QED
    BY <2>2, <2>3, <2>4, <2>5
<1>. QED
  BY <1>1, <1>2, <1>3, <1>4 DEF Next, WifiStep, AppStep, Failure, Tasks

\* The inductive invariant of the host interface.
LEMMA HifInvariant == Spec => []HifInv
  BY HifInit, HifNext, PTL DEF Spec

\* No interrupt of the WINC1500 is lost between the pin, isr and the loop of
\* hif_handle_isr, whatever fails, before the 255th failure: a message that waits
\* is latched, counted or about to be looked for.
THEOREM HifNoLostInterrupt == Spec => []NoLostInterrupt
<1>1. HifInv => NoLostInterrupt
  BY DEF HifInv, Interrupts, NoLostInterrupt
<1>. QED
  BY <1>1, HifInvariant, PTL

\* hif_isr hands the messages on in the order they were posted, each at most
\* once, however many accesses fail and whatever the callbacks send.
THEOREM HifInOrder == Spec => []InOrder
<1>1. HifInv => InOrder
  BY DEF HifInv, Messages
<1>. QED
  BY <1>1, HifInvariant, PTL

\* hif_chip_wake and hif_chip_sleep keep the chip awake while anybody uses it,
\* callbacks that send included, until calls that failed have left so many uses
\* that gu8ChipSleep wraps.
THEOREM HifAwakeWhenUsed == Spec => []AwakeWhenUsed
<1>1. HifInv => AwakeWhenUsed
  <2>. SUFFICES ASSUME HifInv, ~overlap, leaked < 254, NEW t \in Tasks,
                       pc[t] \in {"ctrl0", "clear", "header", "receive", "rx_done", "rx_late",
                                 "callback", "s_ask", "s_wait", "s_write", "s_give"}
                PROVE  awake
    BY DEF AwakeWhenUsed
  <2>1. Uses(t) >= 1 /\ Uses("wifi") \in 0 .. 2 /\ Uses("app") \in 0 .. 2
    BY DEF Uses, UsesIsr, UsesSend, IsrPCs, SendPCs
  <2>2. Awake /\ leaked \in Nat
    BY DEF HifInv, Sleep, Base, HifTypeOK
  <2>3. gu8ChipSleep > 0
    BY <2>1, <2>2 DEF Awake, Tasks
  <2>. QED
    BY <2>2, <2>3 DEF Awake
<1>. QED
  BY <1>1, HifInvariant, PTL

\* hif_send returns zero only for a packet that the chip has got or whose
\* buffer it has, and no packet is taken twice, as long as two tasks are never in
\* hif_send at once.
THEOREM HifSentIsSent == Spec => []SentIsSent
<1>1. HifInv => SentIsSent
  <2>. SUFFICES ASSUME HifInv, ~overlap
                PROVE  /\ \A p \in returned : p \in ToSet(taken) \cup {mem[a] : a \in given}
                       /\ IsInjective(taken)
    BY DEF SentIsSent
  <2>1. Delivered /\ taken \in Seq(Nat)
    BY DEF HifInv, Packets, Base, HifTypeOK
  <2>2. DOMAIN taken = 1 .. Len(taken)
    BY <2>1
  <2>. QED
    BY <2>1, <2>2 DEF Delivered, Buffers, Sent, ToSet, IsInjective
<1>. QED
  BY <1>1, HifInvariant, PTL
=============================================================================
