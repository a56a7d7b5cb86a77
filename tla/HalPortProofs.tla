---------------------------- MODULE HalPortProofs ----------------------------
(***************************************************************************)
(* What two drivers of the HAL promise.  hal_gpio.c: a pin keeps its       *)
(* handler and no edge is lost, for every set of pins, tasks and triggers  *)
(* and every number of calls.  hal_spi.c: the driver is free when the HAL  *)
(* is, buffers are not overrun, and a transfer receives its own            *)
(* characters, for every length and number of transfers.                   *)
(***************************************************************************)
EXTENDS HalGpio, HalSpi, WellFoundedInduction, TLAPS

-----------------------------------------------------------------------------
(* GPIO: the channels *)

\* hal_gpio_pin_exti_tbl has an entry for every pin.
LEMMA TableType == \A i \in 1 .. 64 : hal_gpio_pin_exti_tbl[i] \in Int
  BY DEF hal_gpio_pin_exti_tbl

\* The channel of a usable pin is a number; the pin is not NONE.
LEMMA ChanType ==
    ASSUME NEW p \in Usable
    PROVE  Chan(p) \in Nat /\ Chan(p) \in Chans /\ p \in Pins /\ p # NONE
<1>1. p \in 0 .. 63 /\ p + 1 \in 1 .. 64 /\ Chan(p) >= 0
  BY GpioAssumption DEF Usable
<1>2. Chan(p) \in Int
  BY <1>1, TableType DEF Chan, hal_gpio_irq_eic
<1>3. QED
  BY <1>1, <1>2 DEF NONE, Chans, Usable

\* Of the channels that have detected something there is a lowest.
LEMMA LeastChan ==
    ASSUME NEW T, T \subseteq Chans, T # {}
    PROVE  \E c \in T : \A d \in T : c <= d
<1> DEFINE R == {ss \in Nat \X Nat : ss[1] < ss[2]}
<1>1. T \subseteq Nat
  BY ChanType DEF Chans
<1>2. OpToRel(<, Nat) = R
  BY Zenon DEF OpToRel
<1>3. IsWellFoundedOn(R, Nat)
  BY <1>2, NatLessThanWellFounded, Zenon
<1>4. \A c, d \in Nat : <<d, c>> \in R <=> d < c
  OBVIOUS
<1> HIDE DEF R
<1>5. PICK c \in T : \A d \in T : ~(<<d, c>> \in R)
  BY <1>1, <1>3, WFMin
<1>6. ASSUME NEW d \in T PROVE c <= d
  <2>1. c \in Nat /\ d \in Nat /\ ~(<<d, c>> \in R)
    BY <1>1, <1>5
  <2>2. ~(d < c)
    BY <2>1, <1>4, Zenon
  <2>3. QED
    BY <2>1, <2>2
<1>7. QED
  BY <1>6

-----------------------------------------------------------------------------
(* Types, and the places a task and the interrupt can be at *)

Places == {"idle", "func", "arg", "mux", "cfg", "release"}
Senses == Trigs \cup {"none"}

TaskType == [at : Places, pin : Usable \cup {NONE}, trig : Senses, cfg : {<<>>} \cup [Chans -> Senses]]

\* A channel's handler is that of a pin of the channel.
TypeOK ==
    /\ func \in [Chans -> Usable \cup {NONE}] /\ arg \in [Chans -> Usable \cup {NONE}]
    /\ \A c \in Chans : func[c] # NONE => Chan(func[c]) = c
    /\ sense \in [Chans -> Senses] /\ inten \subseteq Chans /\ intflag \subseteq Chans
    /\ held \in [Pins -> Senses]
    /\ tp \in [Tasks -> TaskType]
    /\ \A t \in Tasks :
        /\ tp[t].at # "idle" => tp[t].pin \in Usable
        /\ tp[t].at \in {"func", "arg", "mux", "cfg"} => tp[t].trig # "none"
        /\ tp[t].at = "cfg" => tp[t].cfg \in [Chans -> Senses]
    /\ isr \in [at : {"off", "loop", "clear", "call", "handler"}, ch : Int]
    /\ isr.at \in {"clear", "call", "handler"} => isr.ch \in Chans


LEMMA TypeInit == Init => TypeOK
  BY DEF Init, TypeOK, TaskType, Places, Senses, Idle, Off, NONE

\* The steps of hal_gpio_irq_init and hal_gpio_irq_release.
LEMMA TypeTask ==
    ASSUME TypeOK, NEW t \in Tasks, Step(t), UNCHANGED isr
    PROVE  TypeOK'
<1> USE ChanType DEF TypeOK
<1>0. tp[t] \in TaskType
  OBVIOUS
<1>1. CASE SetFunc(t)
  BY <1>0, <1>1 DEF SetFunc, Go, TaskType, Places, eic
<1>2. CASE SetArg(t)
  BY <1>0, <1>2 DEF SetArg, Go, TaskType, Places, eic, hist
<1>3. CASE SetMux(t)
  BY <1>0, <1>3 DEF SetMux, TaskType, Places, eic, hist
<1>4. CASE SetConfig(t)
  BY <1>0, <1>4 DEF SetConfig, TaskType, Places, Senses, Idle, NONE
<1>5. CASE ClearFunc(t)
  BY <1>0, <1>5 DEF ClearFunc, Released, TaskType, Places, Senses, Idle, NONE, eic
<1>6. QED
  BY <1>1, <1>2, <1>3, <1>4, <1>5 DEF Step

\* The calls.
LEMMA TypeCall ==
    ASSUME TypeOK, NEW t \in Tasks, NEW p \in Pins, Call(t, p), UNCHANGED isr
    PROVE  TypeOK'
<1> USE ChanType DEF TypeOK
<1>0. tp[t] \in TaskType /\ (Chan(p) >= 0 => p \in Usable)
  BY DEF Usable
<1>1. ASSUME NEW trig \in Trigs, hal_gpio_irq_init(t, p, trig) PROVE TypeOK'
  <2> DEFINE new == [at |-> "func", pin |-> p, trig |-> trig, cfg |-> <<>>]
  <2>1. UNCHANGED <<func, arg, sense, inten, intflag, held>>
    BY <1>1 DEF hal_gpio_irq_init, eic, hist
  <2>2. CASE UNCHANGED tp
    BY <2>1, <2>2
  <2>3. CASE Chan(p) >= 0 /\ tp' = [tp EXCEPT ![t] = new]
    <3>1. new \in TaskType /\ new.pin \in Usable /\ new.trig # "none" /\ new.at = "func"
      BY <1>0, <2>3, GpioAssumption DEF TaskType, Places, Senses
    <3> HIDE DEF new
    <3>2. QED
      BY <2>1, <2>3, <3>1
  <2>4. QED
    BY <1>1, <2>2, <2>3 DEF hal_gpio_irq_init
<1>2. CASE hal_gpio_irq_enable(t, p) \/ hal_gpio_irq_disable(t, p)
  BY <1>0, <1>2 DEF hal_gpio_irq_enable, hal_gpio_irq_disable, hist
<1>3. CASE hal_gpio_irq_release(t, p)
  BY <1>0, <1>3 DEF hal_gpio_irq_release, TaskType, Places, hist
<1>4. CASE hal_gpio_init(t, p)
  BY <1>0, <1>4 DEF hal_gpio_init, Senses, eic
<1>5. QED
  BY <1>1, <1>2, <1>3, <1>4 DEF Call

\* The channel hal_gpio_irq goes on to has detected something.
LEMMA NextChan ==
    ASSUME TypeOK, IrqNext
    PROVE  isr' = Off \/ \E c \in intflag : isr' = [at |-> "clear", ch |-> c]
<1> DEFINE found == {c \in intflag : c >= isr.ch}
           low == CHOOSE c \in found : \A d \in found : c <= d
<1>1. CASE found = {}
  BY <1>1 DEF IrqNext
<1>2. CASE found # {}
  <2>1. low \in found
    BY <1>2, LeastChan, \E c \in found : \A d \in found : c <= d DEF TypeOK
  <2>2. QED
    BY <1>2, <2>1 DEF IrqNext
<1>3. QED
  BY <1>1, <1>2

\* The interrupt.
LEMMA TypeIrq ==
    ASSUME TypeOK, hal_gpio_irq
    PROVE  TypeOK'
<1> USE ChanType DEF TypeOK
<1>1. CASE IrqEnters
  BY <1>1 DEF IrqEnters, eic, hist
<1>2. CASE IrqNext
  <2>1. CASE isr' = Off
    BY <1>2, <2>1 DEF IrqNext, eic, hist, Off
  <2>2. ASSUME NEW c \in intflag, isr' = [at |-> "clear", ch |-> c] PROVE TypeOK'
    <3>1. c \in Chans /\ c \in Int
      BY DEF Chans
    <3>2. UNCHANGED <<func, arg, sense, inten, intflag, tp, held>>
      BY <1>2 DEF IrqNext, eic, hist
    <3>3. QED
      BY <2>2, <3>1, <3>2
  <2>3. QED
    BY <1>2, <2>1, <2>2, NextChan
<1>3. CASE IrqClears
  BY <1>3 DEF IrqClears, hist
<1>4. CASE IrqCalls
  BY <1>4 DEF IrqCalls, eic, hist
<1>5. CASE IrqReturns
  BY <1>5 DEF IrqReturns, Released, hist, Senses
<1>6. QED
  BY <1>1, <1>2, <1>3, <1>4, <1>5 DEF hal_gpio_irq

LEMMA TypeStep == TypeOK /\ [Next]_vars => TypeOK'
<1> SUFFICES ASSUME TypeOK, [Next]_vars PROVE TypeOK'
  OBVIOUS
<1>1. ASSUME NEW p \in Pins, Detected(p) PROVE TypeOK'
  BY <1>1, ChanType DEF Detected, TypeOK, hist
<1>2. CASE UNCHANGED vars
  BY <1>2 DEF vars, TypeOK
<1>3. QED
  BY <1>1, <1>2, TypeTask, TypeCall, TypeIrq DEF Next, TaskRuns

-----------------------------------------------------------------------------
(* Handlers *)

\* A task has set func in hal_gpio_irq_init, and the call has not returned.
InInit(t) == tp[t].at \in {"arg", "mux", "cfg"}
At(t) == Chan(tp[t].pin)

\* Unless two callers have been at the channel, such a task is alone with it
\* and finds everything it has set.
Alone ==
    \A t \in Tasks : InInit(t) /\ At(t) \notin spoilt =>
        /\ func[At(t)] = tp[t].pin /\ held[tp[t].pin] = "none"
        /\ tp[t].at \in {"mux", "cfg"} => arg[At(t)] = tp[t].pin
        /\ tp[t].at = "cfg" => tp[t].pin \in mux
        /\ \A u \in Tasks \ {t} : InInit(u) => At(u) # At(t)

\* The first part of HeldUntilReleased.
Kept ==
    \A p \in Usable : held[p] # "none" /\ Chan(p) \notin spoilt =>
        func[Chan(p)] = p /\ arg[Chan(p)] = p /\ sense[Chan(p)] = held[p] /\ p \in mux

\* A channel that detects anything has its handler and the handler's argument,
\* until it is released for the first time: CONFIG is written last.
ArgSet ==
    \A c \in Chans \ (spoilt \cup reused) : sense[c] # "none" => func[c] # NONE /\ arg[c] = func[c]

\* The channel is being served.
Served(c) == isr.at \in {"clear", "call", "handler"} /\ isr.ch = c

\* A flag is that of a channel that detects something.
Sensed == \A c \in Chans \ spoilt : c \in intflag \/ Served(c) => sense[c] # "none"

Inv == TypeOK /\ Alone /\ Kept /\ ArgSet /\ Sensed

LEMMA InvInit == Init => Inv
<1> SUFFICES ASSUME Init PROVE Inv
  OBVIOUS
<1>1. TypeOK
  BY TypeInit
<1>2. Alone /\ Kept /\ ArgSet /\ Sensed
  BY ChanType DEF Init, Alone, InInit, Kept, Usable, ArgSet, Sensed, Served, Idle, Off
<1>3. QED
  BY <1>1, <1>2 DEF Inv

\* What a task's step needs to know of the task.
LEMMA TaskFacts ==
    ASSUME TypeOK, NEW t \in Tasks, tp[t].at # "idle"
    PROVE  /\ tp[t] \in TaskType /\ tp[t].pin \in Usable /\ tp[t].pin \in Pins /\ tp[t].pin # NONE
           /\ At(t) = Chan(tp[t].pin) /\ At(t) \in Chans
  BY ChanType DEF TypeOK, At

\* A channel without a handler is nobody's.
LEMMA Nobodys ==
    ASSUME Inv, NEW c \in Chans, c \notin spoilt, func[c] = NONE
    PROVE  /\ \A t \in Tasks : InInit(t) => At(t) # c
           /\ \A p \in Usable : Chan(p) = c => held[p] = "none"
           /\ c \notin reused => sense[c] = "none"
<1>1. ASSUME NEW t \in Tasks, InInit(t), At(t) = c PROVE FALSE
  BY <1>1, TaskFacts DEF Inv, Alone, InInit
<1>2. ASSUME NEW p \in Usable, Chan(p) = c, held[p] # "none" PROVE FALSE
  BY <1>2, ChanType DEF Inv, Kept
<1>3. QED
  BY <1>1, <1>2 DEF Inv, ArgSet

\* SetFunc: a channel that is not spoilt had no handler.
LEMMA SetFuncStep ==
    ASSUME Inv, NEW t \in Tasks, SetFunc(t), UNCHANGED isr
    PROVE  Alone' /\ Kept' /\ ArgSet' /\ Sensed'
<1> DEFINE c == At(t)
<1>1. /\ tp[t] \in TaskType /\ tp[t].pin \in Usable /\ c \in Chans /\ tp[t].at = "func"
      /\ c = Chan(tp[t].pin) /\ tp[t].pin # NONE
  BY TaskFacts DEF SetFunc, Inv
<1>2. /\ tp' = [tp EXCEPT ![t].at = "arg"] /\ func' = [func EXCEPT ![c] = tp[t].pin]
      /\ UNCHANGED <<arg, sense, intflag, mux, held, reused>>
      /\ spoilt \subseteq spoilt' /\ (c \notin spoilt' => func[c] = NONE /\ c \notin spoilt)
  BY DEF SetFunc, Go, eic, At
<1>3. c \notin spoilt' =>
        /\ \A u \in Tasks : InInit(u) => At(u) # c
        /\ \A p \in Usable : Chan(p) = c => held[p] = "none"
        /\ c \notin reused => sense[c] = "none"
  BY <1>1, <1>2, Nobodys
<1>4. \A u \in Tasks : At(u)' = At(u) /\ tp'[u].pin = tp[u].pin /\ (u # t => tp'[u] = tp[u])
  BY <1>1, <1>2 DEF At, TypeOK, Inv, TaskType
<1>5. tp'[t].at = "arg"
  BY <1>1, <1>2 DEF TypeOK, Inv, TaskType
<1> HIDE DEF c
<1>6. ASSUME NEW u \in Tasks, InInit(u)', At(u) \notin spoilt'
      PROVE  /\ func'[At(u)] = tp[u].pin /\ held'[tp[u].pin] = "none"
             /\ tp'[u].at \in {"mux", "cfg"} => arg'[At(u)] = tp[u].pin
             /\ tp'[u].at = "cfg" => tp[u].pin \in mux'
             /\ \A v \in Tasks \ {u} : InInit(v)' => At(v) # At(u)
  <2>1. CASE u = t
    <3>1. ASSUME NEW v \in Tasks \ {t}, InInit(v)' PROVE At(v) # At(t)
      BY <3>1, <2>1, <1>3, <1>4, <1>6 DEF InInit, c
    <3>2. QED
      BY <2>1, <3>1, <1>1, <1>2, <1>3, <1>5, <1>6 DEF Inv, TypeOK, c
  <2>2. CASE u # t
    <3>1. InInit(u) /\ At(u) \notin spoilt /\ (At(u) = c => FALSE)
      BY <2>2, <1>2, <1>3, <1>4, <1>6 DEF InInit
    <3>2. ASSUME NEW v \in Tasks \ {u}, InInit(v)' PROVE At(v) # At(u)
      BY <3>1, <3>2, <1>4 DEF InInit, Inv, Alone, c
    <3>3. At(u) \in Chans
      BY <3>1, TaskFacts DEF InInit, Inv
    <3>4. QED
      BY <2>2, <3>1, <3>2, <3>3, <1>2, <1>4 DEF Inv, Alone, TypeOK
  <2>3. QED
    BY <2>1, <2>2
<1>7. Alone'
  BY <1>4, <1>6 DEF Alone
<1>8. Kept'
  BY <1>1, <1>2, <1>3, ChanType DEF Kept, Inv, TypeOK
<1>9. ArgSet'
  BY <1>1, <1>2, <1>3 DEF ArgSet, Inv, TypeOK
<1>10. Sensed'
  BY <1>2 DEF Sensed, Served, Inv
<1>11. QED
  BY <1>7, <1>8, <1>9, <1>10

\* A step of hal_gpio_irq_init leaves the task's pin and the other tasks.
LEMMA SamePins ==
    ASSUME TypeOK, NEW t \in Tasks, NEW at, NEW cfg,
           tp' = [tp EXCEPT ![t].at = at] \/ tp' = [tp EXCEPT ![t].at = at, ![t].cfg = cfg]
    PROVE  /\ \A u \in Tasks : At(u)' = At(u) /\ tp'[u].pin = tp[u].pin /\ (u # t => tp'[u] = tp[u])
           /\ tp'[t].at = at
  BY DEF At, TypeOK, TaskType

\* SetArg: the argument is that of the handler.
LEMMA SetArgStep ==
    ASSUME Inv, NEW t \in Tasks, SetArg(t), UNCHANGED isr
    PROVE  Alone' /\ Kept' /\ ArgSet' /\ Sensed'
<1> DEFINE c == At(t)
<1>1. /\ tp[t].pin \in Usable /\ c \in Chans /\ tp[t].at = "arg" /\ c = Chan(tp[t].pin) /\ TypeOK
  BY TaskFacts DEF SetArg, Inv
<1>2. /\ tp' = [tp EXCEPT ![t].at = "mux"] /\ arg' = [arg EXCEPT ![c] = tp[t].pin]
      /\ UNCHANGED <<func, sense, intflag, mux, held, reused, spoilt>>
  BY DEF SetArg, Go, eic, At, hist
<1>3. /\ \A u \in Tasks : At(u)' = At(u) /\ tp'[u].pin = tp[u].pin /\ (u # t => tp'[u] = tp[u])
      /\ tp'[t].at = "mux"
  BY <1>1, <1>2, SamePins
<1>4. InInit(t) /\ \A u \in Tasks : InInit(u)' <=> InInit(u)
  BY <1>1, <1>3 DEF InInit
<1> HIDE DEF c
<1>5. Alone'
  <2> SUFFICES ASSUME NEW u \in Tasks, InInit(u)', At(u) \notin spoilt'
               PROVE  /\ func'[At(u)] = tp[u].pin /\ held'[tp[u].pin] = "none"
                      /\ tp'[u].at \in {"mux", "cfg"} => arg'[At(u)] = tp[u].pin
                      /\ tp'[u].at = "cfg" => tp[u].pin \in mux'
                      /\ \A v \in Tasks \ {u} : InInit(v)' => At(v) # At(u)
    BY <1>3 DEF Alone
  <2>1. InInit(u) /\ At(u) \notin spoilt /\ (u # t => At(u) # c) /\ (u = t => At(u) = c)
    BY <1>2, <1>4 DEF Inv, Alone, c
  <2>2. QED
    BY <2>1, <1>1, <1>2, <1>3, <1>4 DEF Inv, Alone, TypeOK
<1>6. Kept'
  BY <1>1, <1>2, <1>4, ChanType DEF Kept, Inv, Alone, TypeOK, c
<1>7. ArgSet'
  BY <1>1, <1>2, <1>4 DEF ArgSet, Inv, Alone, TypeOK, c
<1>8. Sensed'
  BY <1>2 DEF Sensed, Served, Inv
<1>9. QED
  BY <1>5, <1>6, <1>7, <1>8

\* SetMux switches the pin to the EIC.
LEMMA SetMuxStep ==
    ASSUME Inv, NEW t \in Tasks, SetMux(t), UNCHANGED isr
    PROVE  Alone' /\ Kept' /\ ArgSet' /\ Sensed'
<1>1. TypeOK /\ tp[t].at = "mux"
  BY DEF SetMux, Inv
<1>2. /\ tp' = [tp EXCEPT ![t].at = "cfg", ![t].cfg = sense] /\ mux' = mux \cup {tp[t].pin}
      /\ UNCHANGED <<func, arg, sense, intflag, held, reused, spoilt>>
  BY DEF SetMux, eic, hist
<1>3. /\ \A u \in Tasks : At(u)' = At(u) /\ tp'[u].pin = tp[u].pin /\ (u # t => tp'[u] = tp[u])
      /\ tp'[t].at = "cfg"
  BY <1>1, <1>2, SamePins
<1>4. InInit(t) /\ \A u \in Tasks : InInit(u)' <=> InInit(u)
  BY <1>1, <1>3 DEF InInit
<1>5. Alone'
  <2> SUFFICES ASSUME NEW u \in Tasks, InInit(u)', At(u) \notin spoilt'
               PROVE  /\ func'[At(u)] = tp[u].pin /\ held'[tp[u].pin] = "none"
                      /\ tp'[u].at \in {"mux", "cfg"} => arg'[At(u)] = tp[u].pin
                      /\ tp'[u].at = "cfg" => tp[u].pin \in mux'
                      /\ \A v \in Tasks \ {u} : InInit(v)' => At(v) # At(u)
    BY <1>3 DEF Alone
  <2>1. InInit(u) /\ At(u) \notin spoilt
    BY <1>2, <1>4
  <2>2. QED
    BY <2>1, <1>1, <1>2, <1>3, <1>4 DEF Inv, Alone
<1>6. Kept' /\ ArgSet' /\ Sensed'
  BY <1>2 DEF Kept, ArgSet, Sensed, Served, Inv
<1>7. QED
  BY <1>5, <1>6

\* A task that ends its call leaves the others where they are.
LEMMA TaskEnds ==
    ASSUME Inv, NEW t \in Tasks, tp' = [tp EXCEPT ![t] = Idle]
    PROVE  \A u \in Tasks : InInit(u)' => u # t /\ InInit(u) /\ tp'[u] = tp[u] /\ At(u)' = At(u)
  BY DEF Inv, TypeOK, InInit, At, Idle

\* SetConfig: the task that returns hands its channel over to the pin.
LEMMA SetConfigStep ==
    ASSUME Inv, NEW t \in Tasks, SetConfig(t), UNCHANGED isr
    PROVE  Alone' /\ Kept' /\ ArgSet' /\ Sensed'
<1> DEFINE p == tp[t].pin
           c == At(t)
<1>1. /\ p \in Usable /\ p \in Pins /\ c \in Chans /\ tp[t].at = "cfg" /\ c = Chan(p) /\ InInit(t)
      /\ tp[t].trig # "none"
  BY TaskFacts DEF SetConfig, Inv, InInit, TypeOK
<1>2. /\ tp' = [tp EXCEPT ![t] = Idle] /\ held' = [held EXCEPT ![p] = tp[t].trig]
      /\ UNCHANGED <<func, arg, intflag, mux, reused>>
      /\ spoilt \subseteq spoilt'
  BY DEF SetConfig
<1>3. sense'[c] = tp[t].trig
  BY <1>1 DEF SetConfig, At
<1>4. ASSUME NEW d \in Chans, d # c, d \notin spoilt' PROVE sense'[d] = sense[d]
  BY <1>1, <1>4 DEF SetConfig, At
<1>5. \A u \in Tasks : InInit(u)' => u # t /\ InInit(u) /\ tp'[u] = tp[u] /\ At(u)' = At(u)
  BY <1>2, TaskEnds
<1> HIDE DEF c, p
<1>6. Alone'
  <2> SUFFICES ASSUME NEW u \in Tasks, InInit(u)', At(u) \notin spoilt'
               PROVE  /\ func'[At(u)] = tp[u].pin /\ held'[tp[u].pin] = "none"
                      /\ tp'[u].at \in {"mux", "cfg"} => arg'[At(u)] = tp[u].pin
                      /\ tp'[u].at = "cfg" => tp[u].pin \in mux'
                      /\ \A v \in Tasks \ {u} : InInit(v)' => At(v) # At(u)
    BY <1>5 DEF Alone
  <2>1. InInit(u) /\ u # t /\ At(u) \notin spoilt /\ tp'[u] = tp[u]
    BY <1>2, <1>5
  <2>2. At(u) # c
    BY <2>1, <1>1 DEF Inv, Alone, c
  <2>3. tp[u].pin # p
    BY <2>2 DEF c, p, At
  <2>4. QED
    BY <2>1, <2>3, <1>1, <1>2, <1>5 DEF Inv, Alone, TypeOK
<1>7. Kept'
  <2> SUFFICES ASSUME NEW q \in Usable, held'[q] # "none", Chan(q) \notin spoilt'
               PROVE  func'[Chan(q)] = q /\ arg'[Chan(q)] = q /\ sense'[Chan(q)] = held'[q] /\ q \in mux'
    BY DEF Kept
  <2>1. Chan(q) \in Chans /\ q \in Pins /\ Chan(q) \notin spoilt
    BY ChanType, <1>2
  <2>2. CASE q = p
    BY <2>1, <2>2, <1>1, <1>2, <1>3 DEF Inv, Alone, TypeOK, c, p
  <2>3. CASE q # p
    <3>1. held'[q] = held[q]
      BY <2>1, <2>3, <1>1, <1>2 DEF Inv, TypeOK
    <3>2. Chan(q) # c
      BY <2>1, <2>3, <3>1, <1>1 DEF Inv, Alone, Kept, c, p
    <3>3. QED
      BY <2>1, <3>1, <3>2, <1>2, <1>4 DEF Inv, Kept
  <2>4. QED
    BY <2>2, <2>3
<1>8. ArgSet'
  BY <1>1, <1>2, <1>4, ChanType DEF ArgSet, Inv, Alone, c, p
<1>9. Sensed'
  BY <1>1, <1>2, <1>3, <1>4 DEF Sensed, Served, Inv
<1>10. QED
  BY <1>6, <1>7, <1>8, <1>9

\* Released: a channel that is not spoilt had no owner, or the pin was it.
LEMMA ReleasedStep ==
    ASSUME Inv, NEW p \in Usable, Released(p), UNCHANGED <<arg, sense, intflag, mux>>,
           \A u \in Tasks : InInit(u)' => InInit(u) /\ tp'[u] = tp[u] /\ At(u)' = At(u),
           \A c \in Chans \ {Chan(p)} : Served(c)' => Served(c),
           Served(Chan(p))' => Served(Chan(p))
    PROVE  Alone' /\ Kept' /\ ArgSet' /\ Sensed'
<1> DEFINE c == Chan(p)
<1>1. c \in Chans /\ p \in Pins /\ p # NONE
  BY ChanType
<1>2. /\ func' = [func EXCEPT ![c] = NONE] /\ held' = [held EXCEPT ![p] = "none"]
      /\ reused' = reused \cup {c} /\ spoilt \subseteq spoilt'
      /\ c \notin spoilt' => c \notin spoilt /\ (func[c] = NONE \/ (func[c] = p /\ held[p] # "none"))
  BY DEF Released
<1>3. ASSUME c \notin spoilt', NEW u \in Tasks, InInit(u) PROVE At(u) # c
  <2>1. CASE func[c] = NONE
    BY <2>1, <1>1, <1>2, <1>3, Nobodys
  <2>2. CASE func[c] = p /\ held[p] # "none"
    BY <2>2, <1>2, <1>3 DEF Inv, Alone
  <2>3. QED
    BY <1>2, <1>3, <2>1, <2>2
<1>4. ASSUME c \notin spoilt', NEW q \in Usable, Chan(q) = c PROVE held'[q] = "none"
  <2>0. q \in Pins
    BY ChanType
  <2>1. CASE func[c] = NONE
    BY <2>0, <2>1, <1>1, <1>2, <1>4, Nobodys DEF Inv, TypeOK
  <2>2. CASE func[c] = p /\ held[p] # "none"
    BY <2>0, <2>2, <1>1, <1>2, <1>4 DEF Inv, Kept, TypeOK
  <2>3. QED
    BY <1>2, <1>4, <2>1, <2>2
<1> HIDE DEF c
<1>5. Alone'
  <2> SUFFICES ASSUME NEW u \in Tasks, InInit(u)', At(u) \notin spoilt'
               PROVE  /\ func'[At(u)] = tp[u].pin /\ held'[tp[u].pin] = "none"
                      /\ tp'[u].at \in {"mux", "cfg"} => arg'[At(u)] = tp[u].pin
                      /\ tp'[u].at = "cfg" => tp[u].pin \in mux'
                      /\ \A v \in Tasks \ {u} : InInit(v)' => At(v) # At(u)
    BY DEF Alone
  <2>1. InInit(u) /\ At(u) \notin spoilt /\ tp'[u] = tp[u] /\ At(u) \in Chans /\ tp[u].pin \in Pins
    BY <1>2, TaskFacts DEF InInit, Inv
  <2>2. At(u) # c
    BY <2>1, <1>3
  <2>3. QED
    BY <2>1, <2>2, <1>1, <1>2 DEF Inv, Alone, TypeOK
<1>6. Kept'
  <2> SUFFICES ASSUME NEW q \in Usable, held'[q] # "none", Chan(q) \notin spoilt'
               PROVE  func'[Chan(q)] = q /\ arg'[Chan(q)] = q /\ sense'[Chan(q)] = held'[q] /\ q \in mux'
    BY DEF Kept
  <2>1. Chan(q) # c /\ Chan(q) \notin spoilt /\ Chan(q) \in Chans /\ q \in Pins /\ q # p
    BY ChanType, <1>2, <1>4 DEF c
  <2>2. QED
    BY <2>1, <1>1, <1>2 DEF Inv, Kept, TypeOK
<1>7. ArgSet'
  BY <1>1, <1>2 DEF ArgSet, Inv, TypeOK
<1>8. Sensed'
  BY <1>1, <1>2 DEF Sensed, Inv, c
<1>9. QED
  BY <1>5, <1>6, <1>7, <1>8

\* The task's steps and its calls.
LEMMA InvTask ==
    ASSUME Inv, NEW t \in Tasks, Step(t), UNCHANGED isr
    PROVE  Alone' /\ Kept' /\ ArgSet' /\ Sensed'
<1>1. CASE ClearFunc(t)
  <2>1. tp[t].pin \in Usable
    BY <1>1, TaskFacts DEF ClearFunc, Inv
  <2>2. \A u \in Tasks : InInit(u)' => InInit(u) /\ tp'[u] = tp[u] /\ At(u)' = At(u)
    BY <1>1, TaskEnds DEF ClearFunc
  <2>3. \A c : Served(c)' <=> Served(c)
    BY DEF Served
  <2>4. Released(tp[t].pin) /\ UNCHANGED <<arg, sense, intflag, mux>>
    BY <1>1 DEF ClearFunc, eic
  <2>5. QED
    BY <2>1, <2>2, <2>3, <2>4, ReleasedStep
<1>2. QED
  BY <1>1, SetFuncStep, SetArgStep, SetMuxStep, SetConfigStep DEF Step

LEMMA InvCall ==
    ASSUME Inv, NEW t \in Tasks, NEW p \in Pins, Call(t, p), UNCHANGED isr
    PROVE  Alone' /\ Kept' /\ ArgSet' /\ Sensed'
<1>1. CASE UNCHANGED <<func, arg, sense, intflag, mux, held, spoilt, reused>>
           /\ \A u \in Tasks : InInit(u)' => InInit(u) /\ tp'[u] = tp[u] /\ At(u)' = At(u)
  BY <1>1 DEF Inv, Alone, Kept, ArgSet, Sensed, Served
<1>2. ASSUME NEW trig \in Trigs, hal_gpio_irq_init(t, p, trig)
      PROVE  Alone' /\ Kept' /\ ArgSet' /\ Sensed'
  <2>1. \A u \in Tasks : InInit(u)' => InInit(u) /\ tp'[u] = tp[u] /\ At(u)' = At(u)
    BY <1>2 DEF hal_gpio_irq_init, InInit, At, Inv, TypeOK
  <2>2. QED
    BY <1>1, <1>2, <2>1 DEF hal_gpio_irq_init, eic, hist
<1>3. CASE hal_gpio_irq_enable(t, p) \/ hal_gpio_irq_disable(t, p)
  BY <1>1, <1>3 DEF hal_gpio_irq_enable, hal_gpio_irq_disable, hist, InInit, At
<1>4. CASE hal_gpio_irq_release(t, p)
  <2>1. \A u \in Tasks : InInit(u)' => InInit(u) /\ tp'[u] = tp[u] /\ At(u)' = At(u)
    BY <1>4 DEF hal_gpio_irq_release, InInit, At, Inv, TypeOK, TaskType
  <2>2. QED
    BY <1>1, <1>4, <2>1 DEF hal_gpio_irq_release, hist
<1>5. CASE hal_gpio_init(t, p)
  <2>1. /\ mux' = mux \ {p} /\ held' = [held EXCEPT ![p] = "none"]
        /\ UNCHANGED <<func, arg, sense, intflag, tp, reused>>
        /\ spoilt \subseteq spoilt'
        /\ p \in Usable /\ func[Chan(p)] = p /\ held[p] = "none" => Chan(p) \in spoilt'
    BY <1>5 DEF hal_gpio_init, eic
  <2>2. Alone'
    <3> SUFFICES ASSUME NEW u \in Tasks, InInit(u), At(u) \notin spoilt'
                 PROVE  /\ held'[tp[u].pin] = "none" /\ func[At(u)] = tp[u].pin
                        /\ tp[u].at \in {"mux", "cfg"} => arg[At(u)] = tp[u].pin
                        /\ tp[u].at = "cfg" => tp[u].pin \in mux'
                        /\ \A v \in Tasks \ {u} : InInit(v) => At(v) # At(u)
      BY <2>1 DEF Alone, InInit, At
    <3>1. tp[u].pin \in Usable /\ tp[u].pin \in Pins /\ At(u) = Chan(tp[u].pin)
      BY TaskFacts DEF InInit, Inv
    <3>2. QED
      BY <2>1, <3>1 DEF Inv, Alone, TypeOK
  <2>3. Kept'
    BY <2>1, ChanType DEF Kept, Inv, TypeOK
  <2>4. ArgSet' /\ Sensed'
    BY <2>1 DEF ArgSet, Sensed, Served, Inv
  <2>5. QED
    BY <2>2, <2>3, <2>4
<1>6. QED
  BY <1>2, <1>3, <1>4, <1>5 DEF Call

\* A channel detects something only while it is set to.
LEMMA InvDetected ==
    ASSUME Inv, NEW p \in Pins, Detected(p)
    PROVE  Alone' /\ Kept' /\ ArgSet' /\ Sensed'
  BY DEF Detected, hist, Inv, Alone, Kept, ArgSet, Sensed, Served, InInit, At

\* The interrupt.
LEMMA InvIrq ==
    ASSUME Inv, hal_gpio_irq
    PROVE  Alone' /\ Kept' /\ ArgSet' /\ Sensed'
<1>1. CASE UNCHANGED <<func, arg, sense, mux, tp, held, spoilt, reused>> /\ intflag' \subseteq intflag
           /\ \A c \in Chans : Served(c)' => c \in intflag \/ Served(c)
  BY <1>1 DEF Inv, Alone, Kept, ArgSet, Sensed, InInit, At
<1>2. CASE IrqEnters
  BY <1>1, <1>2 DEF IrqEnters, eic, hist, Served
<1>3. CASE IrqNext
  <2>1. \A c \in Chans : Served(c)' => c \in intflag
    BY <1>3, NextChan DEF Served, Off, Inv
  <2>2. QED
    BY <1>1, <1>3, <2>1 DEF IrqNext, eic, hist
<1>4. CASE IrqClears
  BY <1>1, <1>4 DEF IrqClears, hist, Served, Inv, TypeOK
<1>5. CASE IrqCalls
  BY <1>1, <1>5 DEF IrqCalls, eic, hist, Served, Inv, TypeOK
<1>6. CASE IrqReturns
  <2>1. /\ UNCHANGED <<arg, sense, intflag, mux, tp>> /\ isr'.at = "loop"
        /\ isr.at = "handler" /\ isr.ch \in Chans
    BY <1>6 DEF IrqReturns, Inv, TypeOK
  <2>2. \A c : ~Served(c)'
    BY <2>1 DEF Served
  <2>3. CASE UNCHANGED <<func, hist>>
    BY <1>1, <2>1, <2>2, <2>3 DEF hist
  <2>4. CASE func[isr.ch] # NONE /\ Released(func[isr.ch])
    <3>1. func[isr.ch] \in Usable
      BY <2>1, <2>4 DEF Inv, TypeOK
    <3>2. \A u \in Tasks : InInit(u)' => InInit(u) /\ tp'[u] = tp[u] /\ At(u)' = At(u)
      BY <2>1 DEF InInit, At
    <3>3. QED
      BY <2>1, <2>2, <2>4, <3>1, <3>2, ReleasedStep
  <2>5. QED
    BY <1>6, <2>3, <2>4 DEF IrqReturns
<1>7. QED
  BY <1>2, <1>3, <1>4, <1>5, <1>6 DEF hal_gpio_irq

LEMMA InvStep == Inv /\ [Next]_vars => Inv'
<1> SUFFICES ASSUME Inv, [Next]_vars PROVE Inv'
  OBVIOUS
<1>1. TypeOK'
  BY TypeStep DEF Inv
<1>2. CASE UNCHANGED vars
  BY <1>2 DEF vars, Inv, TypeOK, Alone, Kept, ArgSet, Sensed, Served, InInit, At
<1>3. CASE Next
  <2>1. Alone' /\ Kept' /\ ArgSet' /\ Sensed'
    BY <1>3, InvTask, InvCall, InvDetected, InvIrq DEF Next, TaskRuns
  <2>2. QED
    BY <1>1, <2>1 DEF Inv
<1>4. QED
  BY <1>2, <1>3

\* A pin keeps what hal_gpio_irq_init has set for it, and its handler is called
\* with its own argument, except after the races HeldUntilReleased names.
THEOREM GpioHeldUntilReleased == Spec => []HeldUntilReleased
<1>1. Inv => HeldUntilReleased
  BY DEF Inv, TypeOK, Kept, ArgSet, Sensed, Served, HeldUntilReleased
<1>2. QED
  BY <1>1, InvInit, InvStep, PTL DEF Spec

-----------------------------------------------------------------------------
(* GPIO: edges *)

\* hal_gpio_irq clears the flag before it calls the handler.
LEMMA EdgeStep == TypeOK /\ NoLostEdge /\ [Next]_vars => NoLostEdge'
<1> SUFFICES ASSUME TypeOK, NoLostEdge, [Next]_vars PROVE NoLostEdge'
  OBVIOUS
<1> USE DEF NoLostEdge
<1>1. ASSUME NEW t \in Tasks, TaskRuns(t) PROVE NoLostEdge'
  <2>1. UNCHANGED <<intflag, due, isr>>
    <3>1. CASE Step(t)
      BY <1>1, <3>1 DEF TaskRuns, Step, SetFunc, SetArg, SetMux, SetConfig, ClearFunc, eic
    <3>2. ASSUME NEW p \in Pins, Call(t, p) PROVE UNCHANGED <<intflag, due, isr>>
      BY <1>1, <3>2 DEF TaskRuns, Call, hal_gpio_irq_init, hal_gpio_irq_enable,
                        hal_gpio_irq_disable, hal_gpio_irq_release, hal_gpio_init, eic
    <3>3. QED
      BY <1>1, <3>1, <3>2 DEF TaskRuns
  <2>2. QED
    BY <2>1
<1>2. ASSUME NEW p \in Pins, Detected(p) PROVE NoLostEdge'
  BY <1>2 DEF Detected
<1>3. CASE hal_gpio_irq
  <2>1. CASE IrqEnters
    BY <2>1 DEF IrqEnters, eic
  <2>2. CASE IrqNext
    BY <2>2 DEF IrqNext, eic
  <2>3. CASE IrqClears
    BY <2>3 DEF IrqClears, TypeOK
  <2>4. CASE IrqCalls
    BY <2>4 DEF IrqCalls, eic
  <2>5. CASE IrqReturns
    BY <2>5 DEF IrqReturns
  <2>6. QED
    BY <1>3, <2>1, <2>2, <2>3, <2>4, <2>5 DEF hal_gpio_irq
<1>4. CASE UNCHANGED vars
  BY <1>4 DEF vars
<1>5. QED
  BY <1>1, <1>2, <1>3, <1>4 DEF Next

\* No edge is forgotten between the flag and the handler, whichever channels
\* are enabled and whoever is setting them up.
THEOREM GpioNoLostEdge == Spec => []NoLostEdge
<1>1. Init => TypeOK /\ NoLostEdge
  BY TypeInit DEF Init, NoLostEdge
<1>2. TypeOK /\ NoLostEdge /\ [Next]_vars => (TypeOK /\ NoLostEdge)'
  BY TypeStep, EdgeStep
<1>3. QED
  BY <1>1, <1>2, PTL DEF Spec

-----------------------------------------------------------------------------
(* The SPI port: records and fields *)

\* The variables are records: each is the record of its own fields.
HalRec(h) == h = [master |-> h.master, xfer |-> h.xfer, cb |-> h.cb]
ModRec(m) == m = [receiver |-> m.receiver, status |-> m.status, tx |-> m.tx, rx |-> m.rx,
                  remTx |-> m.remTx, remRx |-> m.remRx, calls |-> m.calls, dummy |-> m.dummy]
BufRec(b) == b = [n |-> b.n, len |-> b.len, sent |-> b.sent, got |-> b.got]
HwRec(h) == h = [on |-> h.on, inten |-> h.inten, data |-> h.data, shift |-> h.shift,
                 fifo |-> h.fifo, txc |-> h.txc, ovf |-> h.ovf, sel |-> h.sel]
IrqRec(i) == i = [at |-> i.at, st |-> i.st, next |-> i.next]

Records == HalRec(hal) /\ ModRec(mod) /\ BufRec(buf) /\ HwRec(hw) /\ IrqRec(irq)

\* What each step does, field by field; txc and sel are left out: nothing below
\* depends on them.
LEMMA ExchangeFields ==
    ASSUME Records, Exchange
    PROVE  /\ Records' /\ UNCHANGED <<hal, mod, buf, irq, pc, seen>>
           /\ hw.on /\ (hal.master => hw.shift # <<>>)
           /\ wire' = Append(wire, IF hw.shift = <<>> THEN Dummy ELSE hw.shift[1])
           /\ hw'.on = hw.on /\ hw'.inten = hw.inten /\ hw'.shift = hw.data /\ hw'.data = <<>>
           /\ IF Len(hw.fifo) < 2 THEN hw'.fifo = Append(hw.fifo, Len(wire) + 1)
                                  ELSE hw'.fifo = hw.fifo
           /\ hw'.ovf <=> (hw.ovf \/ Len(hw.fifo) = 2)
<1>1. hw'.ovf = (hw.ovf \/ Len(hw.fifo) = 2)
  BY DEF Records, HwRec, Exchange
<1>2. hw'.ovf <=> (hw.ovf \/ Len(hw.fifo) = 2)
  BY <1>1, Zenon
<1>. QED
  BY <1>2 DEF Records, HalRec, ModRec, BufRec, HwRec, IrqRec, Exchange

LEMMA SelectFields ==
    ASSUME Records, Select
    PROVE  /\ Records' /\ UNCHANGED <<hal, mod, buf, irq, pc, wire, seen>>
           /\ ~hal.master
           /\ hw'.on = hw.on /\ hw'.inten = hw.inten /\ hw'.shift = hw.shift /\ hw'.data = hw.data
           /\ hw'.fifo = hw.fifo /\ hw'.ovf = hw.ovf
  BY DEF Records, HalRec, ModRec, BufRec, HwRec, IrqRec, Select

LEMMA EntersFields ==
    ASSUME Records, HandlerEnters
    PROVE  /\ Records' /\ UNCHANGED <<hal, mod, buf, hw, pc, wire, seen>>
           /\ irq.at = "none" /\ irq'.at = "dre" /\ irq'.next = "none"
           /\ hw.on /\ irq'.st = Flags \cap hw.inten /\ irq'.st # {}
  BY DEF Records, HalRec, ModRec, BufRec, HwRec, IrqRec, HandlerEnters

\* The flags that the handler can have read.
LEMMA FlagsAre ==
    ASSUME Records
    PROVE  /\ "DRE" \in Flags <=> hw.data = <<>>
           /\ "RXC" \in Flags <=> hw.fifo # <<>>
  BY DEF Flags, INTS

\* Writing DATA.
LEMMA LoadFields ==
    ASSUME NEW h, HwRec(h), NEW c
    PROVE  LET g == Load(h, c)
           IN  /\ HwRec(g) /\ g.on = h.on /\ g.inten = h.inten /\ g.fifo = h.fifo /\ g.ovf = h.ovf
               /\ h.shift = <<>> => g.shift = <<c>> /\ g.data = h.data
               /\ h.shift # <<>> => g.shift = h.shift /\ g.data = <<c>>
  BY DEF HwRec, Load

\* Disabling interrupts.
LEMMA WithoutFields ==
    ASSUME NEW h, HwRec(h), NEW fs
    PROVE  LET g == Without(h, fs)
           IN  /\ HwRec(g) /\ g.on = h.on /\ g.data = h.data /\ g.shift = h.shift
               /\ g.fifo = h.fifo /\ g.ovf = h.ovf
               /\ \A f : f \in g.inten <=> f \in h.inten /\ ~(f \in fs /\ ~(mod.dummy /\ f = "DRE"))
  BY DEF HwRec, Without

\* Reading DATA.
LEMMA PoppedFields ==
    ASSUME NEW h, HwRec(h)
    PROVE  LET g == Popped(h)
           IN  /\ HwRec(g) /\ g.on = h.on /\ g.data = h.data /\ g.shift = h.shift
               /\ g.inten = h.inten /\ g.ovf = h.ovf
               /\ g.fifo = IF h.fifo = <<>> THEN <<>> ELSE Tail(h.fifo)
  BY DEF HwRec, Popped

\* samd21_hal_spi_cb.
LEMMA CallCbFields ==
    ASSUME Records, NEW next \in {"txc", "flush", "none"}, CallCb(next)
    PROVE  /\ HalRec(hal') /\ IrqRec(irq')
           /\ hal'.master = hal.master /\ hal'.cb = hal.cb
           /\ mod.calls /\ hal.xfer => ~hal'.xfer /\ irq'.at = "user" /\ irq'.next = next
           /\ ~(mod.calls /\ hal.xfer) => hal' = hal /\ irq'.at = next /\ irq'.next \in {irq.next, "none"}
<1>1. CASE mod.calls /\ hal.xfer
  <2>1. hal' = [hal EXCEPT !.xfer = FALSE] /\ irq' = [irq EXCEPT !.at = "user", !.next = next]
    BY <1>1 DEF CallCb, CallsUser
  <2>. QED
    BY <1>1, <2>1 DEF Records, HalRec, IrqRec
<1>2. CASE ~(mod.calls /\ hal.xfer)
  <2>1. hal' = hal /\ irq' = IF next = "none" THEN NoIrq ELSE [irq EXCEPT !.at = next]
    BY <1>2 DEF CallCb, CallsUser
  <2>2. HalRec(hal')
    BY <2>1 DEF Records
  <2>. QED
    BY <1>2, <2>1, <2>2 DEF Records, IrqRec, NoIrq
<1>. QED
  BY <1>1, <1>2

\* What _spi_write writes.
Char == IF mod.tx /\ hal.master THEN <<buf.n, buf.sent + 1>> ELSE Dummy

\* The driver's uint16_t, one less.
Less(n) == (n - 1) % 65536

LEMMA DreFields ==
    ASSUME Records, HandlerDre
    PROVE  /\ Records' /\ UNCHANGED <<hal, pc, wire>>
           /\ irq.at = "dre" /\ irq'.at = "rxc" /\ irq'.st = irq.st /\ irq'.next = irq.next
           /\ "DRE" \notin irq.st => UNCHANGED <<mod, buf, hw, seen>>
           /\ "DRE" \in irq.st =>
                /\ seen' \in {seen, seen \cup {"erased"}}
                /\ hw'.on = hw.on /\ hw'.fifo = hw.fifo /\ hw'.ovf = hw.ovf
                /\ hw.shift = <<>> => hw'.shift = <<Char>> /\ hw'.data = hw.data
                /\ hw.shift # <<>> => hw'.shift = hw.shift /\ hw'.data = <<Char>>
                /\ mod'.receiver = mod.receiver /\ mod'.status = mod.status /\ mod'.tx = mod.tx
                /\ mod'.rx = mod.rx /\ mod'.remRx = mod.remRx /\ mod'.calls = mod.calls
                /\ mod'.dummy = mod.dummy
                /\ buf'.n = buf.n /\ buf'.len = buf.len /\ buf'.got = buf.got
                /\ ~mod.tx => mod' = mod /\ buf' = buf /\ hw'.inten = hw.inten
                /\ mod.tx => /\ mod'.remTx = Less(mod.remTx) /\ buf'.sent = buf.sent + 1
                             /\ mod'.remTx = 0 /\ ~mod.dummy => hw'.inten = hw.inten \ {"DRE"}
                             /\ ~(mod'.remTx = 0 /\ ~mod.dummy) => hw'.inten = hw.inten
<1>1. /\ UNCHANGED <<hal, pc, wire>> /\ irq.at = "dre"
      /\ IrqRec(irq') /\ irq'.at = "rxc" /\ irq'.st = irq.st /\ irq'.next = irq.next
  BY DEF Records, IrqRec, HandlerDre
<1>2. CASE "DRE" \notin irq.st
  BY <1>1, <1>2 DEF Records, HandlerDre
<1>3. CASE "DRE" \in irq.st
  <2>1. /\ mod' = Written /\ buf' = IF mod.tx THEN [buf EXCEPT !.sent = @ + 1] ELSE buf
        /\ hw' = Load(IF AllWritten THEN Without(hw, {"DRE"}) ELSE hw, Char)
        /\ seen' = seen \cup Erased
    BY <1>3 DEF HandlerDre, Char
  <2>2. seen' \in {seen, seen \cup {"erased"}}
    BY <2>1 DEF Erased
  <2>3. /\ ModRec(mod') /\ mod'.receiver = mod.receiver /\ mod'.status = mod.status
        /\ mod'.tx = mod.tx /\ mod'.rx = mod.rx /\ mod'.remRx = mod.remRx /\ mod'.calls = mod.calls
        /\ mod'.dummy = mod.dummy
        /\ ~mod.tx => mod' = mod
        /\ mod.tx => mod'.remTx = Less(mod.remTx)
    BY <2>1 DEF Records, ModRec, Written, Less
  <2>4. /\ BufRec(buf') /\ buf'.n = buf.n /\ buf'.len = buf.len /\ buf'.got = buf.got
        /\ ~mod.tx => buf' = buf
        /\ mod.tx => buf'.sent = buf.sent + 1
    BY <2>1 DEF Records, BufRec
  <2>5. AllWritten <=> mod.tx /\ mod'.remTx = 0
    BY <2>1 DEF AllWritten
  <2> DEFINE h == IF AllWritten THEN Without(hw, {"DRE"}) ELSE hw
  <2>6. /\ HwRec(h) /\ h.on = hw.on /\ h.fifo = hw.fifo /\ h.ovf = hw.ovf /\ h.shift = hw.shift
        /\ h.data = hw.data
        /\ h.inten = IF AllWritten /\ ~mod.dummy THEN hw.inten \ {"DRE"} ELSE hw.inten
    BY DEF Records, HwRec, Without
  <2>7. hw' = Load(h, Char)
    BY <2>1
  <2> HIDE DEF h
  <2>8. /\ HwRec(hw') /\ hw'.on = h.on /\ hw'.inten = h.inten /\ hw'.fifo = h.fifo /\ hw'.ovf = h.ovf
        /\ h.shift = <<>> => hw'.shift = <<Char>> /\ hw'.data = h.data
        /\ h.shift # <<>> => hw'.shift = h.shift /\ hw'.data = <<Char>>
    BY <2>6, <2>7, LoadFields
  <2>9. Records'
    BY <1>1, <2>3, <2>4, <2>8 DEF Records
  <2>. QED
    BY <1>1, <1>3, <2>2, <2>3, <2>4, <2>5, <2>6, <2>8, <2>9
<1>. QED
  BY <1>2, <1>3

\* The receive branch: nothing to do, an overflow, or a character.
LEMMA RxcFields ==
    ASSUME Records, HandlerRxc
    PROVE  /\ Records' /\ UNCHANGED <<pc, wire>> /\ irq.at = "rxc"
           /\ "RXC" \notin irq.st => UNCHANGED <<hal, mod, buf, hw, seen>> /\ irq'.at = "txc" /\ irq'.next = irq.next
           /\ "RXC" \in irq.st =>
                /\ hw'.on = hw.on /\ hw'.shift = hw.shift /\ hw'.data = hw.data /\ hw'.ovf = hw.ovf
                /\ hal'.master = hal.master /\ hal'.cb = hal.cb
                /\ mod'.receiver = mod.receiver /\ mod'.tx = mod.tx /\ mod'.rx = mod.rx
                /\ mod'.remTx = mod.remTx /\ mod'.calls = mod.calls /\ mod'.dummy = mod.dummy
                /\ hw.ovf =>
                    /\ seen' = seen \cup {"overflow"} /\ UNCHANGED buf /\ mod'.status = "OVERFLOW"
                    /\ mod'.remRx = mod.remRx /\ hw'.fifo = hw.fifo
                    /\ \A f : f \in hw'.inten <=> f \in hw.inten /\ f # "RXC" /\ (f = "DRE" => mod.dummy)
                    /\ mod.calls /\ hal.xfer => ~hal'.xfer /\ irq'.at = "user" /\ irq'.next = "flush"
                    /\ ~(mod.calls /\ hal.xfer) => hal' = hal /\ irq'.at = "flush" /\ irq'.next \in {irq.next, "none"}
                /\ ~hw.ovf =>
                    /\ UNCHANGED seen
                    /\ hw'.fifo = IF hw.fifo = <<>> THEN <<>> ELSE Tail(hw.fifo)
                    /\ buf'.n = buf.n /\ buf'.len = buf.len /\ buf'.sent = buf.sent
                    /\ ~mod.rx => UNCHANGED <<mod, buf>>
                    /\ mod.rx => mod'.remRx = mod.remRx - 1 /\ buf'.got = Append(buf.got, Head(hw.fifo))
                    /\ ~(mod.rx /\ mod.remRx - 1 = 0) =>
                        /\ mod'.status = mod.status /\ hw'.inten = hw.inten /\ UNCHANGED hal
                        /\ irq'.at = "txc" /\ irq'.next = irq.next
                    /\ mod.rx /\ mod.remRx - 1 = 0 =>
                        /\ mod'.status = "OK" /\ hw'.inten = hw.inten \ {"RXC"}
                        /\ mod.calls /\ hal.xfer => ~hal'.xfer /\ irq'.at = "user" /\ irq'.next = "txc"
                        /\ ~(mod.calls /\ hal.xfer) => hal' = hal /\ irq'.at = "txc" /\ irq'.next \in {irq.next, "none"}
<1>1. UNCHANGED <<pc, wire>> /\ irq.at = "rxc"
  BY DEF HandlerRxc
<1>2. CASE "RXC" \notin irq.st
  BY <1>1, <1>2 DEF Records, IrqRec, HandlerRxc
<1>3. CASE "RXC" \in irq.st /\ hw.ovf
  <2>1. /\ mod' = [mod EXCEPT !.status = "OVERFLOW"] /\ hw' = Without(hw, {"RXC", "DRE"})
        /\ CallCb("flush") /\ seen' = seen \cup {"overflow"} /\ UNCHANGED buf
    BY <1>3 DEF HandlerRxc
  <2>2. /\ ModRec(mod') /\ mod'.status = "OVERFLOW"
        /\ mod'.receiver = mod.receiver /\ mod'.tx = mod.tx /\ mod'.rx = mod.rx
        /\ mod'.remTx = mod.remTx /\ mod'.remRx = mod.remRx /\ mod'.calls = mod.calls
        /\ mod'.dummy = mod.dummy
    BY <2>1 DEF Records, ModRec
  <2>3. /\ HwRec(hw') /\ hw'.on = hw.on /\ hw'.shift = hw.shift /\ hw'.data = hw.data
        /\ hw'.ovf = hw.ovf /\ hw'.fifo = hw.fifo
        /\ \A f : f \in hw'.inten <=> f \in hw.inten /\ ~(f \in {"RXC", "DRE"} /\ ~(mod.dummy /\ f = "DRE"))
    BY <2>1, WithoutFields DEF Records
  <2>4. \A f : f \in hw'.inten <=> f \in hw.inten /\ f # "RXC" /\ (f = "DRE" => mod.dummy)
    BY <2>3
  <2>. QED
    BY <1>1, <1>3, <2>1, <2>2, <2>3, <2>4, CallCbFields DEF Records
<1>4. CASE "RXC" \in irq.st /\ ~hw.ovf
  <2>1. /\ mod' = IF AllFilled THEN [Filled EXCEPT !.status = "OK"] ELSE Filled
        /\ buf' = IF mod.rx THEN [buf EXCEPT !.got = Append(@, Head(hw.fifo))] ELSE buf
        /\ hw' = IF AllFilled THEN Without(Popped(hw), {"RXC"}) ELSE Popped(hw)
        /\ IF AllFilled THEN CallCb("txc")
                        ELSE hal' = hal /\ irq' = [irq EXCEPT !.at = "txc"]
        /\ UNCHANGED seen
    BY <1>4 DEF HandlerRxc
  <2>2. AllFilled <=> mod.rx /\ mod.remRx - 1 = 0
    BY DEF AllFilled, Filled, Records, ModRec
  <2>3. /\ ModRec(mod') /\ mod'.receiver = mod.receiver /\ mod'.tx = mod.tx /\ mod'.rx = mod.rx
        /\ mod'.remTx = mod.remTx /\ mod'.calls = mod.calls /\ mod'.dummy = mod.dummy
        /\ ~mod.rx => mod' = mod
        /\ mod.rx => mod'.remRx = mod.remRx - 1
        /\ AllFilled => mod'.status = "OK"
        /\ ~AllFilled => mod'.status = mod.status
    BY <2>1, <2>2 DEF Records, ModRec, Filled
  <2>4. /\ BufRec(buf') /\ buf'.n = buf.n /\ buf'.len = buf.len /\ buf'.sent = buf.sent
        /\ ~mod.rx => buf' = buf
        /\ mod.rx => buf'.got = Append(buf.got, Head(hw.fifo))
    BY <2>1 DEF Records, BufRec
  <2> DEFINE g == Popped(hw)
  <2>5. /\ HwRec(g) /\ g.on = hw.on /\ g.data = hw.data /\ g.shift = hw.shift
        /\ g.inten = hw.inten /\ g.ovf = hw.ovf
        /\ g.fifo = IF hw.fifo = <<>> THEN <<>> ELSE Tail(hw.fifo)
    BY PoppedFields DEF Records
  <2>6. hw' = IF AllFilled THEN Without(g, {"RXC"}) ELSE g
    BY <2>1
  <2> HIDE DEF g
  <2>7. /\ HwRec(hw') /\ hw'.on = hw.on /\ hw'.data = hw.data /\ hw'.shift = hw.shift
        /\ hw'.ovf = hw.ovf /\ hw'.fifo = g.fifo
        /\ AllFilled => hw'.inten = hw.inten \ {"RXC"}
        /\ ~AllFilled => hw'.inten = hw.inten
    BY <2>5, <2>6 DEF HwRec, Without
  <2>8. /\ HalRec(hal') /\ IrqRec(irq') /\ hal'.master = hal.master /\ hal'.cb = hal.cb
        /\ ~AllFilled => UNCHANGED hal /\ irq'.at = "txc" /\ irq'.next = irq.next
        /\ AllFilled =>
            /\ mod.calls /\ hal.xfer => ~hal'.xfer /\ irq'.at = "user" /\ irq'.next = "txc"
            /\ ~(mod.calls /\ hal.xfer) => hal' = hal /\ irq'.at = "txc" /\ irq'.next \in {irq.next, "none"}
    <3>1. CASE AllFilled
      BY <2>1, <3>1, CallCbFields
    <3>2. CASE ~AllFilled
      BY <2>1, <3>2 DEF Records, HalRec, IrqRec
    <3>. QED
      BY <3>1, <3>2
  <2>9. Records'
    BY <2>3, <2>4, <2>7, <2>8 DEF Records
  <2>. QED
    BY <1>1, <1>4, <2>1, <2>2, <2>3, <2>4, <2>5, <2>7, <2>8, <2>9
<1>. QED
  BY <1>2, <1>3, <1>4

LEMMA FlushFields ==
    ASSUME Records, HandlerFlush
    PROVE  /\ Records' /\ UNCHANGED <<hal, mod, buf, pc, wire, seen>>
           /\ irq.at = "flush" /\ irq'.at = "txc" /\ irq'.next = irq.next
           /\ hw'.on = hw.on /\ hw'.shift = hw.shift /\ hw'.data = hw.data /\ hw'.inten = hw.inten
           /\ hw'.fifo = IF hw.fifo = <<>> THEN <<>> ELSE Tail(hw.fifo)
  BY DEF Records, HalRec, ModRec, BufRec, HwRec, IrqRec, HandlerFlush, Popped

LEMMA TxcFields ==
    ASSUME Records, HandlerTxc
    PROVE  /\ Records' /\ UNCHANGED <<buf, pc, wire, seen>> /\ irq.at = "txc"
           /\ hw'.on = hw.on /\ hw'.shift = hw.shift /\ hw'.data = hw.data /\ hw'.fifo = hw.fifo
           /\ hw'.ovf = hw.ovf
           /\ hal'.master = hal.master /\ hal'.cb = hal.cb
           /\ mod'.receiver = mod.receiver /\ mod'.tx = mod.tx /\ mod'.rx = mod.rx
           /\ mod'.calls = mod.calls /\ mod'.dummy = mod.dummy
           /\ \/ UNCHANGED <<hal, mod, hw>> /\ irq'.at = "none" /\ irq'.next = "none"
              \/ /\ ~hal.master /\ mod'.status = "OK" /\ mod'.remTx = 0 /\ mod'.remRx = 0
                 /\ "RXC" \notin hw'.inten
                 /\ mod.calls /\ hal.xfer => ~hal'.xfer /\ irq'.at = "user" /\ irq'.next = "none"
                 /\ ~(mod.calls /\ hal.xfer) => hal' = hal /\ irq'.at = "none" /\ irq'.next \in {irq.next, "none"}
<1>1. CASE ~("TXC" \in irq.st /\ ~hal.master)
  BY <1>1 DEF Records, HalRec, ModRec, BufRec, HwRec, IrqRec, HandlerTxc, NoIrq
<1>2. CASE "TXC" \in irq.st /\ ~hal.master
  <2>1. /\ hw' = [Without(hw, INTS) EXCEPT !.txc = FALSE]
        /\ mod' = [mod EXCEPT !.remTx = 0, !.remRx = 0, !.status = "OK"] /\ CallCb("none")
        /\ UNCHANGED <<buf, pc, wire, seen>> /\ irq.at = "txc"
    BY <1>2 DEF HandlerTxc
  <2>2. /\ HwRec(hw') /\ hw'.on = hw.on /\ hw'.shift = hw.shift /\ hw'.data = hw.data
        /\ hw'.fifo = hw.fifo /\ hw'.ovf = hw.ovf /\ "RXC" \notin hw'.inten
    BY <2>1 DEF Records, HwRec, Without, INTS
  <2>3. /\ ModRec(mod') /\ mod'.receiver = mod.receiver /\ mod'.tx = mod.tx /\ mod'.rx = mod.rx
        /\ mod'.calls = mod.calls /\ mod'.dummy = mod.dummy
        /\ mod'.status = "OK" /\ mod'.remTx = 0 /\ mod'.remRx = 0
    BY <2>1 DEF Records, ModRec
  <2>. QED
    BY <1>2, <2>1, <2>2, <2>3, CallCbFields DEF Records
<1>. QED
  BY <1>1, <1>2

LEMMA UserFields ==
    ASSUME Records, UserReturns
    PROVE  /\ Records' /\ UNCHANGED <<hal, mod, buf, hw, pc, wire, seen>>
           /\ irq.at = "user" /\ irq'.at = irq.next /\ irq'.next = irq.next
  BY DEF Records, HalRec, ModRec, BufRec, HwRec, IrqRec, UserReturns, NoIrq

LEMMA ConfigFields ==
    ASSUME Records, hal_spi_config
    PROVE  /\ Records' /\ UNCHANGED <<hal, buf, hw, irq, pc, wire, seen>>
           /\ pc = "idle" /\ irq.at = "none" /\ ~hw.on
           /\ mod'.receiver /\ mod'.status = "OK" /\ ~mod'.tx /\ ~mod'.rx /\ mod'.remTx = 0
           /\ mod'.remRx = 0 /\ ~mod'.calls /\ ~mod'.dummy
  BY DEF Records, HalRec, ModRec, BufRec, HwRec, IrqRec, hal_spi_config, Configured, InTask

LEMMA EnableFields ==
    ASSUME Records, hal_spi_enable
    PROVE  /\ Records' /\ UNCHANGED <<hal, mod, buf, irq, pc, wire, seen>>
           /\ pc = "idle" /\ irq.at = "none" /\ ~hw.on /\ hw'.on
           /\ hw'.inten = hw.inten /\ hw'.shift = hw.shift /\ hw'.data = hw.data
           /\ hw'.fifo = hw.fifo /\ hw'.ovf = hw.ovf
  BY DEF Records, HalRec, ModRec, BufRec, HwRec, IrqRec, hal_spi_enable, SpiOn, InTask

LEMMA DisableFields ==
    ASSUME Records, hal_spi_disable
    PROVE  /\ Records' /\ UNCHANGED <<hal, mod, buf, irq, pc, wire>>
           /\ pc = "idle" /\ irq.at = "none"
           /\ seen' = IF hal.xfer \/ hw.shift # <<>> THEN seen \cup {"cut"} ELSE seen
           /\ ~hw'.on /\ hw'.inten = hw.inten /\ hw'.shift = <<>> /\ hw'.data = <<>>
           /\ hw'.fifo \in {hw.fifo, <<>>} /\ hw'.ovf = hw.ovf
  BY DEF Records, HalRec, ModRec, BufRec, HwRec, IrqRec, hal_spi_disable, SpiOff, InTask

LEMMA SetCbFields ==
    ASSUME Records, hal_spi_set_txrx_cb
    PROVE  /\ Records' /\ UNCHANGED <<buf, hw, irq, pc, wire, seen>>
           /\ pc = "idle" /\ irq.at = "none" /\ ~hal.xfer
           /\ hal'.master = hal.master /\ hal'.xfer = hal.xfer /\ (mod'.calls => hal'.cb)
           /\ mod'.receiver = mod.receiver /\ mod'.status = mod.status /\ mod'.tx = mod.tx
           /\ mod'.rx = mod.rx /\ mod'.remTx = mod.remTx /\ mod'.remRx = mod.remRx
           /\ mod'.dummy = mod.dummy
  BY DEF Records, HalRec, ModRec, BufRec, HwRec, IrqRec, hal_spi_set_txrx_cb, InTask

\* A job that is refused leaves everything but XFER.
LEMMA NonblockingFields ==
    ASSUME Records, NEW n \in 1 .. MaxLen, NEW t \in BOOLEAN, NEW r \in BOOLEAN, Nonblocking(n, t, r)
    PROVE  /\ Records' /\ UNCHANGED <<irq, wire, seen>>
           /\ (pc = "idle" /\ irq.at = "none") \/ irq.at = "user"
           /\ hal.cb /\ ~hal.xfer /\ hal'.xfer /\ hal'.master = hal.master /\ hal'.cb = hal.cb
           /\ hal.master => t
           /\ \/ (~mod.receiver \/ mod.status = "BUSY") /\ UNCHANGED <<mod, buf, hw, pc>>
              \/ /\ mod.receiver /\ mod.status # "BUSY"
                 /\ mod'.receiver = mod.receiver /\ mod'.status = "BUSY" /\ mod'.tx = t
                 /\ mod'.rx = r /\ mod'.calls = mod.calls /\ mod'.dummy = mod.dummy
                 /\ mod'.remRx = (IF r THEN n ELSE 0) /\ mod'.remTx = (IF t THEN n ELSE 0)
                 /\ buf'.n = buf.n + 1 /\ buf'.len = n /\ buf'.sent = 0 /\ buf'.got = <<>>
                 /\ hw'.on = hw.on /\ hw'.shift = hw.shift /\ hw'.data = hw.data
                 /\ hw'.fifo = hw.fifo /\ hw'.ovf = hw.ovf
                 /\ hw'.inten \in {hw.inten \cup {"DRE", "RXC"}, hw.inten \cup {"DRE", "RXC", "TXC"}}
                 /\ hal.master => hw'.inten = hw.inten \cup {"DRE", "RXC"}
                 /\ pc' \in {pc, "job"}
<1>1. /\ CanCall /\ hal.cb /\ Accepts(t, r) /\ hal' = [hal EXCEPT !.xfer = TRUE]
      /\ UNCHANGED <<irq, wire, seen>>
  BY DEF Nonblocking
<1>2. /\ HalRec(hal') /\ IrqRec(irq') /\ hal'.xfer /\ hal'.master = hal.master /\ hal'.cb = hal.cb
      /\ ~hal.xfer /\ (hal.master => t)
  BY <1>1 DEF Records, HalRec, Accepts
<1>3. CASE Refuses
  BY <1>1, <1>2, <1>3 DEF Nonblocking, Refuses, CanCall, InTask, Records
<1>4. CASE ~Refuses
  <2>1. /\ mod' = Started(n, t, r) /\ buf' = NewBuf(n)
        /\ hw' = LET h == [hw EXCEPT !.inten = @ \cup {"DRE", "RXC"}]
                 IN  IF InTask THEN h ELSE JobInts(h)
        /\ pc' = IF InTask THEN "job" ELSE pc
    BY <1>4 DEF Nonblocking
  <2>2. /\ ModRec(mod') /\ mod'.receiver = mod.receiver /\ mod'.status = "BUSY" /\ mod'.tx = t
        /\ mod'.rx = r /\ mod'.calls = mod.calls /\ mod'.dummy = mod.dummy
        /\ mod'.remRx = (IF r THEN n ELSE 0) /\ mod'.remTx = (IF t THEN n ELSE 0)
    BY <2>1 DEF Records, ModRec, Started
  <2>3. BufRec(buf') /\ buf'.n = buf.n + 1 /\ buf'.len = n /\ buf'.sent = 0 /\ buf'.got = <<>>
    BY <2>1 DEF Records, BufRec, NewBuf
  <2>4. /\ HwRec(hw') /\ hw'.on = hw.on /\ hw'.shift = hw.shift /\ hw'.data = hw.data
        /\ hw'.fifo = hw.fifo /\ hw'.ovf = hw.ovf
        /\ hw'.inten \in {hw.inten \cup {"DRE", "RXC"}, hw.inten \cup {"DRE", "RXC", "TXC"}}
        /\ hal.master => hw'.inten = hw.inten \cup {"DRE", "RXC"}
    BY <2>1 DEF Records, HwRec, JobInts
  <2>. QED
    BY <1>1, <1>2, <1>4, <2>1, <2>2, <2>3, <2>4 DEF Refuses, CanCall, InTask, Records
<1>. QED
  BY <1>3, <1>4

LEMMA JobEndsFields ==
    ASSUME Records, JobEnds
    PROVE  /\ Records' /\ UNCHANGED <<hal, mod, buf, irq, wire>>
           /\ pc = "job" /\ irq.at = "none" /\ pc' = "idle"
           /\ seen' \in {seen, seen \cup {"erased"}}
           /\ hw'.on = hw.on /\ hw'.shift = hw.shift /\ hw'.data = hw.data
           /\ hw'.fifo = hw.fifo /\ hw'.ovf = hw.ovf
           /\ hw'.inten \in {hw.inten, hw.inten \cup {"TXC"}}
           /\ hal.master => hw'.inten = hw.inten
  BY DEF Records, HalRec, ModRec, BufRec, HwRec, IrqRec, JobEnds, JobInts, Erased

LEMMA AbortFields ==
    ASSUME Records, hal_spi_abort
    PROVE  /\ Records' /\ UNCHANGED <<buf, irq, pc, wire>>
           /\ (pc = "idle" /\ irq.at = "none") \/ irq.at = "user"
           /\ seen' = IF hal.xfer THEN seen \cup {"cut"} ELSE seen
           /\ ~hal'.xfer /\ hal'.master = hal.master /\ hal'.cb = hal.cb
           /\ mod'.receiver = mod.receiver /\ mod'.status = "ABORTED" /\ mod'.tx = mod.tx
           /\ mod'.rx = mod.rx /\ mod'.remTx = 0 /\ mod'.remRx = 0 /\ mod'.calls = mod.calls
           /\ mod'.dummy = mod.dummy
           /\ hw'.on = hw.on /\ hw'.shift = hw.shift /\ hw'.data = hw.data
           /\ hw'.fifo = hw.fifo /\ hw'.ovf = hw.ovf
           /\ hw'.inten \subseteq hw.inten /\ "RXC" \notin hw'.inten
           /\ ~mod.dummy => "DRE" \notin hw'.inten
  BY DEF Records, HalRec, ModRec, BufRec, HwRec, IrqRec, hal_spi_abort, Aborted, Without, INTS,
         CanCall, InTask

LEMMA DefaultFields ==
    ASSUME Records, hal_spi_slave_set_def_tx_val
    PROVE  /\ Records' /\ UNCHANGED <<hal, buf, irq, pc, wire>>
           /\ pc = "idle" /\ irq.at = "none" /\ ~hal.master
           /\ seen' \in {seen, seen \cup {"erased"}}
           /\ mod'.receiver = mod.receiver /\ mod'.status = mod.status /\ mod'.tx = mod.tx
           /\ mod'.rx = mod.rx /\ mod'.remTx = mod.remTx /\ mod'.remRx = mod.remRx
           /\ mod'.calls = mod.calls
           /\ hw'.on = hw.on /\ hw'.fifo = hw.fifo /\ hw'.ovf = hw.ovf
           /\ hw'.inten \in {hw.inten, hw.inten \cup {"DRE"}}
           /\ \/ hw'.shift = hw.shift /\ hw'.data = hw.data
              \/ hw.shift = <<>> /\ hw'.shift = <<Dummy>> /\ hw'.data = hw.data
              \/ hw.shift # <<>> /\ hw'.shift = hw.shift /\ hw'.data = <<Dummy>>
<1>1. PICK d \in BOOLEAN :
         /\ mod' = [mod EXCEPT !.dummy = d]
         /\ hw' = IF d THEN Defaulted ELSE hw
         /\ seen' = IF d THEN seen \cup Erased ELSE seen
  BY DEF hal_spi_slave_set_def_tx_val
<1>2. /\ UNCHANGED <<hal, buf, irq, pc, wire>> /\ pc = "idle" /\ irq.at = "none" /\ ~hal.master
  BY DEF hal_spi_slave_set_def_tx_val, InTask
<1>3. seen' \in {seen, seen \cup {"erased"}}
  BY <1>1 DEF Erased
<1>4. /\ ModRec(mod')
      /\ mod'.receiver = mod.receiver /\ mod'.status = mod.status /\ mod'.tx = mod.tx
      /\ mod'.rx = mod.rx /\ mod'.remTx = mod.remTx /\ mod'.remRx = mod.remRx
      /\ mod'.calls = mod.calls
  BY <1>1 DEF Records, ModRec
<1>5. HwRec(hw) /\ hw' \in {hw, Defaulted}
  BY <1>1 DEF Records
<1>6. /\ HwRec(hw') /\ hw'.on = hw.on /\ hw'.fifo = hw.fifo /\ hw'.ovf = hw.ovf
      /\ hw'.inten \in {hw.inten, hw.inten \cup {"DRE"}}
      /\ \/ hw'.shift = hw.shift /\ hw'.data = hw.data
         \/ hw.shift = <<>> /\ hw'.shift = <<Dummy>> /\ hw'.data = hw.data
         \/ hw.shift # <<>> /\ hw'.shift = hw.shift /\ hw'.data = <<Dummy>>
  BY <1>5 DEF HwRec, Defaulted, Load
<1>. QED
  BY <1>2, <1>3, <1>4, <1>6 DEF Records

\* Both calls of a master that wait.
LEMMA BlockingFields ==
    ASSUME Records, NEW n \in 1 .. MaxLen, Blocking(n) \/ (hal_spi_tx_val /\ n = 1)
    PROVE  /\ Records' /\ UNCHANGED <<mod, hw, irq, wire, seen>>
           /\ pc = "idle" /\ irq.at = "none" /\ pc' = "write"
           /\ hal.master /\ hw.on /\ mod.receiver /\ ~hal.xfer /\ mod.status # "BUSY"
           /\ hal'.master = hal.master /\ hal'.cb = hal.cb /\ ~(hal'.cb /\ hal'.xfer)
           /\ buf'.n = buf.n + 1 /\ buf'.len = n /\ buf'.sent = 0 /\ buf'.got = <<>>
  BY DEF Records, HalRec, ModRec, BufRec, HwRec, IrqRec, Blocking, hal_spi_tx_val, NewBuf, InTask,
         Accepts

LEMMA WriteFields ==
    ASSUME Records, WriteWait
    PROVE  /\ Records' /\ UNCHANGED <<hal, mod, irq, wire, seen>>
           /\ pc = "write" /\ irq.at = "none" /\ pc' = "read" /\ hw.data = <<>>
           /\ buf'.n = buf.n /\ buf'.len = buf.len /\ buf'.sent = buf.sent + 1 /\ buf'.got = buf.got
           /\ hw'.on = hw.on /\ hw'.inten = hw.inten /\ hw'.fifo = hw.fifo /\ hw'.ovf = hw.ovf
           /\ hw.shift = <<>> => hw'.shift = <<<<buf.n, buf.sent + 1>>>> /\ hw'.data = hw.data
           /\ hw.shift # <<>> => hw'.shift = hw.shift /\ hw'.data = <<<<buf.n, buf.sent + 1>>>>
<1>1. /\ UNCHANGED <<hal, mod, irq, wire, seen>> /\ pc = "write" /\ irq.at = "none" /\ pc' = "read"
      /\ "DRE" \in Flags /\ buf' = [buf EXCEPT !.sent = @ + 1]
      /\ hw' = Load(hw, <<buf.n, buf.sent + 1>>)
  BY DEF WriteWait
<1>2. /\ BufRec(buf') /\ buf'.n = buf.n /\ buf'.len = buf.len /\ buf'.sent = buf.sent + 1
      /\ buf'.got = buf.got
  BY <1>1 DEF Records, BufRec
<1>3. HwRec(hw)
  BY DEF Records
<1>. QED
  BY <1>1, <1>2, <1>3, LoadFields, FlagsAre DEF Records

LEMMA ReadFields ==
    ASSUME Records, ReadWait
    PROVE  /\ Records' /\ UNCHANGED <<mod, irq, wire, seen>>
           /\ pc = "read" /\ irq.at = "none" /\ hw.fifo # <<>>
           /\ hw'.on = hw.on /\ hw'.inten = hw.inten /\ hw'.shift = hw.shift /\ hw'.data = hw.data
           /\ hw'.fifo = Tail(hw.fifo) /\ ~hw'.ovf
           /\ hal'.master = hal.master /\ hal'.cb = hal.cb /\ (hal'.xfer => hal.xfer)
           /\ buf'.n = buf.n /\ buf'.len = buf.len /\ buf'.sent = buf.sent
           /\ pc' \in {"idle", "write", "complete"}
           /\ hw.ovf => pc' = "idle" /\ ~hal'.xfer /\ buf' = buf
           /\ ~hw.ovf => /\ hal' = hal /\ buf'.got = Append(buf.got, Head(hw.fifo))
                         /\ pc' = "write" <=> buf.sent < buf.len
  BY FlagsAre DEF Records, HalRec, ModRec, BufRec, HwRec, IrqRec, ReadWait, Taken, Popped

LEMMA CompleteFields ==
    ASSUME Records, CompleteWait
    PROVE  /\ Records' /\ UNCHANGED <<mod, buf, hw, irq, wire, seen>>
           /\ pc = "complete" /\ irq.at = "none" /\ pc' = "idle"
           /\ ~hal'.xfer /\ hal'.master = hal.master /\ hal'.cb = hal.cb
  BY DEF Records, HalRec, ModRec, BufRec, HwRec, IrqRec, CompleteWait

-----------------------------------------------------------------------------
(* The SPI port: its control *)

\* Characters, what a register holds, what waits, and what has been exchanged and
\* received.  The sets of sequences are kept under names of their own.
Chars == Nat \X Nat
Holds(reg) == reg = <<>> \/ \E c \in Chars : reg = <<c>>
IsFifo(s) == s \in Seq(Nat) /\ Len(s) <= 2
IsWire(w) == w \in Seq(Chars)
IsGot(g) == g \in Seq(Nat)

\* DATA is only used once the shift register is.
SpiRanges ==
    /\ Holds(hw.shift) /\ Holds(hw.data) /\ (hw.data # <<>> => hw.shift # <<>>)
    /\ IsFifo(hw.fifo) /\ IsWire(wire) /\ IsGot(buf.got)
    /\ buf.n \in Nat /\ buf.len \in 0 .. MaxLen /\ buf.sent \in Nat
    /\ mod.remTx \in Nat /\ mod.remRx \in Int
    /\ irq.next \in {"none", "txc", "flush"}

\* The task runs a transfer itself.
Polls == pc \in {"write", "read", "complete"}

\* FreeIsIdle with what it rests on: BUSY and RXC go with XFER; a transfer in the
\* task has no job beside it; and what the handler read at its entry is still so
\* when it comes to the branch of that flag.
SpiControl ==
    /\ mod.calls => hal.cb
    /\ ~hal.xfer => mod.status # "BUSY" /\ "RXC" \notin hw.inten
    /\ ~mod.receiver => ~mod.tx /\ ~mod.rx /\ mod.status # "BUSY" /\ buf.got = <<>>
    /\ Polls => /\ hal.master /\ mod.receiver /\ mod.status # "BUSY" /\ irq.at = "none"
                /\ ~(hal.cb /\ hal.xfer)
    /\ irq.at \in {"dre", "rxc"} /\ "RXC" \in irq.st => "RXC" \in hw.inten /\ hw.fifo # <<>>
    /\ irq.at = "dre" /\ "DRE" \in irq.st => "DRE" \in hw.inten /\ hw.data = <<>>
    /\ irq.at = "flush" \/ irq.next = "flush" => "overflow" \in seen
    /\ irq.at # "none" => hw.on

Size(reg) == IF reg = <<>> THEN 0 ELSE 1
Pipe == Size(hw.shift) + Size(hw.data) + Len(hw.fifo)

\* A third character is in the pipe of a master.
Third ==
    \/ pc = "read" \/ irq.at = "flush"
    \/ irq.at = "rxc" /\ "DRE" \in irq.st /\ "RXC" \in irq.st
    \/ irq.at = "user" /\ irq.next = "flush"

\* A master has no default character, never waits for the end of a transaction,
\* and stops writing before it stops reading.
MasterInts ==
    hal.master =>
        /\ mod.receiver => ~mod.dummy
        /\ mod.rx => mod.tx
        /\ "TXC" \notin hw.inten /\ ("DRE" \in hw.inten => "RXC" \in hw.inten)
        /\ ~mod.receiver \/ ~hal.xfer \/ Polls => "DRE" \notin hw.inten /\ "RXC" \notin hw.inten

\* At most two characters of a master are under way, three only between writing
\* and reading one.
MasterPipe ==
    hal.master =>
        /\ Pipe <= 3 /\ (Pipe = 3 => Third)
        /\ irq.at = "dre" /\ "RXC" \notin irq.st /\ "DRE" \in irq.st => Pipe <= 1
        /\ irq.at = "dre" /\ "RXC" \in irq.st /\ "DRE" \in hw.inten => "DRE" \in irq.st

\* Hence what is left to receive never runs out before what is left to send: DRE
\* is not left enabled when the last character has come.
MasterCount ==
    hal.master =>
        /\ mod.tx /\ "DRE" \in hw.inten => buf.sent < buf.len /\ mod.remTx = buf.len - buf.sent
        /\ mod.tx /\ mod.rx /\ "DRE" \in hw.inten =>
             IF irq.at = "rxc" /\ "RXC" \in irq.st THEN mod.remRx > mod.remTx
                                                   ELSE mod.remRx >= mod.remTx

MasterControl == MasterInts /\ MasterPipe /\ MasterCount

\* The fifo of the SERCOM when a character comes and when one is read.
LEMMA FifoPush ==
    ASSUME NEW s, IsFifo(s), Len(s) < 2, NEW x \in Nat
    PROVE  LET q == Append(s, x)
           IN  /\ IsFifo(q) /\ Len(q) = Len(s) + 1 /\ q[Len(q)] = x /\ q # <<>>
               /\ \A i \in 1 .. Len(s) : q[i] = s[i]
  BY DEF IsFifo

LEMMA FifoPop ==
    ASSUME NEW s, IsFifo(s), s # <<>>
    PROVE  LET q == Tail(s)
           IN  /\ IsFifo(q) /\ Len(q) = Len(s) - 1 /\ Head(s) = s[1] /\ s[1] \in Nat
               /\ \A i \in 1 .. Len(q) : q[i] = s[i + 1]
  BY DEF IsFifo

\* The sizes of a register and of what waits.
LEMMA Sizes ==
    ASSUME NEW reg
    PROVE  Size(reg) \in Nat /\ Size(reg) <= 1 /\ (Size(reg) = 0 <=> reg = <<>>)
<1>1. CASE reg = <<>>
  BY <1>1 DEF Size
<1>2. CASE reg # <<>>
  BY <1>2 DEF Size
<1>. QED
  BY <1>1, <1>2

LEMMA PushLen ==
    ASSUME NEW s, IsFifo(s), Len(s) < 2, NEW x
    PROVE  Len(Append(s, x)) = Len(s) + 1
  BY DEF IsFifo

LEMMA FifoLen ==
    ASSUME NEW s, IsFifo(s)
    PROVE  Len(s) \in Nat /\ Len(s) <= 2 /\ (Len(s) = 0 <=> s = <<>>)
<1>1. s \in Seq(Nat) /\ Len(s) <= 2 /\ Len(s) \in Nat
  BY DEF IsFifo
<1>2. s # <<>> => Len(s) # 0
  BY <1>1
<1>3. s = <<>> => Len(s) = 0
  OBVIOUS
<1>. QED
  BY <1>1, <1>2, <1>3, Zenon

LEMMA NoneWaits == IsFifo(<<>>) /\ Len(<<>>) = 0 /\ IsGot(<<>>) /\ IsWire(<<>>) /\ Holds(<<>>)
  BY DEF IsFifo, IsGot, IsWire, Holds

LEMMA HoldsOne ==
    ASSUME NEW c \in Chars
    PROVE  Holds(<<c>>) /\ <<c>> # <<>> /\ <<c>>[1] = c
  BY DEF Holds

LEMMA HeldIs ==
    ASSUME NEW reg, Holds(reg), reg # <<>>
    PROVE  reg[1] \in Chars
  BY DEF Holds

LEMMA WireGrows ==
    ASSUME NEW w, IsWire(w), NEW c \in Chars
    PROVE  LET v == Append(w, c)
           IN  /\ IsWire(v) /\ Len(w) \in Nat /\ Len(v) = Len(w) + 1 /\ v[Len(w) + 1] = c
               /\ \A i \in 1 .. Len(w) : v[i] = w[i]
  BY DEF IsWire

LEMMA GotGrows ==
    ASSUME NEW g, IsGot(g), NEW x \in Nat
    PROVE  LET v == Append(g, x)
           IN  /\ IsGot(v) /\ Len(g) \in Nat /\ Len(v) = Len(g) + 1 /\ v[Len(g) + 1] = x
               /\ \A i \in 1 .. Len(g) : v[i] = g[i]
  BY DEF IsGot

LEMMA CharsAre == Dummy \in Chars /\ \A n, k \in Nat : <<n, k>> \in Chars
  BY DEF Dummy, Chars

LEMMA CharIs ==
    ASSUME SpiRanges
    PROVE  Char \in Chars
<1>1. buf.sent + 1 \in Nat /\ buf.n \in Nat
  BY DEF SpiRanges
<1>. QED
  BY <1>1, CharsAre, Zenon DEF Char

\* Each part of the invariant is kept, one action at a time.

LEMMA RecordsStep ==
    ASSUME Records, [SpiNext]_spiVars
    PROVE  Records'
<1>1. CASE Exchange
  BY <1>1, ExchangeFields
<1>2. CASE Select
  BY <1>2, SelectFields
<1>3. CASE HandlerEnters
  BY <1>3, EntersFields
<1>4. CASE HandlerDre
  BY <1>4, DreFields
<1>5. CASE HandlerRxc
  BY <1>5, RxcFields
<1>6. CASE HandlerFlush
  BY <1>6, FlushFields
<1>7. CASE HandlerTxc
  BY <1>7, TxcFields
<1>8. CASE UserReturns
  BY <1>8, UserFields
<1>9. CASE WriteWait
  BY <1>9, WriteFields
<1>10. CASE ReadWait
  BY <1>10, ReadFields
<1>11. CASE CompleteWait
  BY <1>11, CompleteFields
<1>12. CASE JobEnds
  BY <1>12, JobEndsFields
<1>13. CASE hal_spi_config
  BY <1>13, ConfigFields
<1>14. CASE hal_spi_enable
  BY <1>14, EnableFields
<1>15. CASE hal_spi_set_txrx_cb
  BY <1>15, SetCbFields
<1>16. CASE hal_spi_disable
  BY <1>16, DisableFields
<1>17. CASE hal_spi_abort
  BY <1>17, AbortFields
<1>18. CASE hal_spi_slave_set_def_tx_val
  BY <1>18, DefaultFields
<1>19. ASSUME NEW n \in 1 .. MaxLen, Blocking(n) \/ (hal_spi_tx_val /\ n = 1)
      PROVE  Records'
  BY <1>19, BlockingFields
<1>20. ASSUME NEW n \in 1 .. MaxLen, NEW t \in BOOLEAN, NEW r \in BOOLEAN, Nonblocking(n, t, r)
      PROVE  Records'
  BY <1>20, NonblockingFields
<1>21. CASE UNCHANGED spiVars
  BY <1>21 DEF spiVars, Records
<1>22. 1 \in 1 .. MaxLen
  BY SpiAssumption
<1>. QED
  BY <1>1, <1>2, <1>3, <1>4, <1>5, <1>6, <1>7, <1>8, <1>9, <1>10, <1>11, <1>12, <1>13,
     <1>14, <1>15, <1>16, <1>17, <1>18, <1>19, <1>20, <1>21, <1>22
     DEF SpiNext, Disturb, SpiStep, Handler, Waiting, Calls

LEMMA RangesStep ==
    ASSUME Records, SpiRanges, SpiControl, [SpiNext]_spiVars
    PROVE  SpiRanges'
<1>1. CASE Exchange
  <2>1. \E c \in Chars : wire' = Append(wire, c)
    <3>1. hw.shift # <<>> => hw.shift[1] \in Chars
      BY HeldIs DEF SpiRanges
    <3>. QED
      BY <1>1, <3>1, ExchangeFields, CharsAre, Zenon
  <2>2. Len(wire) \in Nat /\ IsWire(wire')
    BY <2>1, WireGrows DEF SpiRanges
  <2>3. IsFifo(hw'.fifo)
    <3>1. Len(wire) + 1 \in Nat /\ IsFifo(hw.fifo)
      BY <2>2 DEF SpiRanges
    <3>2. Len(hw.fifo) < 2 => IsFifo(Append(hw.fifo, Len(wire) + 1))
      BY <3>1, FifoPush, Zenon
    <3>. QED
      BY <1>1, <3>1, <3>2, ExchangeFields, Zenon
  <2>. QED
    BY <1>1, <2>2, <2>3, ExchangeFields, NoneWaits DEF SpiRanges
<1>2. CASE Select
  BY <1>2, SelectFields DEF SpiRanges
<1>3. CASE HandlerEnters
  BY <1>3, EntersFields DEF SpiRanges
<1>4. CASE HandlerDre
  <2>1. Holds(<<Char>>) /\ <<Char>> # <<>>
    BY CharIs, HoldsOne
  <2>2. mod'.remTx \in Nat /\ buf'.sent \in Nat
    <3>1. mod.remTx \in Nat /\ buf.sent \in Nat
      BY DEF SpiRanges
    <3>2. Less(mod.remTx) \in Nat
      BY <3>1 DEF Less
    <3>. QED
      BY <1>4, <3>1, <3>2, DreFields
  <2>3. Holds(hw'.shift) /\ Holds(hw'.data) /\ (hw'.data # <<>> => hw'.shift # <<>>)
    <3>1. Holds(hw.shift) /\ Holds(hw.data) /\ (hw.data # <<>> => hw.shift # <<>>)
      BY DEF SpiRanges
    <3>2. \/ UNCHANGED hw
          \/ hw.shift = <<>> /\ hw'.shift = <<Char>> /\ hw'.data = hw.data
          \/ hw.shift # <<>> /\ hw'.shift = hw.shift /\ hw'.data = <<Char>>
      BY <1>4, DreFields, SMT
    <3>. QED
      BY <2>1, <3>1, <3>2
  <2>. QED
    BY <1>4, <2>2, <2>3, DreFields DEF SpiRanges
<1>5. CASE HandlerRxc
  <2>1. IsFifo(hw'.fifo) /\ IsGot(buf'.got)
    <3>1. CASE "RXC" \notin irq.st \/ hw.ovf
      BY <1>5, <3>1, RxcFields DEF SpiRanges
    <3>2. CASE "RXC" \in irq.st /\ ~hw.ovf
      <4>1. hw.fifo # <<>>
        BY <1>5, <3>2, RxcFields DEF SpiControl
      <4>2. IsFifo(Tail(hw.fifo)) /\ Head(hw.fifo) \in Nat
        BY <4>1, FifoPop DEF SpiRanges
      <4>3. IsGot(Append(buf.got, Head(hw.fifo)))
        BY <4>2, GotGrows DEF SpiRanges
      <4>. QED
        BY <1>5, <3>2, <4>1, <4>2, <4>3, RxcFields DEF SpiRanges
    <3>. QED
      BY <3>1, <3>2
  <2>. QED
    BY <1>5, <2>1, RxcFields DEF SpiRanges
<1>6. CASE HandlerFlush
  BY <1>6, FlushFields, FifoPop, NoneWaits DEF SpiRanges
<1>7. CASE HandlerTxc
  BY <1>7, TxcFields DEF SpiRanges
<1>8. CASE UserReturns
  BY <1>8, UserFields DEF SpiRanges
<1>9. CASE WriteWait
  <2>1. buf.sent + 1 \in Nat /\ buf.n \in Nat
    BY DEF SpiRanges
  <2>2. Holds(<<<<buf.n, buf.sent + 1>>>>)
    BY <2>1, CharsAre, HoldsOne
  <2>. QED
    BY <1>9, <2>1, <2>2, WriteFields DEF SpiRanges
<1>10. CASE ReadWait
  <2>1. IsFifo(Tail(hw.fifo)) /\ Head(hw.fifo) \in Nat
    BY <1>10, ReadFields, FifoPop DEF SpiRanges
  <2>2. IsGot(Append(buf.got, Head(hw.fifo)))
    BY <2>1, GotGrows DEF SpiRanges
  <2>. QED
    BY <1>10, <2>1, <2>2, ReadFields DEF SpiRanges
<1>11. CASE CompleteWait
  BY <1>11, CompleteFields DEF SpiRanges
<1>12. CASE JobEnds
  BY <1>12, JobEndsFields DEF SpiRanges
<1>13. CASE hal_spi_config
  BY <1>13, ConfigFields DEF SpiRanges
<1>14. CASE hal_spi_enable
  BY <1>14, EnableFields DEF SpiRanges
<1>15. CASE hal_spi_set_txrx_cb
  BY <1>15, SetCbFields DEF SpiRanges
<1>16. CASE hal_spi_disable
  BY <1>16, DisableFields, NoneWaits DEF SpiRanges
<1>17. CASE hal_spi_abort
  BY <1>17, AbortFields DEF SpiRanges
<1>18. CASE hal_spi_slave_set_def_tx_val
  <2>1. Holds(<<Dummy>>)
    BY CharsAre, HoldsOne
  <2>. QED
    BY <1>18, <2>1, DefaultFields DEF SpiRanges
<1>19. ASSUME NEW n \in 1 .. MaxLen, Blocking(n) \/ (hal_spi_tx_val /\ n = 1)
      PROVE  SpiRanges'
  BY <1>19, BlockingFields, NoneWaits, SpiAssumption DEF SpiRanges
<1>20. ASSUME NEW n \in 1 .. MaxLen, NEW t \in BOOLEAN, NEW r \in BOOLEAN, Nonblocking(n, t, r)
      PROVE  SpiRanges'
  BY <1>20, NonblockingFields, NoneWaits, SpiAssumption DEF SpiRanges
<1>21. CASE UNCHANGED spiVars
  BY <1>21 DEF spiVars, SpiRanges
<1>22. 1 \in 1 .. MaxLen
  BY SpiAssumption
<1>. QED
  BY <1>1, <1>2, <1>3, <1>4, <1>5, <1>6, <1>7, <1>8, <1>9, <1>10, <1>11, <1>12, <1>13,
     <1>14, <1>15, <1>16, <1>17, <1>18, <1>19, <1>20, <1>21, <1>22
     DEF SpiNext, Disturb, SpiStep, Handler, Waiting, Calls

LEMMA ControlStep ==
    ASSUME Records, SpiRanges, SpiControl, MasterControl, [SpiNext]_spiVars
    PROVE  SpiControl'
<1>1. CASE Exchange
  BY <1>1, ExchangeFields DEF SpiControl, Polls
<1>2. CASE Select
  BY <1>2, SelectFields DEF SpiControl, Polls
<1>3. CASE HandlerEnters
  <2>1. \A f : f \in irq'.st <=> f \in Flags /\ f \in hw.inten
    BY <1>3, EntersFields
  <2>2. /\ "RXC" \in irq'.st => "RXC" \in hw.inten /\ hw.fifo # <<>>
        /\ "DRE" \in irq'.st => "DRE" \in hw.inten /\ hw.data = <<>>
        /\ irq'.st # {} => \E f : f \in hw.inten /\ f \in Flags
    BY <2>1, FlagsAre
  <2>3. Polls => FALSE
    BY <1>3, <2>2, EntersFields DEF SpiControl, MasterControl, MasterInts, Polls, Flags, INTS
  <2>. QED
    BY <1>3, <2>2, <2>3, EntersFields DEF SpiControl, Polls
<1>4. CASE HandlerDre
  BY <1>4, DreFields DEF SpiControl, Polls
<1>5. CASE HandlerRxc
  BY <1>5, RxcFields DEF SpiControl, Polls
<1>6. CASE HandlerFlush
  BY <1>6, FlushFields DEF SpiControl, Polls
<1>7. CASE HandlerTxc
  BY <1>7, TxcFields DEF SpiControl, Polls
<1>8. CASE UserReturns
  BY <1>8, UserFields DEF SpiControl, Polls, SpiRanges
<1>9. CASE WriteWait
  BY <1>9, WriteFields DEF SpiControl, Polls
<1>10. CASE ReadWait
  BY <1>10, ReadFields DEF SpiControl, Polls, MasterControl, MasterInts
<1>11. CASE CompleteWait
  BY <1>11, CompleteFields DEF SpiControl, Polls, MasterControl, MasterInts
<1>12. CASE JobEnds
  BY <1>12, JobEndsFields DEF SpiControl, Polls
<1>13. CASE hal_spi_config
  BY <1>13, ConfigFields DEF SpiControl, Polls
<1>14. CASE hal_spi_enable
  BY <1>14, EnableFields DEF SpiControl, Polls
<1>15. CASE hal_spi_set_txrx_cb
  BY <1>15, SetCbFields DEF SpiControl, Polls
<1>16. CASE hal_spi_disable
  BY <1>16, DisableFields DEF SpiControl, Polls
<1>17. CASE hal_spi_abort
  BY <1>17, AbortFields DEF SpiControl, Polls
<1>18. CASE hal_spi_slave_set_def_tx_val
  BY <1>18, DefaultFields DEF SpiControl, Polls
<1>19. ASSUME NEW n \in 1 .. MaxLen, Blocking(n) \/ (hal_spi_tx_val /\ n = 1)
      PROVE  SpiControl'
  BY <1>19, BlockingFields DEF SpiControl, Polls
<1>20. ASSUME NEW n \in 1 .. MaxLen, NEW t \in BOOLEAN, NEW r \in BOOLEAN, Nonblocking(n, t, r)
      PROVE  SpiControl'
  BY <1>20, NonblockingFields DEF SpiControl, Polls
<1>21. CASE UNCHANGED spiVars
  BY <1>21 DEF spiVars, SpiControl, Polls
<1>22. 1 \in 1 .. MaxLen
  BY SpiAssumption
<1>. QED
  BY <1>1, <1>2, <1>3, <1>4, <1>5, <1>6, <1>7, <1>8, <1>9, <1>10, <1>11, <1>12, <1>13,
     <1>14, <1>15, <1>16, <1>17, <1>18, <1>19, <1>20, <1>21, <1>22
     DEF SpiNext, Disturb, SpiStep, Handler, Waiting, Calls

LEMMA IntsStep ==
    ASSUME Records, SpiRanges, SpiControl, MasterControl, [SpiNext]_spiVars
    PROVE  MasterInts'
<1>1. CASE Exchange
  BY <1>1, ExchangeFields DEF MasterControl, MasterInts, MasterCount, SpiControl, Polls
<1>2. CASE Select
  BY <1>2, SelectFields DEF MasterControl, MasterInts, MasterCount, SpiControl, Polls
<1>3. CASE HandlerEnters
  BY <1>3, EntersFields DEF MasterControl, MasterInts, MasterCount, SpiControl, Polls
<1>4. CASE HandlerDre
  BY <1>4, DreFields DEF MasterControl, MasterInts, MasterCount, SpiControl, Polls
<1>5. CASE HandlerRxc
  <2>1. CASE "RXC" \notin irq.st
    BY <1>5, <2>1, RxcFields DEF MasterControl, MasterInts, Polls
  <2>2. CASE "RXC" \in irq.st /\ hw.ovf
    BY <1>5, <2>2, RxcFields DEF MasterControl, MasterInts, SpiControl, Polls
  <2>3. CASE "RXC" \in irq.st /\ ~hw.ovf /\ ~(mod.rx /\ mod.remRx - 1 = 0)
    BY <1>5, <2>3, RxcFields DEF MasterControl, MasterInts, SpiControl, Polls
  <2>4. CASE "RXC" \in irq.st /\ ~hw.ovf /\ mod.rx /\ mod.remRx - 1 = 0
    <3>1. hal.master => "DRE" \notin hw.inten
      BY <1>5, <2>4, RxcFields DEF MasterControl, MasterInts, MasterCount, SpiRanges
    <3>. QED
      BY <1>5, <2>4, <3>1, RxcFields DEF MasterControl, MasterInts, SpiControl, Polls
  <2>. QED
    BY <2>1, <2>2, <2>3, <2>4
<1>6. CASE HandlerFlush
  BY <1>6, FlushFields DEF MasterControl, MasterInts, MasterCount, SpiControl, Polls
<1>7. CASE HandlerTxc
  BY <1>7, TxcFields DEF MasterControl, MasterInts, MasterCount, SpiControl, Polls
<1>8. CASE UserReturns
  BY <1>8, UserFields DEF MasterControl, MasterInts, MasterCount, SpiControl, Polls
<1>9. CASE WriteWait
  BY <1>9, WriteFields DEF MasterControl, MasterInts, MasterCount, SpiControl, Polls
<1>10. CASE ReadWait
  BY <1>10, ReadFields DEF MasterControl, MasterInts, MasterCount, SpiControl, Polls
<1>11. CASE CompleteWait
  BY <1>11, CompleteFields DEF MasterControl, MasterInts, MasterCount, SpiControl, Polls
<1>12. CASE JobEnds
  BY <1>12, JobEndsFields DEF MasterControl, MasterInts, MasterCount, SpiControl, Polls
<1>13. CASE hal_spi_config
  BY <1>13, ConfigFields DEF MasterControl, MasterInts, MasterCount, SpiControl, Polls
<1>14. CASE hal_spi_enable
  BY <1>14, EnableFields DEF MasterControl, MasterInts, MasterCount, SpiControl, Polls
<1>15. CASE hal_spi_set_txrx_cb
  BY <1>15, SetCbFields DEF MasterControl, MasterInts, MasterCount, SpiControl, Polls
<1>16. CASE hal_spi_disable
  BY <1>16, DisableFields DEF MasterControl, MasterInts, MasterCount, SpiControl, Polls
<1>17. CASE hal_spi_abort
  BY <1>17, AbortFields DEF MasterControl, MasterInts, MasterCount, SpiControl, Polls
<1>18. CASE hal_spi_slave_set_def_tx_val
  BY <1>18, DefaultFields DEF MasterControl, MasterInts, MasterCount, SpiControl, Polls
<1>19. ASSUME NEW n \in 1 .. MaxLen, Blocking(n) \/ (hal_spi_tx_val /\ n = 1)
      PROVE  MasterInts'
  BY <1>19, BlockingFields DEF MasterControl, MasterInts, MasterCount, SpiControl, Polls
<1>20. ASSUME NEW n \in 1 .. MaxLen, NEW t \in BOOLEAN, NEW r \in BOOLEAN, Nonblocking(n, t, r)
      PROVE  MasterInts'
  <2>1. mod.status # "BUSY" /\ ~Polls
    BY <1>20, NonblockingFields DEF SpiControl, Polls
  <2>2. CASE UNCHANGED <<mod, buf, hw, pc>> /\ ~mod.receiver
    BY <1>20, <2>1, <2>2, NonblockingFields DEF MasterControl, MasterInts, Polls
  <2>3. CASE mod.receiver
    <3>1. /\ mod'.tx = t /\ mod'.rx = r /\ hal'.xfer /\ hal'.master = hal.master /\ (hal.master => t)
          /\ mod'.receiver /\ mod'.dummy = mod.dummy /\ pc' \in {pc, "job"}
          /\ hal.master => hw'.inten = hw.inten \cup {"DRE", "RXC"}
      BY <1>20, <2>1, <2>3, NonblockingFields
    <3>. QED
      BY <2>1, <2>3, <3>1 DEF MasterControl, MasterInts, Polls
  <2>. QED
    BY <1>20, <2>1, <2>2, <2>3, NonblockingFields
<1>21. CASE UNCHANGED spiVars
  BY <1>21 DEF spiVars, MasterControl, MasterInts, MasterCount, SpiControl, Polls
<1>22. 1 \in 1 .. MaxLen
  BY SpiAssumption
<1>. QED
  BY <1>1, <1>2, <1>3, <1>4, <1>5, <1>6, <1>7, <1>8, <1>9, <1>10, <1>11, <1>12, <1>13,
     <1>14, <1>15, <1>16, <1>17, <1>18, <1>19, <1>20, <1>21, <1>22
     DEF SpiNext, Disturb, SpiStep, Handler, Waiting, Calls

LEMMA PipeStep ==
    ASSUME Records, SpiRanges, SpiControl, MasterControl, [SpiNext]_spiVars
    PROVE  MasterPipe'
<1>a. /\ Len(hw.fifo) \in Nat /\ Len(hw.fifo) <= 2 /\ (Len(hw.fifo) = 0 <=> hw.fifo = <<>>)
      /\ hw.data # <<>> => hw.shift # <<>>
  BY FifoLen DEF SpiRanges
<1>f. Len(hw.fifo) \in Nat /\ Len(hw.fifo) <= 2
  BY <1>a, Zenon
<1>b. hw.fifo # <<>> => Len(Tail(hw.fifo)) = Len(hw.fifo) - 1
  BY FifoPop DEF SpiRanges
<1>d. /\ Size(hw.shift) \in Nat /\ Size(hw.shift) <= 1 /\ (Size(hw.shift) = 0 <=> hw.shift = <<>>)
      /\ Size(hw.data) \in Nat /\ Size(hw.data) <= 1 /\ (Size(hw.data) = 0 <=> hw.data = <<>>)
  BY Sizes
<1>e. /\ Size(hw'.shift) \in Nat /\ Size(hw'.shift) <= 1 /\ (Size(hw'.shift) = 0 <=> hw'.shift = <<>>)
      /\ Size(hw'.data) \in Nat /\ Size(hw'.data) <= 1 /\ (Size(hw'.data) = 0 <=> hw'.data = <<>>)
  BY Sizes
<1>c. Pipe \in Nat
  BY <1>a, <1>d DEF Pipe
<1>1. CASE Exchange
  <2>1. Len(hw'.fifo) \in {2, Len(hw.fifo) + 1}
    <3>1. Len(hw.fifo) < 2 => Len(Append(hw.fifo, Len(wire) + 1)) = Len(hw.fifo) + 1
      BY PushLen DEF SpiRanges
    <3>2. CASE Len(hw.fifo) < 2
      BY <1>1, <3>1, <3>2, ExchangeFields
    <3>3. CASE Len(hw.fifo) = 2
      BY <1>1, <3>3, ExchangeFields
    <3>4. Len(hw.fifo) < 2 \/ Len(hw.fifo) = 2
      <4>1. \A k \in Nat : k <= 2 => k < 2 \/ k = 2
        OBVIOUS
      <4>. QED
        BY <1>f, <4>1, Zenon
    <3>. QED
      BY <3>2, <3>3, <3>4, Zenon
  <2>2. hal.master => Pipe' \in Nat /\ Pipe' <= Pipe
    BY <1>1, <2>1, <1>a, <1>d, <1>e, ExchangeFields DEF Pipe
  <2>. QED
    BY <1>1, <1>c, <2>2, ExchangeFields DEF MasterControl, MasterPipe, Third
<1>2. CASE Select
  BY <1>2, SelectFields, <1>a DEF MasterControl, MasterPipe, Polls, Third, Pipe
<1>3. CASE HandlerEnters
  <2>1. /\ "RXC" \in irq'.st <=> "RXC" \in hw.inten /\ hw.fifo # <<>>
        /\ "DRE" \in irq'.st <=> "DRE" \in hw.inten /\ hw.data = <<>>
    BY <1>3, EntersFields, FlagsAre
  <2>2. hal.master => Pipe <= 2
    <3>1. \E fl \in INTS : fl \in hw.inten
      BY <1>3, EntersFields DEF Flags
    <3>2. hal.master => pc # "read"
      BY <3>1 DEF INTS, MasterControl, MasterInts, Polls
    <3>3. irq.at = "none"
      BY <1>3, EntersFields
    <3>. QED
      BY <1>c, <3>2, <3>3 DEF MasterControl, MasterPipe, Third
  <2>3. hal.master /\ "DRE" \in irq'.st /\ "RXC" \notin irq'.st => Pipe <= 1
    BY <1>a, <1>d, <2>1 DEF MasterControl, MasterInts, Pipe
  <2>4. hal.master /\ "RXC" \in irq'.st /\ "DRE" \in hw.inten => "DRE" \in irq'.st
    BY <1>a, <1>d, <2>1, <2>2 DEF Pipe
  <2>5. Pipe' = Pipe
    BY <1>3, EntersFields DEF Pipe
  <2>. QED
    BY <1>3, <1>c, <2>2, <2>3, <2>4, <2>5, EntersFields DEF MasterPipe, Third
<1>4. CASE HandlerDre
  <2>1. CASE "DRE" \notin irq.st
    BY <1>4, <1>c, <2>1, DreFields DEF MasterControl, MasterPipe, Third, Pipe
  <2>2. CASE "DRE" \in irq.st
    <3>1. hw.data = <<>> /\ hw'.fifo = hw.fifo
      BY <1>4, <2>2, DreFields DEF SpiControl
    <3>2. \/ hw.shift = <<>> /\ hw'.shift = <<Char>> /\ hw'.data = hw.data
          \/ hw.shift # <<>> /\ hw'.shift = hw.shift /\ hw'.data = <<Char>>
      BY <1>4, <2>2, DreFields, SMT
    <3>3. Pipe' = Pipe + 1
      <4>1. <<Char>> # <<>>
        BY CharIs, HoldsOne
      <4>2. hw'.shift # <<>> /\ (hw'.data = <<>> <=> hw.shift = <<>>)
        BY <3>1, <3>2, <4>1
      <4>. QED
        BY <1>a, <1>d, <1>e, <3>1, <4>2 DEF Pipe
    <3>4. irq.at = "dre" /\ irq'.at = "rxc" /\ irq'.st = irq.st /\ UNCHANGED <<hal, pc>>
      BY <1>4, DreFields
    <3>5. hal.master => pc # "read"
      BY <3>4 DEF SpiControl, Polls
    <3>. QED
      BY <1>c, <2>2, <3>3, <3>4, <3>5 DEF MasterControl, MasterPipe, Third
  <2>. QED
    BY <2>1, <2>2
<1>5. CASE HandlerRxc
  <2>1. CASE "RXC" \notin irq.st
    BY <1>5, <1>c, <2>1, RxcFields DEF MasterControl, MasterPipe, Third, Pipe
  <2>2. CASE "RXC" \in irq.st /\ hw.ovf
    <3>1. Pipe' = Pipe /\ hal'.master = hal.master /\ pc' = pc
      BY <1>5, <2>2, RxcFields DEF Pipe
    <3>2. \/ irq'.at = "user" /\ irq'.next = "flush"
          \/ irq'.at = "flush"
      BY <1>5, <2>2, RxcFields
    <3>. QED
      BY <1>c, <3>1, <3>2 DEF MasterControl, MasterPipe, Third
  <2>3. CASE "RXC" \in irq.st /\ ~hw.ovf
    <3>1. hw.fifo # <<>>
      BY <1>5, <2>3, RxcFields DEF SpiControl
    <3>2. hw'.fifo = Tail(hw.fifo) /\ hw'.shift = hw.shift /\ hw'.data = hw.data
      BY <1>5, <2>3, <3>1, RxcFields
    <3>3. Pipe' = Pipe - 1
      BY <1>a, <1>d, <1>e, <1>b, <3>1, <3>2 DEF Pipe
    <3>4. hal'.master = hal.master /\ irq'.at \in {"user", "txc"}
      BY <1>5, <2>3, RxcFields
    <3>5. hal.master => Pipe <= 3 /\ Pipe' \in Nat
      BY <1>a, <1>d, <1>e, <1>c, <3>1, <3>3 DEF MasterControl, MasterPipe, Pipe
    <3>. QED
      BY <1>c, <3>3, <3>4, <3>5 DEF MasterPipe
  <2>. QED
    BY <2>1, <2>2, <2>3
<1>6. CASE HandlerFlush
  <2>1. /\ hw.fifo # <<>> => Len(hw'.fifo) = Len(hw.fifo) - 1
        /\ hw.fifo = <<>> => Len(hw'.fifo) = 0
        /\ Size(hw'.shift) = Size(hw.shift) /\ Size(hw'.data) = Size(hw.data)
    BY <1>6, <1>b, FlushFields, NoneWaits
  <2>2. hal.master => Pipe' \in Nat /\ Pipe' <= 2
    BY <1>a, <1>d, <2>1 DEF Pipe, MasterControl, MasterPipe
  <2>. QED
    BY <1>6, <2>2, FlushFields DEF MasterPipe
<1>7. CASE HandlerTxc
  BY <1>7, TxcFields, <1>a DEF MasterControl, MasterPipe, Polls, Third, Pipe
<1>8. CASE UserReturns
  <2>1. Pipe' = Pipe
    BY <1>8, UserFields DEF Pipe
  <2>. QED
    BY <1>8, <1>c, <2>1, UserFields DEF MasterControl, MasterPipe, Third, SpiRanges
<1>9. CASE WriteWait
  <2>1. hw.data = <<>> /\ hw'.shift # <<>> /\ (hw'.data = <<>> <=> hw.shift = <<>>) /\ hw'.fifo = hw.fifo
    <3>1. <<<<buf.n, buf.sent + 1>>>> # <<>>
      OBVIOUS
    <3>. QED
      BY <1>9, <3>1, WriteFields
  <2>2. Pipe' = Pipe + 1
    BY <1>a, <1>d, <1>e, <2>1 DEF Pipe
  <2>. QED
    BY <1>9, <1>c, <2>2, WriteFields DEF MasterControl, MasterPipe, Third
<1>10. CASE ReadWait
  <2>1. hw.fifo # <<>> /\ hw'.fifo = Tail(hw.fifo) /\ hw'.shift = hw.shift /\ hw'.data = hw.data
    BY <1>10, ReadFields
  <2>2. Pipe' = Pipe - 1 /\ Pipe' \in Nat
    BY <1>a, <1>b, <1>d, <1>e, <2>1 DEF Pipe
  <2>. QED
    <3>1. hal'.master = hal.master /\ irq'.at = "none"
      BY <1>10, ReadFields
    <3>. QED
      BY <1>c, <2>2, <3>1 DEF MasterControl, MasterPipe
<1>11. CASE CompleteWait
  BY <1>11, CompleteFields, <1>a DEF MasterControl, MasterPipe, Polls, Third, Pipe
<1>12. CASE JobEnds
  BY <1>12, JobEndsFields, <1>a DEF MasterControl, MasterPipe, Polls, Third, Pipe
<1>13. CASE hal_spi_config
  BY <1>13, ConfigFields, <1>a DEF MasterControl, MasterPipe, Polls, Third, Pipe
<1>14. CASE hal_spi_enable
  BY <1>14, EnableFields, <1>a DEF MasterControl, MasterPipe, Polls, Third, Pipe
<1>15. CASE hal_spi_set_txrx_cb
  BY <1>15, SetCbFields, <1>a DEF MasterControl, MasterPipe, Polls, Third, Pipe
<1>16. CASE hal_spi_disable
  <2>1. Pipe' \in Nat /\ Pipe' <= 2
    BY <1>16, <1>a, <1>d, <1>e, DisableFields, NoneWaits DEF Pipe
  <2>. QED
    BY <1>16, <2>1, DisableFields DEF MasterPipe
<1>17. CASE hal_spi_abort
  BY <1>17, AbortFields, <1>a DEF MasterControl, MasterPipe, Polls, Third, Pipe
<1>18. CASE hal_spi_slave_set_def_tx_val
  BY <1>18, DefaultFields, <1>a DEF MasterControl, MasterPipe, Polls, Third, Pipe
<1>19. ASSUME NEW n \in 1 .. MaxLen, Blocking(n) \/ (hal_spi_tx_val /\ n = 1)
      PROVE  MasterPipe'
  BY <1>19, BlockingFields, <1>a DEF MasterControl, MasterPipe, Polls, Third, Pipe
<1>20. ASSUME NEW n \in 1 .. MaxLen, NEW t \in BOOLEAN, NEW r \in BOOLEAN, Nonblocking(n, t, r)
      PROVE  MasterPipe'
  <2>1. hw'.shift = hw.shift /\ hw'.data = hw.data /\ hw'.fifo = hw.fifo /\ hal'.master = hal.master
    BY <1>20, NonblockingFields
  <2>2. UNCHANGED irq /\ pc' \in {pc, "job"} /\ pc # "read" /\ irq.at \in {"none", "user"}
    BY <1>20, NonblockingFields DEF SpiControl, Polls
  <2>3. Pipe' = Pipe
    BY <2>1 DEF Pipe
  <2>. QED
    BY <1>c, <2>1, <2>2, <2>3 DEF MasterControl, MasterPipe, Third
<1>21. CASE UNCHANGED spiVars
  BY <1>21, <1>a DEF spiVars, MasterControl, MasterPipe, Polls, Third, Pipe
<1>22. 1 \in 1 .. MaxLen
  BY SpiAssumption
<1>. QED
  BY <1>1, <1>2, <1>3, <1>4, <1>5, <1>6, <1>7, <1>8, <1>9, <1>10, <1>11, <1>12, <1>13,
     <1>14, <1>15, <1>16, <1>17, <1>18, <1>19, <1>20, <1>21, <1>22
     DEF SpiNext, Disturb, SpiStep, Handler, Waiting, Calls

LEMMA CountStep ==
    ASSUME Records, SpiRanges, SpiControl, MasterControl, [SpiNext]_spiVars
    PROVE  MasterCount'
<1>1. CASE Exchange
  BY <1>1, ExchangeFields DEF MasterControl, MasterInts, MasterCount, SpiControl, Polls, SpiRanges
<1>2. CASE Select
  BY <1>2, SelectFields DEF MasterControl, MasterInts, MasterCount, SpiControl, Polls, SpiRanges
<1>3. CASE HandlerEnters
  BY <1>3, EntersFields DEF MasterControl, MasterInts, MasterCount, SpiControl, Polls, SpiRanges
<1>4. CASE HandlerDre
  <2>1. CASE "DRE" \notin irq.st
    <3>1. hal.master /\ "DRE" \in hw.inten => "RXC" \notin irq.st
      BY <1>4, <2>1, DreFields DEF MasterControl, MasterPipe
    <3>. QED
      BY <1>4, <2>1, <3>1, DreFields DEF MasterControl, MasterCount
  <2>2. CASE "DRE" \in irq.st /\ ~mod.tx
    BY <1>4, <2>2, DreFields DEF MasterCount
  <2>3. CASE "DRE" \in irq.st /\ mod.tx /\ hal.master
    <3>1. /\ "DRE" \in hw.inten /\ buf.sent < buf.len /\ mod.remTx = buf.len - buf.sent
          /\ mod.rx => mod.remRx >= mod.remTx
      BY <1>4, <2>3, DreFields DEF SpiControl, MasterControl, MasterCount
    <3>2. /\ buf.sent \in Nat /\ buf.len \in Nat /\ buf.len < 65536 /\ mod.remRx \in Int
          /\ ~mod.dummy
      BY <2>3, SpiAssumption DEF SpiRanges, SpiControl, MasterControl, MasterInts
    <3>3. Less(mod.remTx) = mod.remTx - 1
      BY <3>1, <3>2 DEF Less
    <3>4. /\ mod'.remTx = mod.remTx - 1 /\ buf'.sent = buf.sent + 1 /\ buf'.len = buf.len
          /\ mod'.remTx = 0 => hw'.inten = hw.inten \ {"DRE"}
          /\ mod'.remRx = mod.remRx /\ mod'.rx = mod.rx
      <4>1. /\ mod'.remTx = Less(mod.remTx) /\ buf'.sent = buf.sent + 1 /\ buf'.len = buf.len
            /\ mod'.remRx = mod.remRx /\ mod'.rx = mod.rx
        BY <1>4, <2>3, DreFields
      <4>2. mod'.remTx = 0 => hw'.inten = hw.inten \ {"DRE"}
        <5>1. ~mod.dummy
          BY <3>2
        <5>. QED
          BY <1>4, <2>3, <5>1, DreFields, Zenon
      <4>. QED
        BY <3>3, <4>1, <4>2
    <3>5. mod'.remTx = buf'.len - buf'.sent /\ (mod.rx => mod'.remRx > mod'.remTx)
      BY <3>1, <3>2, <3>4
    <3>6. "DRE" \in hw'.inten => buf'.sent < buf'.len
      BY <3>1, <3>2, <3>4
    <3>. QED
      BY <3>2, <3>4, <3>5, <3>6 DEF MasterCount
  <2>. QED
    BY <1>4, <2>1, <2>2, <2>3, DreFields DEF MasterCount
<1>5. CASE HandlerRxc
  <2>1. CASE "RXC" \notin irq.st
    BY <1>5, <2>1, RxcFields DEF MasterControl, MasterCount
  <2>2. CASE "RXC" \in irq.st /\ hw.ovf
    BY <1>5, <2>2, RxcFields DEF MasterControl, MasterInts, MasterCount, SpiControl
  <2>3. CASE "RXC" \in irq.st /\ ~hw.ovf
    <3>1. /\ mod'.tx = mod.tx /\ mod'.rx = mod.rx /\ mod'.remTx = mod.remTx /\ irq'.at # "rxc"
          /\ mod.rx => mod'.remRx = mod.remRx - 1
          /\ "DRE" \in hw'.inten => "DRE" \in hw.inten
          /\ buf'.sent = buf.sent /\ buf'.len = buf.len /\ hal'.master = hal.master
      BY <1>5, <2>3, RxcFields
    <3>2. mod.remTx \in Nat /\ mod.remRx \in Int
      BY DEF SpiRanges
    <3>. QED
      BY <1>5, <2>3, <3>1, <3>2, RxcFields DEF MasterControl, MasterCount
  <2>. QED
    BY <2>1, <2>2, <2>3
<1>6. CASE HandlerFlush
  BY <1>6, FlushFields DEF MasterControl, MasterInts, MasterCount, SpiControl, Polls, SpiRanges
<1>7. CASE HandlerTxc
  BY <1>7, TxcFields DEF MasterControl, MasterInts, MasterCount, SpiControl, Polls, SpiRanges
<1>8. CASE UserReturns
  BY <1>8, UserFields DEF MasterControl, MasterInts, MasterCount, SpiControl, Polls, SpiRanges
<1>9. CASE WriteWait
  BY <1>9, WriteFields DEF MasterControl, MasterInts, MasterCount, SpiControl, Polls, SpiRanges
<1>10. CASE ReadWait
  BY <1>10, ReadFields DEF MasterControl, MasterInts, MasterCount, SpiControl, Polls, SpiRanges
<1>11. CASE CompleteWait
  BY <1>11, CompleteFields DEF MasterControl, MasterInts, MasterCount, SpiControl, Polls, SpiRanges
<1>12. CASE JobEnds
  BY <1>12, JobEndsFields DEF MasterControl, MasterInts, MasterCount, SpiControl, Polls, SpiRanges
<1>13. CASE hal_spi_config
  BY <1>13, ConfigFields DEF MasterControl, MasterInts, MasterCount, SpiControl, Polls, SpiRanges
<1>14. CASE hal_spi_enable
  BY <1>14, EnableFields DEF MasterControl, MasterInts, MasterCount, SpiControl, Polls, SpiRanges
<1>15. CASE hal_spi_set_txrx_cb
  BY <1>15, SetCbFields DEF MasterControl, MasterInts, MasterCount, SpiControl, Polls, SpiRanges
<1>16. CASE hal_spi_disable
  BY <1>16, DisableFields DEF MasterControl, MasterInts, MasterCount, SpiControl, Polls, SpiRanges
<1>17. CASE hal_spi_abort
  BY <1>17, AbortFields DEF MasterControl, MasterInts, MasterCount, SpiControl, Polls, SpiRanges
<1>18. CASE hal_spi_slave_set_def_tx_val
  BY <1>18, DefaultFields DEF MasterControl, MasterInts, MasterCount, SpiControl, Polls, SpiRanges
<1>19. ASSUME NEW n \in 1 .. MaxLen, Blocking(n) \/ (hal_spi_tx_val /\ n = 1)
      PROVE  MasterCount'
  BY <1>19, BlockingFields DEF MasterControl, MasterInts, MasterCount, SpiControl, Polls, SpiRanges
<1>20. ASSUME NEW n \in 1 .. MaxLen, NEW t \in BOOLEAN, NEW r \in BOOLEAN, Nonblocking(n, t, r)
      PROVE  MasterCount'
  <2>1. irq'.at # "rxc" /\ hal'.master = hal.master /\ n \in Nat /\ n > 0
    BY <1>20, NonblockingFields, SpiAssumption
  <2>2. CASE UNCHANGED <<mod, buf, hw>>
    BY <1>20, <2>1, <2>2, NonblockingFields DEF MasterControl, MasterCount
  <2>3. CASE ~UNCHANGED <<mod, buf, hw>>
    <3>1. /\ mod'.rx = r /\ mod'.tx = t /\ mod'.remRx = (IF r THEN n ELSE 0)
          /\ mod'.remTx = (IF t THEN n ELSE 0) /\ buf'.len = n /\ buf'.sent = 0
      BY <1>20, <2>3, NonblockingFields
    <3>. QED
      BY <2>1, <3>1 DEF MasterCount
  <2>. QED
    BY <2>2, <2>3
<1>21. CASE UNCHANGED spiVars
  BY <1>21 DEF spiVars, MasterControl, MasterInts, MasterCount, SpiControl, Polls, SpiRanges
<1>22. 1 \in 1 .. MaxLen
  BY SpiAssumption
<1>. QED
  BY <1>1, <1>2, <1>3, <1>4, <1>5, <1>6, <1>7, <1>8, <1>9, <1>10, <1>11, <1>12, <1>13,
     <1>14, <1>15, <1>16, <1>17, <1>18, <1>19, <1>20, <1>21, <1>22
     DEF SpiNext, Disturb, SpiStep, Handler, Waiting, Calls

\* The inductive invariant of the control.
SpiInv == Records /\ SpiRanges /\ SpiControl /\ MasterControl

LEMMA SpiStart == SpiInit => SpiInv
<1>. SUFFICES ASSUME SpiInit PROVE SpiInv
  OBVIOUS
<1>1. PICK m \in BOOLEAN : hal = [master |-> m, xfer |-> FALSE, cb |-> FALSE]
  BY DEF SpiInit
<1>2. Records
  BY <1>1 DEF SpiInit, Records, HalRec, ModRec, BufRec, HwRec, IrqRec, NoIrq
<1>3. SpiRanges
  <2>1. 0 \in 0 .. MaxLen
    BY SpiAssumption
  <2>. QED
    BY <2>1, NoneWaits DEF SpiInit, SpiRanges, NoIrq
<1>4. SpiControl
  BY <1>1 DEF SpiInit, SpiControl, Polls, NoIrq
<1>5. MasterControl
  <2>1. Pipe = 0
    BY NoneWaits DEF SpiInit, Pipe, Size
  <2>2. MasterInts
    BY <1>1 DEF SpiInit, MasterInts, Polls
  <2>3. MasterPipe
    BY <2>1 DEF SpiInit, MasterPipe, NoIrq
  <2>4. MasterCount
    BY DEF SpiInit, MasterCount
  <2>. QED
    BY <2>2, <2>3, <2>4 DEF MasterControl
<1>. QED
  BY <1>2, <1>3, <1>4, <1>5 DEF SpiInv

LEMMA SpiKeeps ==
    ASSUME SpiInv, [SpiNext]_spiVars
    PROVE  SpiInv'
  BY RecordsStep, RangesStep, ControlStep, IntsStep, PipeStep, CountStep DEF SpiInv, MasterControl

\* What hal_spi_tx_val asserts: while HAL_SPI_XFER is clear the driver is not
\* BUSY, whatever is called from the callback or aborted, for every length.
THEOREM SpiFreeIsIdle == SpiSpec => []FreeIsIdle
<1>1. SpiInv => FreeIsIdle
  BY DEF SpiInv, SpiControl, FreeIsIdle
<1>. QED
  BY <1>1, SpiStart, SpiKeeps, PTL DEF SpiSpec

\* Only HandlerDre takes a character from the buffer while the handler is there.
LEMMA OwnedStep ==
    ASSUME SpiInv, [SpiNext]_spiVars, hal.master, irq.at = "dre", buf'.sent > buf.sent
    PROVE  hal.xfer /\ buf.sent < buf.len
<1>a. Records /\ buf.sent \in Nat
  BY DEF SpiInv, SpiRanges
<1>b. ~(buf.sent > buf.sent)
  BY <1>a
<1>c. buf'.sent # buf.sent
  BY <1>b
<1>4. CASE HandlerDre
  <2>1. "DRE" \in irq.st /\ mod.tx
    BY <1>4, <1>a, <1>c, DreFields
  <2>. QED
    BY <2>1 DEF SpiInv, SpiControl, MasterControl, MasterInts, MasterCount
<1>5. irq.at # "none" /\ irq.at # "user" /\ ~Polls
  BY DEF SpiInv, SpiControl
<1>6. ~Waiting /\ ~InTask /\ ~CanCall
  BY <1>5 DEF Waiting, WriteWait, ReadWait, CompleteWait, JobEnds, InTask, CanCall
<1>7. ~Disturb /\ ~Calls
  BY <1>6 DEF Disturb, hal_spi_disable, hal_spi_abort, hal_spi_slave_set_def_tx_val, Calls,
     hal_spi_config, hal_spi_enable, hal_spi_set_txrx_cb, hal_spi_tx_val, Blocking, Nonblocking
<1>8. ASSUME Exchange \/ Select \/ HandlerEnters \/ HandlerRxc \/ HandlerFlush \/ HandlerTxc \/ UserReturns
              \/ UNCHANGED spiVars
      PROVE  FALSE
  BY <1>8, <1>c DEF Exchange, Select, HandlerEnters, HandlerRxc, HandlerFlush, HandlerTxc, UserReturns, spiVars
<1>. QED
  BY <1>4, <1>6, <1>7, <1>8 DEF SpiNext, SpiStep, Handler

\* The interrupt handler of a master reads the transmit buffer only inside it and
\* only while the transfer is going on.
THEOREM SpiBuffersOwned == SpiSpec => BuffersOwned
<1>1. SpiInv /\ [SpiNext]_spiVars =>
        [hal.master /\ irq.at = "dre" /\ buf'.sent > buf.sent => hal.xfer /\ buf.sent < buf.len]_spiVars
  BY OwnedStep
<1>. QED
  BY <1>1, SpiStart, SpiKeeps, PTL DEF SpiSpec, BuffersOwned

-----------------------------------------------------------------------------
(* The SPI port: its characters *)

\* Nothing has been cut short and nothing lost.
Clean == "cut" \notin seen /\ "overflow" \notin seen

\* What waits has come last.
Chain(f, m) == \A i \in 1 .. Len(f) : f[i] = m - Len(f) + i

\* What a slave has received has no gap.
NoGap(g) == \A i \in 2 .. Len(g) : g[i] = g[i - 1] + 1

\* The first k characters of the transfer n have been exchanged, and nothing since.
Trail(w, n, k) == k <= Len(w) /\ \A j \in 1 .. k : w[Len(w) - k + j] = <<n, j>>

\* What a master has written of transfer n: k characters that have been exchanged,
\* then the one in the shift register, then the one in the data register.
OnWay(n, sent, shift, data, f, w) ==
    \E k \in Nat :
        /\ Trail(w, n, k) /\ sent = k + Size(shift) + Size(data)
        /\ shift # <<>> => shift = <<<<n, k + 1>>>>
        /\ data # <<>> => shift # <<>> /\ data = <<<<n, k + 2>>>>
        /\ Chain(f, Len(w))

\* Each place of the buffer holds what came back for that place.
Owns(g, w, n) == \A i \in 1 .. Len(g) : g[i] \in 1 .. Len(w) /\ w[g[i]] = <<n, i>>

\* Lengths, and how the predicates grow and shrink.
LEMMA WireLen == ASSUME NEW w, IsWire(w) PROVE Len(w) \in Nat
  BY DEF IsWire

LEMMA GotLen == ASSUME NEW g, IsGot(g) PROVE Len(g) \in Nat /\ (Len(g) > 0 => g # <<>>)
<1>1. Len(g) \in Nat
  BY DEF IsGot
<1>2. g = <<>> => Len(g) = 0
  BY NoneWaits
<1>. QED
  BY <1>1, <1>2

LEMMA ChainNone == ASSUME NEW m \in Nat PROVE Chain(<<>>, m)
  BY NoneWaits DEF Chain

LEMMA ChainGrows ==
    ASSUME NEW f, IsFifo(f), Len(f) < 2, NEW m \in Nat, Chain(f, m)
    PROVE  Chain(Append(f, m + 1), m + 1)
<1>1. PICK k \in Nat : k = Len(f)
  BY FifoLen, Zenon
<1>a. PICK q : q = Append(f, m + 1)
  OBVIOUS
<1>2. Len(q) = k + 1 /\ q[k + 1] = m + 1 /\ \A i \in 1 .. k : q[i] = f[i]
  <2>1. m + 1 \in Nat
    OBVIOUS
  <2>2. Len(q) = Len(f) + 1 /\ q[Len(q)] = m + 1 /\ \A i \in 1 .. Len(f) : q[i] = f[i]
    BY <1>a, <2>1, FifoPush, Zenon
  <2>. QED
    BY <1>1, <2>2, Zenon
<1>3. \A i \in 1 .. k : f[i] = m - k + i
  BY <1>1 DEF Chain
<1>4. \A i \in 1 .. k + 1 : q[i] = (m + 1) - (k + 1) + i
  BY <1>2, <1>3
<1>. QED
  BY <1>a, <1>2, <1>4 DEF Chain

LEMMA ChainPops ==
    ASSUME NEW f, IsFifo(f), f # <<>>, NEW m \in Nat, Chain(f, m)
    PROVE  Chain(Tail(f), m) /\ Head(f) = m - Len(f) + 1
<1>1. PICK k \in Nat : k = Len(f) /\ k > 0
  <2>1. \A k \in Nat : k # 0 => k > 0
    OBVIOUS
  <2>. QED
    BY <2>1, FifoLen, Zenon
<1>a. PICK q : q = Tail(f)
  OBVIOUS
<1>2. Len(q) = k - 1 /\ Head(f) = f[1] /\ \A i \in 1 .. k - 1 : q[i] = f[i + 1]
  <2>1. Len(q) = Len(f) - 1 /\ Head(f) = f[1] /\ \A i \in 1 .. Len(q) : q[i] = f[i + 1]
    BY <1>a, FifoPop, Zenon
  <2>. QED
    BY <1>1, <2>1, Zenon
<1>3. \A i \in 1 .. k : f[i] = m - k + i
  BY <1>1 DEF Chain
<1>4. \A i \in 1 .. k - 1 : q[i] = m - (k - 1) + i
  BY <1>2, <1>3
<1>5. Head(f) = m - k + 1
  BY <1>1, <1>2, <1>3
<1>. QED
  BY <1>a, <1>1, <1>2, <1>4, <1>5 DEF Chain

LEMMA NoGapGrows ==
    ASSUME NEW g, IsGot(g), NoGap(g), NEW x \in Nat, g # <<>> => x = g[Len(g)] + 1
    PROVE  /\ NoGap(Append(g, x)) /\ Append(g, x) # <<>>
           /\ Append(g, x)[Len(Append(g, x))] = x
<1>1. PICK k \in Nat : k = Len(g) /\ (k > 0 => g # <<>>)
  BY GotLen, Zenon
<1>a. PICK q : q = Append(g, x)
  OBVIOUS
<1>2. Len(q) = k + 1 /\ q[k + 1] = x /\ \A i \in 1 .. k : q[i] = g[i]
  BY <1>a, <1>1, GotGrows, Zenon
<1>3. \A i \in 2 .. k : g[i] = g[i - 1] + 1
  BY <1>1 DEF NoGap
<1>4. k > 0 => q[k + 1] = q[k] + 1
  BY <1>1, <1>2
<1>5. \A i \in 2 .. k + 1 : q[i] = q[i - 1] + 1
  BY <1>2, <1>3, <1>4
<1>6. q # <<>>
  BY <1>2, NoneWaits
<1>. QED
  BY <1>a, <1>2, <1>5, <1>6 DEF NoGap

LEMMA OwnsLater ==
    ASSUME NEW g, IsGot(g), NEW w, IsWire(w), NEW c \in Chars, NEW n, Owns(g, w, n)
    PROVE  Owns(g, Append(w, c), n)
<1>1. PICK m \in Nat : m = Len(w)
  BY WireLen, Zenon
<1>a. PICK v : v = Append(w, c)
  OBVIOUS
<1>2. Len(v) = m + 1 /\ \A i \in 1 .. m : v[i] = w[i]
  BY <1>a, <1>1, WireGrows, Zenon
<1>3. \A i \in 1 .. Len(g) : g[i] \in 1 .. m /\ w[g[i]] = <<n, i>>
  BY <1>1 DEF Owns
<1>4. \A x : x \in 1 .. m => x \in 1 .. m + 1 /\ v[x] = w[x]
  BY <1>2
<1>5. \A i \in 1 .. Len(g) : g[i] \in 1 .. m + 1 /\ v[g[i]] = <<n, i>>
  BY <1>3, <1>4
<1>. QED
  BY <1>a, <1>2, <1>5 DEF Owns

LEMMA OwnsNone == ASSUME NEW w, NEW n PROVE Owns(<<>>, w, n)
  BY NoneWaits DEF Owns

\* The character that has waited longest belongs to the next place of the buffer.
LEMMA OwnsNext ==
    ASSUME NEW g, IsGot(g), NEW w, IsWire(w), NEW f, IsFifo(f), f # <<>>, NEW n, NEW k \in Nat,
           Owns(g, w, n), Chain(f, Len(w)), Trail(w, n, k), Len(g) + Len(f) = k
    PROVE  /\ Owns(Append(g, Head(f)), w, n) /\ IsGot(Append(g, Head(f)))
           /\ Len(Append(g, Head(f))) = Len(g) + 1 /\ Len(Tail(f)) = Len(f) - 1
<1>1. PICK m \in Nat, a \in Nat, b \in Nat : m = Len(w) /\ a = Len(g) /\ b = Len(f) /\ b > 0 /\ a + b = k
  <2>1. Len(w) \in Nat /\ Len(g) \in Nat
    BY DEF IsWire, IsGot
  <2>2. Len(f) \in Nat /\ Len(f) > 0
    BY FifoLen
  <2>. QED
    BY <2>1, <2>2
<1>a. PICK x : x = Head(f)
  OBVIOUS
<1>2. x = m - b + 1 /\ x \in Nat
  BY <1>a, <1>1, ChainPops, FifoPop, Zenon
<1>3. k <= m /\ \A j \in 1 .. k : w[m - k + j] = <<n, j>>
  BY <1>1 DEF Trail
<1>4. x \in 1 .. m /\ w[x] = <<n, a + 1>>
  <2>1. a + 1 \in 1 .. k /\ m - k + (a + 1) = x
    BY <1>1, <1>2
  <2>2. w[m - k + (a + 1)] = <<n, a + 1>>
    BY <2>1, <1>3
  <2>. QED
    BY <2>1, <2>2, <1>1, <1>2, <1>3
<1>b. PICK q : q = Append(g, x)
  OBVIOUS
<1>5. IsGot(q) /\ Len(q) = a + 1 /\ q[a + 1] = x /\ \A i \in 1 .. a : q[i] = g[i]
  <2>1. IsGot(q) /\ Len(q) = Len(g) + 1 /\ q[Len(g) + 1] = x /\ \A i \in 1 .. Len(g) : q[i] = g[i]
    BY <1>b, <1>2, GotGrows, Zenon
  <2>. QED
    BY <1>1, <2>1, Zenon
<1>6. \A i \in 1 .. a : g[i] \in 1 .. m /\ w[g[i]] = <<n, i>>
  BY <1>1 DEF Owns
<1>7. \A i \in 1 .. a + 1 : q[i] \in 1 .. m /\ w[q[i]] = <<n, i>>
  <2>1. \A i \in 1 .. a + 1 : i \in 1 .. a \/ i = a + 1
    OBVIOUS
  <2>. QED
    BY <1>4, <1>5, <1>6, <2>1, Zenon
<1>8. Len(Tail(f)) = Len(f) - 1
  BY FifoPop
<1>9. Owns(q, w, n)
  BY <1>1, <1>5, <1>7 DEF Owns
<1>. QED
  BY <1>a, <1>b, <1>1, <1>5, <1>8, <1>9, Zenon

LEMMA TrailGrows ==
    ASSUME NEW w, IsWire(w), NEW n \in Nat, NEW k \in Nat, Trail(w, n, k)
    PROVE  Trail(Append(w, <<n, k + 1>>), n, k + 1)
<1>1. PICK m \in Nat : m = Len(w)
  BY WireLen, Zenon
<1>2. PICK c : c = <<n, k + 1>> /\ c \in Chars
  <2>1. k + 1 \in Nat
    OBVIOUS
  <2>. QED
    BY <2>1, CharsAre
<1>a. PICK v : v = Append(w, c)
  OBVIOUS
<1>3. Len(v) = m + 1 /\ v[m + 1] = c /\ \A i \in 1 .. m : v[i] = w[i]
  BY <1>a, <1>1, <1>2, WireGrows, Zenon
<1>4. k <= m /\ \A j \in 1 .. k : w[m - k + j] = <<n, j>>
  BY <1>1 DEF Trail
<1>5. \A j \in 1 .. k : v[m - k + j] = <<n, j>>
  BY <1>3, <1>4
<1>6. \A j \in 1 .. k + 1 : v[(m + 1) - (k + 1) + j] = <<n, j>>
  <2>1. \A j \in 1 .. k : (m + 1) - (k + 1) + j = m - k + j
    OBVIOUS
  <2>2. (m + 1) - (k + 1) + (k + 1) = m + 1
    OBVIOUS
  <2>3. \A j \in 1 .. k + 1 : j \in 1 .. k \/ j = k + 1
    OBVIOUS
  <2>. QED
    BY <1>2, <1>3, <1>5, <2>1, <2>2, <2>3, Zenon
<1>7. k + 1 <= m + 1
  BY <1>4
<1>8. Trail(v, n, k + 1)
  BY <1>3, <1>6, <1>7, Zenon DEF Trail
<1>. QED
  BY <1>a, <1>2, <1>8, Zenon

\* What waits follows on what is in the buffer.
Meets(g, f, m) == g[Len(g)] + Len(f) = m

\* What a slave has received: until a character is lost it comes without a gap.
SlaveIntact ==
    ~hal.master /\ Clean =>
        /\ NoGap(buf.got)
        /\ ~hw.ovf => Chain(hw.fifo, Len(wire))
        /\ mod.rx /\ "RXC" \in hw.inten /\ buf.got # <<>> /\ ~hw.ovf => Meets(buf.got, hw.fifo, Len(wire))

\* What excuses is not forgotten.
LEMMA SeenGrows ==
    ASSUME Records, [SpiNext]_spiVars
    PROVE  seen \subseteq seen' /\ hal'.master = hal.master
<1>1. CASE Exchange
  BY <1>1, ExchangeFields
<1>2. CASE Select
  BY <1>2, SelectFields
<1>3. CASE HandlerEnters
  BY <1>3, EntersFields
<1>4. CASE HandlerDre
  BY <1>4, DreFields
<1>5. CASE HandlerRxc
  BY <1>5, RxcFields
<1>6. CASE HandlerFlush
  BY <1>6, FlushFields
<1>7. CASE HandlerTxc
  BY <1>7, TxcFields
<1>8. CASE UserReturns
  BY <1>8, UserFields
<1>9. CASE WriteWait
  BY <1>9, WriteFields
<1>10. CASE ReadWait
  BY <1>10, ReadFields
<1>11. CASE CompleteWait
  BY <1>11, CompleteFields
<1>12. CASE JobEnds
  BY <1>12, JobEndsFields
<1>13. CASE hal_spi_config
  BY <1>13, ConfigFields
<1>14. CASE hal_spi_enable
  BY <1>14, EnableFields
<1>15. CASE hal_spi_set_txrx_cb
  BY <1>15, SetCbFields
<1>16. CASE hal_spi_disable
  BY <1>16, DisableFields
<1>17. CASE hal_spi_abort
  BY <1>17, AbortFields
<1>18. CASE hal_spi_slave_set_def_tx_val
  BY <1>18, DefaultFields
<1>19. ASSUME NEW n \in 1 .. MaxLen, Blocking(n) \/ (hal_spi_tx_val /\ n = 1)
      PROVE  seen \subseteq seen' /\ hal'.master = hal.master
  BY <1>19, BlockingFields
<1>20. ASSUME NEW n \in 1 .. MaxLen, NEW t \in BOOLEAN, NEW r \in BOOLEAN, Nonblocking(n, t, r)
      PROVE  seen \subseteq seen' /\ hal'.master = hal.master
  BY <1>20, NonblockingFields
<1>21. CASE UNCHANGED spiVars
  BY <1>21 DEF spiVars
<1>22. 1 \in 1 .. MaxLen
  BY SpiAssumption
<1>. QED
  BY <1>1, <1>2, <1>3, <1>4, <1>5, <1>6, <1>7, <1>8, <1>9, <1>10, <1>11, <1>12, <1>13,
     <1>14, <1>15, <1>16, <1>17, <1>18, <1>19, <1>20, <1>21, <1>22
     DEF SpiNext, Disturb, SpiStep, Handler, Waiting, Calls

LEMMA NoGapNone == NoGap(<<>>)
  BY NoneWaits DEF NoGap

\* The next character of a slave, and one more that waits.
LEMMA MeetsNext ==
    ASSUME NEW g, IsGot(g), NEW f, IsFifo(f), f # <<>>, NEW m \in Nat, NoGap(g), Chain(f, m),
           g # <<>> => Meets(g, f, m)
    PROVE  /\ NoGap(Append(g, Head(f))) /\ Chain(Tail(f), m)
           /\ Meets(Append(g, Head(f)), Tail(f), m)
<1>1. PICK k \in Nat : k = Len(f)
  BY FifoLen, Zenon
<1>2. PICK x : x = Head(f)
  OBVIOUS
<1>3. x \in Nat /\ Len(Tail(f)) = k - 1 /\ Chain(Tail(f), m) /\ x = m - k + 1
  BY <1>1, <1>2, FifoPop, ChainPops, Zenon
<1>4. ASSUME g # <<>> PROVE x = g[Len(g)] + 1
  <2>1. g[Len(g)] + k = m /\ g[Len(g)] \in Nat
    BY <1>1, <1>4 DEF Meets, IsGot
  <2>. QED
    BY <2>1, <1>3
<1>5. NoGap(Append(g, x)) /\ Append(g, x)[Len(Append(g, x))] = x
  BY <1>3, <1>4, NoGapGrows
<1>6. x + (k - 1) = m
  BY <1>3
<1>. QED
  BY <1>2, <1>3, <1>5, <1>6, Zenon DEF Meets

LEMMA MeetsLater ==
    ASSUME NEW g, IsGot(g), g # <<>>, NEW f, IsFifo(f), Len(f) < 2, NEW m \in Nat, Meets(g, f, m)
    PROVE  Meets(g, Append(f, m + 1), m + 1)
<1>1. Len(Append(f, m + 1)) = Len(f) + 1
  BY PushLen
<1>2. Len(f) \in Nat
  BY FifoLen
<1>3. g[Len(g)] \in Nat
  BY DEF IsGot
<1>. QED
  BY <1>1, <1>2, <1>3 DEF Meets

\* Only Exchange and HandlerRxc touch what is received; the rest ends a job or
\* starts one.
LEMMA SlaveStep ==
    ASSUME Records, SpiRanges, SpiControl, SlaveIntact, [SpiNext]_spiVars
    PROVE  SlaveIntact'
<1>a. Clean' => Clean
  BY SeenGrows DEF Clean
<1>b. Dummy \in Chars /\ (hw.shift # <<>> => hw.shift[1] \in Chars)
  BY CharsAre, HeldIs DEF SpiRanges
<1>1. CASE Exchange
  <2>0. CASE hal.master
    BY <1>1, <2>0, ExchangeFields DEF SlaveIntact
  <2>1. wire' = Append(wire, IF hw.shift = <<>> THEN Dummy ELSE hw.shift[1])
    BY <1>1, ExchangeFields
  <2>2. Len(wire) \in Nat /\ Len(wire') = Len(wire) + 1
    <3>1. PICK c \in Chars : wire' = Append(wire, c)
      BY <2>1, <1>b, Zenon
    <3>2. IsWire(wire)
      BY DEF SpiRanges
    <3>. QED
      BY <3>1, <3>2, WireGrows, Zenon
  <2>3. CASE Len(hw.fifo) < 2
    <3>1. hw'.fifo = Append(hw.fifo, Len(wire) + 1) /\ (hw'.ovf <=> hw.ovf)
      <4>1. \A k \in Nat : k < 2 => k # 2
        OBVIOUS
      <4>2. Len(hw.fifo) # 2
        BY <2>3, <4>1, FifoLen, Zenon DEF SpiRanges
      <4>. QED
        BY <1>1, <2>3, <4>2, ExchangeFields, Zenon
    <3>2. Chain(hw.fifo, Len(wire)) => Chain(hw'.fifo, Len(wire'))
      BY <2>2, <2>3, <3>1, ChainGrows DEF SpiRanges
    <3>3. buf.got # <<>> /\ Meets(buf.got, hw.fifo, Len(wire)) => Meets(buf.got, hw'.fifo, Len(wire'))
      BY <2>2, <2>3, <3>1, MeetsLater DEF SpiRanges
    <3>. QED
      BY <1>1, <1>a, <3>1, <3>2, <3>3, ExchangeFields DEF SlaveIntact
  <2>4. CASE ~(Len(hw.fifo) < 2)
    <3>1. hw'.ovf
      <4>1. \A k \in Nat : k <= 2 /\ ~(k < 2) => k = 2
        OBVIOUS
      <4>2. Len(hw.fifo) = 2
        BY <2>4, <4>1, FifoLen, Zenon DEF SpiRanges
      <4>. QED
        BY <1>1, <4>2, ExchangeFields
    <3>. QED
      BY <1>1, <1>a, <3>1, ExchangeFields DEF SlaveIntact
  <2>. QED
    BY <2>3, <2>4
<1>2. CASE Select
  BY <1>2, SelectFields, <1>a DEF SlaveIntact
<1>3. CASE HandlerEnters
  BY <1>3, EntersFields, <1>a DEF SlaveIntact
<1>4. CASE HandlerDre
  BY <1>4, DreFields, <1>a DEF SlaveIntact
<1>5. CASE HandlerRxc
  <2>1. CASE "RXC" \notin irq.st
    BY <1>5, <1>a, <2>1, RxcFields DEF SlaveIntact
  <2>2. CASE "RXC" \in irq.st /\ hw.ovf
    BY <1>5, <2>2, RxcFields DEF SlaveIntact, Clean
  <2>3. CASE "RXC" \in irq.st /\ ~hw.ovf /\ ~mod.rx
    <3>1. hw.fifo # <<>>
      BY <1>5, <2>3, RxcFields DEF SpiControl
    <3>2. Chain(hw.fifo, Len(wire)) => Chain(Tail(hw.fifo), Len(wire))
      BY <3>1, ChainPops, WireLen DEF SpiRanges
    <3>. QED
      BY <1>5, <1>a, <2>3, <3>1, <3>2, RxcFields DEF SlaveIntact
  <2>4. CASE "RXC" \in irq.st /\ ~hw.ovf /\ mod.rx
    <3>1. hw.fifo # <<>> /\ "RXC" \in hw.inten
      BY <1>5, <2>4, RxcFields DEF SpiControl
    <3>2. hw'.fifo = Tail(hw.fifo) /\ buf'.got = Append(buf.got, Head(hw.fifo)) /\ wire' = wire
          /\ hal'.master = hal.master
      BY <1>5, <2>4, <3>1, RxcFields
    <3>3. ASSUME ~hal.master, Clean
          PROVE  /\ NoGap(Append(buf.got, Head(hw.fifo))) /\ Chain(Tail(hw.fifo), Len(wire))
                 /\ Meets(Append(buf.got, Head(hw.fifo)), Tail(hw.fifo), Len(wire))
      <4>1. NoGap(buf.got) /\ Chain(hw.fifo, Len(wire)) /\ (buf.got # <<>> => Meets(buf.got, hw.fifo, Len(wire)))
        BY <2>4, <3>1, <3>3 DEF SlaveIntact
      <4>2. IsGot(buf.got) /\ IsFifo(hw.fifo) /\ Len(wire) \in Nat
        BY WireLen DEF SpiRanges
      <4>. QED
        BY <3>1, <4>1, <4>2, MeetsNext
    <3>. QED
      BY <1>a, <3>2, <3>3 DEF SlaveIntact
  <2>. QED
    BY <2>1, <2>2, <2>3, <2>4
<1>6. CASE HandlerFlush
  BY <1>6, FlushFields DEF SlaveIntact, SpiControl, Clean
<1>7. CASE HandlerTxc
  BY <1>7, <1>a, TxcFields DEF SlaveIntact
<1>8. CASE UserReturns
  BY <1>8, UserFields, <1>a DEF SlaveIntact
<1>9. CASE WriteWait
  BY <1>9, WriteFields, <1>a DEF SlaveIntact
<1>10. CASE ReadWait
  BY <1>10, ReadFields DEF SlaveIntact, SpiControl, Polls
<1>11. CASE CompleteWait
  BY <1>11, CompleteFields, <1>a DEF SlaveIntact
<1>12. CASE JobEnds
  BY <1>12, JobEndsFields, <1>a DEF SlaveIntact
<1>13. CASE hal_spi_config
  BY <1>13, ConfigFields, <1>a DEF SlaveIntact
<1>14. CASE hal_spi_enable
  BY <1>14, EnableFields, <1>a DEF SlaveIntact
<1>15. CASE hal_spi_set_txrx_cb
  BY <1>15, SetCbFields, <1>a DEF SlaveIntact
<1>16. CASE hal_spi_disable
  <2>1. Chain(<<>>, Len(wire))
    BY ChainNone, WireLen DEF SpiRanges
  <2>2. hal.xfer => ~Clean'
    BY <1>16, DisableFields DEF Clean
  <2>. QED
    BY <1>16, <1>a, <2>1, <2>2, DisableFields DEF SlaveIntact, SpiControl
<1>17. CASE hal_spi_abort
  BY <1>17, AbortFields, <1>a DEF SlaveIntact
<1>18. CASE hal_spi_slave_set_def_tx_val
  BY <1>18, DefaultFields, <1>a DEF SlaveIntact
<1>19. ASSUME NEW n \in 1 .. MaxLen, Blocking(n) \/ (hal_spi_tx_val /\ n = 1)
      PROVE  SlaveIntact'
  BY <1>19, BlockingFields, <1>a DEF SlaveIntact
<1>20. ASSUME NEW n \in 1 .. MaxLen, NEW t \in BOOLEAN, NEW r \in BOOLEAN, Nonblocking(n, t, r)
      PROVE  SlaveIntact'
  BY <1>20, <1>a, NoGapNone, NonblockingFields DEF SlaveIntact
<1>21. CASE UNCHANGED spiVars
  BY <1>21, <1>a DEF spiVars, SlaveIntact
<1>22. 1 \in 1 .. MaxLen
  BY SpiAssumption
<1>. QED
  BY <1>1, <1>2, <1>3, <1>4, <1>5, <1>6, <1>7, <1>8, <1>9, <1>10, <1>11, <1>12, <1>13,
     <1>14, <1>15, <1>16, <1>17, <1>18, <1>19, <1>20, <1>21, <1>22
     DEF SpiNext, Disturb, SpiStep, Handler, Waiting, Calls

\* Nothing has been written yet.
LEMMA WayStart ==
    ASSUME NEW n \in Nat, NEW w, IsWire(w)
    PROVE  OnWay(n, 0, <<>>, <<>>, <<>>, w)
<1>1. PICK m \in Nat : m = Len(w)
  BY WireLen, Zenon
<1>2. Trail(w, n, 0)
  <2>1. 0 <= m /\ \A j : j \notin 1 .. 0
    OBVIOUS
  <2>. QED
    BY <1>1, <2>1, Zenon DEF Trail
<1>3. Chain(<<>>, m)
  BY ChainNone
<1>4. 0 \in Nat /\ 0 = 0 + 0 + 0 /\ Size(<<>>) = 0
  BY DEF Size
<1>. QED
  BY <1>1, <1>2, <1>3, <1>4, Zenon DEF OnWay

\* The next character is written, to the shift register if that is free.
LEMMA WayWrites ==
    ASSUME NEW n \in Nat, NEW s \in Nat, NEW sh, NEW f, NEW w, OnWay(n, s, sh, <<>>, f, w)
    PROVE  /\ sh = <<>> => OnWay(n, s + 1, <<<<n, s + 1>>>>, <<>>, f, w)
           /\ sh # <<>> => OnWay(n, s + 1, sh, <<<<n, s + 1>>>>, f, w)
<1>1. PICK k \in Nat : /\ Trail(w, n, k) /\ s = k + Size(sh) + Size(<<>>)
                       /\ sh # <<>> => sh = <<<<n, k + 1>>>>
                       /\ Chain(f, Len(w))
  BY Zenon DEF OnWay
<1>2. Size(<<>>) = 0 /\ \A c : <<c>> # <<>> /\ Size(<<c>>) = 1
  BY DEF Size
<1>3. ASSUME sh = <<>> PROVE OnWay(n, s + 1, <<<<n, s + 1>>>>, <<>>, f, w)
  <2>1. s = k /\ s + 1 = k + 1 + 0
    BY <1>1, <1>2, <1>3
  <2>. QED
    BY <1>1, <1>2, <2>1, Zenon DEF OnWay
<1>4. ASSUME sh # <<>> PROVE OnWay(n, s + 1, sh, <<<<n, s + 1>>>>, f, w)
  <2>1. Size(sh) = 1
    BY <1>4 DEF Size
  <2>2. s + 1 = k + 2 /\ s + 1 = k + 1 + 1
    BY <1>1, <1>2, <2>1
  <2>. QED
    BY <1>1, <1>2, <1>4, <2>1, <2>2, Zenon DEF OnWay
<1>. QED
  BY <1>3, <1>4

\* A character is exchanged and what came back waits.
LEMMA WayExchanges ==
    ASSUME NEW n \in Nat, NEW s \in Nat, NEW sh, sh # <<>>, NEW d, NEW f, IsFifo(f), Len(f) < 2,
           NEW w, IsWire(w), OnWay(n, s, sh, d, f, w)
    PROVE  OnWay(n, s, d, <<>>, Append(f, Len(w) + 1), Append(w, sh[1]))
<1>1. PICK k \in Nat : /\ Trail(w, n, k) /\ s = k + Size(sh) + Size(d)
                       /\ sh = <<<<n, k + 1>>>>
                       /\ d # <<>> => d = <<<<n, k + 2>>>>
                       /\ Chain(f, Len(w))
  BY Zenon DEF OnWay
<1>2. PICK c : c = <<n, k + 1>>
  OBVIOUS
<1>3. sh[1] = c /\ Size(sh) = 1 /\ Size(<<>>) = 0 /\ c \in Chars
  <2>1. k + 1 \in Nat
    OBVIOUS
  <2>2. sh[1] = c
    BY <1>1, <1>2
  <2>3. Size(sh) = 1 /\ Size(<<>>) = 0
    BY DEF Size
  <2>. QED
    BY <1>2, <2>1, <2>2, <2>3, CharsAre, Zenon
<1>4. PICK m \in Nat : m = Len(w)
  BY WireLen, Zenon
<1>5. PICK v : v = Append(w, c)
  OBVIOUS
<1>6. Len(v) = m + 1
  BY <1>3, <1>4, <1>5, WireGrows, Zenon
<1>7. Trail(v, n, k + 1)
  BY <1>1, <1>2, <1>5, TrailGrows, Zenon
<1>8. Chain(Append(f, m + 1), Len(v))
  BY <1>1, <1>4, <1>6, ChainGrows
<1>9. Size(d) \in Nat
  BY Sizes
<1>10. k + 1 \in Nat /\ s = (k + 1) + Size(d) + 0 /\ (k + 1) + 1 = k + 2
  BY <1>1, <1>3, <1>9
<1>11. OnWay(n, s, d, <<>>, Append(f, m + 1), v)
  BY <1>1, <1>3, <1>7, <1>8, <1>10, Zenon DEF OnWay
<1>. QED
  BY <1>3, <1>4, <1>5, <1>11, Zenon

\* A character that waited is read.
LEMMA WayReads ==
    ASSUME NEW n, NEW s, NEW sh, NEW d, NEW f, IsFifo(f), f # <<>>, NEW w, IsWire(w),
           OnWay(n, s, sh, d, f, w)
    PROVE  OnWay(n, s, sh, d, Tail(f), w)
<1>1. Len(w) \in Nat
  BY WireLen
<1>2. Chain(f, Len(w)) => Chain(Tail(f), Len(w))
  BY <1>1, ChainPops
<1>. QED
  BY <1>2, Zenon DEF OnWay

\* And it belongs to the next place of the buffer.
LEMMA WayFills ==
    ASSUME NEW n, NEW s \in Nat, NEW sh, NEW d, NEW f, IsFifo(f), f # <<>>, NEW w, IsWire(w),
           OnWay(n, s, sh, d, f, w), NEW g, IsGot(g), Owns(g, w, n),
           Len(g) + (Size(sh) + Size(d) + Len(f)) = s
    PROVE  Owns(Append(g, Head(f)), w, n) /\ Len(Append(g, Head(f))) = Len(g) + 1
<1>1. PICK k \in Nat : Trail(w, n, k) /\ s = k + Size(sh) + Size(d) /\ Chain(f, Len(w))
  BY Zenon DEF OnWay
<1>2. Len(g) \in Nat /\ Len(f) \in Nat /\ Size(sh) \in Nat /\ Size(d) \in Nat
  BY GotLen, FifoLen, Sizes, Zenon
<1>3. \A a, b, x, y, z \in Nat : a + (x + y + b) = s /\ s = z + x + y => a + b = z
  OBVIOUS
<1>4. Len(g) + Len(f) = k
  BY <1>1, <1>2, <1>3, Zenon
<1>. QED
  BY <1>1, <1>4, OwnsNext, Zenon

\* Nothing is under way; what is under way of the transfer.
Empty == hw.shift = <<>> /\ hw.data = <<>> /\ hw.fifo = <<>>
Way == OnWay(buf.n, buf.sent, hw.shift, hw.data, hw.fifo, wire)
\* What was written and has not been read back is in the pipe.
InStep == Len(buf.got) + Pipe = buf.sent

\* A master has nothing to do.
Quiet ==
    /\ mod.status # "BUSY" /\ pc \notin {"write", "read"} /\ Empty /\ ~hw.ovf
    /\ "DRE" \notin hw.inten /\ "RXC" \notin hw.inten

\* hal_spi_config has taken the buffers from the job.
Robbed ==
    /\ hal.xfer /\ mod.status # "BUSY" /\ pc = "idle" /\ irq.at \notin {"user", "flush"}
    /\ ~mod.tx /\ ~mod.rx /\ ~mod.calls /\ buf.got = <<>>

\* It runs a job from the interrupt.
RunsJob ==
    /\ mod.status = "BUSY" /\ mod.tx /\ hal.xfer /\ "RXC" \in hw.inten
    /\ buf.sent <= buf.len /\ mod.remTx = buf.len - buf.sent
    /\ "DRE" \in hw.inten <=> buf.sent < buf.len
    /\ ~hw.on \/ ~mod.rx => buf.got = <<>>
    /\ ~hw.ovf => Way
    /\ mod.rx => mod.remRx = buf.len - Len(buf.got) /\ mod.remRx > 0
    /\ mod.rx /\ ~hw.ovf => InStep

\* It runs a transfer in the task, one character at a time.
RunsWait ==
    /\ pc \in {"write", "read"} /\ hw.on /\ ~hw.ovf /\ Way /\ InStep
    /\ pc = "write" => Empty
    /\ pc = "read" => Pipe = 1

Runs == Quiet \/ Robbed \/ RunsJob \/ RunsWait

\* What a master has received, and what it is doing.
MasterIntact == hal.master /\ Clean => Owns(buf.got, wire, buf.n) /\ Runs

\* Every step of a master that loses nothing leads from one of these to another.
LEMMA RunsStep ==
    ASSUME Records, SpiRanges, SpiControl, MasterControl, hal.master, Clean, Clean', Owns(buf.got, wire, buf.n), Runs, [SpiNext]_spiVars
    PROVE  Owns(buf.got, wire, buf.n)' /\ Runs'
<1>a. /\ Len(hw.fifo) \in Nat /\ Len(hw.fifo) <= 2 /\ (Len(hw.fifo) = 0 <=> hw.fifo = <<>>)
      /\ hw.data # <<>> => hw.shift # <<>>
  BY FifoLen DEF SpiRanges
<1>b. hw.fifo # <<>> => Len(Tail(hw.fifo)) = Len(hw.fifo) - 1
  BY FifoPop DEF SpiRanges
<1>c. /\ Size(hw.shift) \in Nat /\ Size(hw.shift) <= 1 /\ (Size(hw.shift) = 0 <=> hw.shift = <<>>)
      /\ Size(hw.data) \in Nat /\ Size(hw.data) <= 1 /\ (Size(hw.data) = 0 <=> hw.data = <<>>)
  BY Sizes
<1>d. /\ Size(hw'.shift) \in Nat /\ Size(hw'.shift) <= 1 /\ (Size(hw'.shift) = 0 <=> hw'.shift = <<>>)
      /\ Size(hw'.data) \in Nat /\ Size(hw'.data) <= 1 /\ (Size(hw'.data) = 0 <=> hw'.data = <<>>)
  BY Sizes
<1>e. /\ Len(buf.got) \in Nat /\ buf.n \in Nat /\ buf.sent \in Nat /\ buf.len \in Nat /\ buf.len < 65536
      /\ IsWire(wire) /\ IsGot(buf.got) /\ IsFifo(hw.fifo) /\ mod.remTx \in Nat /\ mod.remRx \in Int
  BY GotLen, SpiAssumption DEF SpiRanges
<1>g. /\ Len(buf.got) \in Nat /\ buf.n \in Nat /\ buf.sent \in Nat /\ buf.sent + 1 \in Nat
      /\ mod.remTx \in Nat /\ mod.remRx \in Int
  BY <1>e
<1>f. Polls => irq.at = "none" /\ mod.status # "BUSY"
  BY DEF SpiControl
<1>1. CASE Exchange
  <2>1. /\ hw.shift # <<>> /\ hw'.shift = hw.data /\ hw'.data = <<>> /\ wire' = Append(wire, hw.shift[1])
        /\ hw'.on = hw.on /\ hw'.inten = hw.inten /\ UNCHANGED <<hal, mod, buf, irq, pc>>
    BY <1>1, ExchangeFields
  <2>2. Owns(buf.got, wire', buf.n)
    <3>1. hw.shift[1] \in Chars
      BY <2>1, HeldIs DEF SpiRanges
    <3>. QED
      BY <1>e, <2>1, <3>1, OwnsLater
  <2>3. CASE Len(hw.fifo) < 2
    <3>1. hw'.fifo = Append(hw.fifo, Len(wire) + 1) /\ (hw'.ovf <=> hw.ovf)
      <4>1. \A k \in Nat : k < 2 => k # 2
        OBVIOUS
      <4>2. Len(hw.fifo) # 2
        BY <1>a, <2>3, <4>1, Zenon
      <4>. QED
        BY <1>1, <2>3, <4>2, ExchangeFields, Zenon
    <3>2. Len(hw'.fifo) = Len(hw.fifo) + 1
      BY <1>e, <2>3, <3>1, PushLen
    <3>3. Pipe' = Pipe
      BY <1>a, <1>c, <1>d, <2>1, <3>2 DEF Pipe
    <3>4. Way => Way'
      BY <1>e, <2>1, <2>3, <3>1, WayExchanges DEF Way
    <3>5. InStep <=> InStep'
      BY <2>1, <3>3 DEF InStep
    <3>6. ~Quiet /\ (pc = "write" => ~RunsWait)
      BY <2>1 DEF Quiet, RunsWait, Empty
    <3>. QED
      BY <2>1, <2>2, <3>1, <3>3, <3>4, <3>5, <3>6 DEF Runs, Robbed, RunsJob, RunsWait
  <2>4. CASE ~(Len(hw.fifo) < 2)
    <3>1. Len(hw.fifo) = 2
      <4>1. \A k \in Nat : k <= 2 /\ ~(k < 2) => k = 2
        OBVIOUS
      <4>. QED
        BY <1>a, <2>4, <4>1, Zenon
    <3>2. hw'.ovf
      BY <1>1, <3>1, ExchangeFields
    <3>3. ~Quiet /\ ~RunsWait
      <4>1. Pipe # 1
        BY <1>a, <1>c, <3>1 DEF Pipe
      <4>. QED
        BY <2>1, <4>1 DEF Quiet, RunsWait, Empty
    <3>. QED
      BY <2>1, <2>2, <3>2, <3>3 DEF Runs, Robbed, RunsJob
  <2>. QED
    BY <2>3, <2>4
<1>2. CASE Select
  BY <1>2, SelectFields
<1>3. CASE HandlerEnters
  BY <1>3, EntersFields DEF Runs, Quiet, Robbed, RunsJob, RunsWait, Empty, Way, InStep, Pipe
<1>4. CASE HandlerDre
  <2>a. irq.at = "dre" /\ irq'.at = "rxc" /\ UNCHANGED <<hal, pc, wire>> /\ ~Polls
    BY <1>4, <1>f, DreFields
  <2>1. CASE "DRE" \notin irq.st
    BY <1>4, <2>a, <2>1, DreFields DEF Runs, Quiet, Robbed, RunsJob, RunsWait, Empty, Way, InStep, Pipe
  <2>2. CASE "DRE" \in irq.st
    <3>1. "DRE" \in hw.inten /\ hw.data = <<>> /\ ~Quiet /\ ~RunsWait
      BY <2>a, <2>2 DEF SpiControl, Quiet, RunsWait, Polls
    <3>2. CASE Robbed
      BY <1>4, <2>a, <2>2, <3>2, DreFields DEF Runs, Robbed
    <3>3. CASE RunsJob
      <4>1. /\ mod'.remTx = Less(mod.remTx) /\ buf'.sent = buf.sent + 1 /\ buf'.got = buf.got
            /\ buf'.n = buf.n /\ buf'.len = buf.len /\ hw'.fifo = hw.fifo /\ hw'.ovf = hw.ovf
            /\ hw'.on = hw.on /\ mod'.status = mod.status /\ mod'.tx = mod.tx /\ mod'.rx = mod.rx
            /\ mod'.remRx = mod.remRx
        BY <1>4, <2>2, <3>3, DreFields DEF RunsJob
      <4>2. buf.sent < buf.len /\ mod.remTx = buf.len - buf.sent
        BY <3>1, <3>3 DEF RunsJob
      <4>3. mod'.remTx = buf'.len - buf'.sent /\ buf'.sent <= buf'.len
            /\ (mod'.remTx = 0 <=> ~(buf'.sent < buf'.len))
        <5>1. Less(mod.remTx) = mod.remTx - 1
          <6>1. buf.sent \in Nat /\ buf.len \in Nat /\ buf.len < 65536
            BY SpiAssumption DEF SpiRanges
          <6>. QED
            BY <4>2, <6>1 DEF Less
        <5>. QED
          BY <1>e, <4>1, <4>2, <5>1
      <4>4. "RXC" \in hw'.inten /\ ("DRE" \in hw'.inten <=> mod'.remTx # 0)
        <5>1. ~mod.dummy
          BY <3>3 DEF RunsJob, SpiControl, MasterControl, MasterInts
        <5>2. \/ mod'.remTx = 0 /\ hw'.inten = hw.inten \ {"DRE"}
              \/ mod'.remTx # 0 /\ hw'.inten = hw.inten
          BY <1>4, <2>2, <3>3, <5>1, DreFields, Zenon DEF RunsJob
        <5>. QED
          BY <3>1, <3>3, <5>2 DEF RunsJob
      <4>5. \/ hw.shift = <<>> /\ hw'.shift = <<<<buf.n, buf.sent + 1>>>> /\ hw'.data = <<>>
            \/ hw.shift # <<>> /\ hw'.shift = hw.shift /\ hw'.data = <<<<buf.n, buf.sent + 1>>>>
        <5>1. Char = <<buf.n, buf.sent + 1>>
          BY <3>3 DEF Char, RunsJob
        <5>. QED
          BY <1>4, <2>2, <3>1, <5>1, DreFields, Zenon
      <4>6. Way => Way'
        <5>1. OnWay(buf.n, buf.sent, hw.shift, <<>>, hw.fifo, wire) =>
                /\ hw.shift = <<>> => OnWay(buf.n, buf.sent + 1, <<<<buf.n, buf.sent + 1>>>>, <<>>, hw.fifo, wire)
                /\ hw.shift # <<>> => OnWay(buf.n, buf.sent + 1, hw.shift, <<<<buf.n, buf.sent + 1>>>>, hw.fifo, wire)
          BY <1>g, WayWrites, Zenon
        <5>2. wire' = wire /\ hw'.fifo = hw.fifo /\ buf'.n = buf.n /\ buf'.sent = buf.sent + 1
          BY <2>a, <4>1
        <5>. QED
          BY <3>1, <4>5, <5>1, <5>2, Zenon DEF Way
      <4>7. Pipe' = Pipe + 1
        <5>1. hw'.shift # <<>> /\ (hw'.data = <<>> <=> hw.shift = <<>>)
          <6>1. \A c : <<c>> # <<>>
            OBVIOUS
          <6>. QED
            BY <4>5, <6>1, Zenon
        <5>. QED
          BY <1>a, <1>c, <1>d, <3>1, <4>1, <5>1 DEF Pipe
      <4>8. InStep => InStep'
        <5>1. Pipe \in Nat
          BY <1>a, <1>c DEF Pipe
        <5>. QED
          <6>1. PICK a \in Nat, b \in Nat, c \in Nat : a = Len(buf.got) /\ b = Pipe /\ c = buf.sent
            BY <1>g, <5>1, Zenon
          <6>2. Len(buf'.got) = Len(buf.got) /\ buf'.sent = buf.sent + 1
            BY <4>1
          <6>3. Len(buf.got) + Pipe = buf.sent => Len(buf.got) + (Pipe + 1) = buf.sent + 1
            <7>1. a + b = c => a + (b + 1) = c + 1
              OBVIOUS
            <7>. QED
              BY <6>1, <7>1, Zenon
          <6>. QED
            BY <4>7, <6>2, <6>3, Zenon DEF InStep
      <4>9. RunsJob'
        BY <2>a, <3>3, <4>1, <4>3, <4>4, <4>6, <4>8 DEF RunsJob
      <4>. QED
        BY <2>a, <4>1, <4>9 DEF Runs
    <3>. QED
      BY <3>1, <3>2, <3>3 DEF Runs
  <2>. QED
    BY <2>1, <2>2
<1>5. CASE HandlerRxc
  <2>a. irq.at = "rxc" /\ UNCHANGED <<pc, wire>> /\ ~Polls /\ hw.on
    BY <1>5, <1>f, RxcFields DEF SpiControl
  <2>1. CASE "RXC" \notin irq.st
    BY <1>5, <2>a, <2>1, RxcFields DEF Runs, Quiet, Robbed, RunsJob, RunsWait, Empty, Way, InStep, Pipe
  <2>2. CASE "RXC" \in irq.st /\ hw.ovf
    BY <1>5, <2>2, RxcFields DEF Clean
  <2>3. CASE "RXC" \in irq.st /\ ~hw.ovf
    <3>1. "RXC" \in hw.inten /\ hw.fifo # <<>> /\ ~Quiet /\ ~RunsWait
      BY <2>a, <2>3 DEF SpiControl, Quiet, RunsWait, Polls
    <3>2. hw'.fifo = Tail(hw.fifo) /\ hw'.shift = hw.shift /\ hw'.data = hw.data /\ ~hw'.ovf /\ hw'.on
      BY <1>5, <2>a, <2>3, <3>1, RxcFields
    <3>3. CASE Robbed
      BY <1>5, <2>a, <2>3, <3>3, RxcFields DEF Runs, Robbed
    <3>4. CASE RunsJob
      <4>1. buf'.n = buf.n /\ buf'.len = buf.len /\ buf'.sent = buf.sent
            /\ mod'.tx = mod.tx /\ mod'.rx = mod.rx /\ mod'.remTx = mod.remTx
        BY <1>5, <2>3, RxcFields
      <4>2. Way'
        BY <1>e, <2>a, <2>3, <3>1, <3>2, <3>4, <4>1, WayReads DEF RunsJob, Way
      <4>3. Pipe' = Pipe - 1 /\ Pipe' \in Nat /\ Pipe \in Nat
        BY <1>a, <1>b, <1>c, <1>d, <3>1, <3>2 DEF Pipe
      <4>4. CASE ~mod.rx
        <5>1. UNCHANGED <<hal, mod, buf>> /\ hw'.inten = hw.inten
          BY <1>5, <2>3, <4>4, RxcFields
        <5>2. RunsJob'
          BY <3>2, <3>4, <4>2, <4>4, <5>1 DEF RunsJob
        <5>. QED
          BY <2>a, <5>1, <5>2 DEF Runs
      <4>5. CASE mod.rx
        <5>1. buf'.got = Append(buf.got, Head(hw.fifo)) /\ mod'.remRx = mod.remRx - 1
          BY <1>5, <2>3, <4>5, RxcFields
        <5>2. Owns(buf'.got, wire, buf.n) /\ Len(buf'.got) = Len(buf.got) + 1
          BY <1>e, <2>3, <3>1, <3>4, <4>5, <5>1, WayFills DEF RunsJob, Way, InStep, Pipe
        <5>3. InStep'
          BY <1>e, <2>3, <3>4, <4>1, <4>3, <4>5, <5>2 DEF RunsJob, InStep
        <5>4. CASE mod.remRx - 1 # 0
          <6>1. mod'.status = mod.status /\ hw'.inten = hw.inten /\ UNCHANGED hal
            BY <1>5, <2>3, <5>4, RxcFields
          <6>2. mod'.remRx = buf'.len - Len(buf'.got) /\ mod'.remRx > 0
            <7>1. mod.remRx = buf.len - Len(buf.got) /\ mod.remRx > 0 /\ buf'.len = buf.len /\ buf.len \in Nat
              BY <1>e, <3>4, <4>1, <4>5 DEF RunsJob
            <7>2. \A a, b \in Nat, c \in Int : c = a - b /\ c > 0 /\ c - 1 # 0 => c - 1 = a - (b + 1) /\ c - 1 > 0
              OBVIOUS
            <7>3. mod.remRx - 1 = buf.len - (Len(buf.got) + 1) /\ mod.remRx - 1 > 0
              BY <1>g, <5>4, <7>1, <7>2
            <7>. QED
              BY <5>1, <5>2, <7>1, <7>3, Zenon
          <6>3. RunsJob'
            BY <3>2, <3>4, <4>1, <4>2, <4>5, <5>3, <6>1, <6>2 DEF RunsJob
          <6>. QED
            BY <2>a, <4>1, <5>2, <6>3 DEF Runs
        <5>5. CASE mod.remRx - 1 = 0
          <6>1. mod'.status = "OK" /\ hw'.inten = hw.inten \ {"RXC"}
            BY <1>5, <2>3, <4>5, <5>5, RxcFields
          <6>2. Len(buf'.got) = buf.len /\ Pipe' = 0 /\ buf.sent = buf.len
            BY <1>e, <3>4, <4>1, <4>3, <4>5, <5>2, <5>3, <5>5 DEF RunsJob, InStep
          <6>3. Empty'
            <7>1. IsFifo(hw'.fifo)
              BY <1>e, <3>1, <3>2, FifoPop
            <7>2. Len(hw'.fifo) \in Nat /\ (Len(hw'.fifo) = 0 <=> hw'.fifo = <<>>)
              BY <7>1, FifoLen
            <7>. QED
              BY <1>d, <6>2, <7>2 DEF Pipe, Empty
          <6>4. "DRE" \notin hw'.inten /\ "RXC" \notin hw'.inten
            BY <1>e, <3>4, <6>1, <6>2 DEF RunsJob
          <6>5. Quiet'
            BY <2>a, <3>2, <6>1, <6>3, <6>4 DEF Quiet, Polls
          <6>. QED
            BY <2>a, <4>1, <5>2, <6>5 DEF Runs
        <5>. QED
          BY <5>4, <5>5
      <4>. QED
        BY <4>4, <4>5
    <3>. QED
      BY <3>1, <3>3, <3>4 DEF Runs
  <2>. QED
    BY <2>1, <2>2, <2>3
<1>6. CASE HandlerFlush
  BY <1>6, FlushFields DEF SpiControl, Clean
<1>7. CASE HandlerTxc
  <2>1. UNCHANGED <<hal, mod, buf, hw, pc, wire>> /\ irq'.at = "none"
    BY <1>7, TxcFields
  <2>. QED
    BY <2>1 DEF Runs, Quiet, Robbed, RunsJob, RunsWait, Empty, Way, InStep, Pipe
<1>8. CASE UserReturns
  BY <1>8, UserFields DEF Runs, Quiet, Robbed, RunsJob, RunsWait, Empty, Way, InStep, Pipe
<1>9. CASE WriteWait
  <2>1. RunsWait /\ Empty /\ pc = "write" /\ pc' = "read"
    BY <1>9, <1>f, WriteFields DEF Runs, Quiet, Robbed, RunsJob, RunsWait, Polls
  <2>2. /\ hw'.shift = <<<<buf.n, buf.sent + 1>>>> /\ hw'.data = <<>> /\ hw'.fifo = hw.fifo
        /\ hw'.on = hw.on /\ hw'.ovf = hw.ovf /\ UNCHANGED wire
        /\ buf'.n = buf.n /\ buf'.sent = buf.sent + 1 /\ buf'.got = buf.got
    BY <1>9, <2>1, WriteFields DEF Empty
  <2>3. Way'
    <3>1. OnWay(buf.n, buf.sent, hw.shift, <<>>, hw.fifo, wire) =>
            (hw.shift = <<>> => OnWay(buf.n, buf.sent + 1, <<<<buf.n, buf.sent + 1>>>>, <<>>, hw.fifo, wire))
      BY <1>g, WayWrites, Zenon
    <3>. QED
      BY <2>1, <2>2, <3>1, Zenon DEF Way, RunsWait, Empty
  <2>4. Pipe = 0 /\ Pipe' = 1
    <3>1. hw'.shift # <<>>
      <4>1. \A c : <<c>> # <<>>
        OBVIOUS
      <4>. QED
        BY <2>2, <4>1, Zenon
    <3>. QED
      BY <1>a, <1>c, <1>d, <2>1, <2>2, <3>1 DEF Pipe, Empty
  <2>5. InStep'
    BY <1>e, <2>1, <2>2, <2>4 DEF RunsWait, InStep
  <2>. QED
    BY <2>1, <2>2, <2>3, <2>4, <2>5 DEF Runs, RunsWait
<1>10. CASE ReadWait
  <2>1. RunsWait /\ pc = "read" /\ Pipe = 1 /\ hw.fifo # <<>> /\ ~hw.ovf
    BY <1>10, <1>f, ReadFields DEF Runs, Quiet, Robbed, RunsJob, RunsWait, Polls
  <2>2. /\ hw'.shift = hw.shift /\ hw'.data = hw.data /\ hw'.fifo = Tail(hw.fifo)
        /\ hw'.on = hw.on /\ ~hw'.ovf /\ UNCHANGED <<wire, mod>> /\ hw'.inten = hw.inten
        /\ buf'.n = buf.n /\ buf'.sent = buf.sent /\ buf'.got = Append(buf.got, Head(hw.fifo))
        /\ pc' \in {"idle", "write", "complete"}
    BY <1>10, <2>1, ReadFields
  <2>3. Way'
    BY <1>e, <2>1, <2>2, WayReads DEF RunsWait, Way
  <2>4. Owns(buf'.got, wire, buf.n) /\ Len(buf'.got) = Len(buf.got) + 1
    BY <1>e, <2>1, <2>2, WayFills DEF RunsWait, Way, InStep, Pipe
  <2>5. Pipe' = 0
    BY <1>a, <1>b, <1>c, <1>d, <2>1, <2>2 DEF Pipe
  <2>6. InStep'
    BY <1>e, <2>1, <2>2, <2>4, <2>5 DEF RunsWait, InStep
  <2>7. Empty'
    <3>1. IsFifo(hw'.fifo)
      BY <1>e, <2>1, <2>2, FifoPop
    <3>2. Len(hw'.fifo) \in Nat /\ (Len(hw'.fifo) = 0 <=> hw'.fifo = <<>>)
      BY <3>1, FifoLen
    <3>. QED
      BY <1>d, <2>5, <3>2 DEF Pipe, Empty
  <2>8. mod.status # "BUSY" /\ "DRE" \notin hw.inten /\ "RXC" \notin hw.inten
    BY <2>1 DEF SpiControl, MasterControl, MasterInts, Polls
  <2>9. CASE pc' = "write"
    BY <2>1, <2>2, <2>3, <2>4, <2>6, <2>7, <2>9 DEF Runs, RunsWait
  <2>10. CASE pc' # "write"
    BY <2>2, <2>4, <2>7, <2>8, <2>10 DEF Runs, Quiet
  <2>. QED
    BY <2>9, <2>10
<1>11. CASE CompleteWait
  BY <1>11, <1>f, CompleteFields DEF Runs, Quiet, Robbed, RunsJob, RunsWait, Empty, Polls
<1>12. CASE JobEnds
  <2>1. /\ UNCHANGED <<hal, mod, buf, irq, wire>> /\ pc = "job" /\ pc' = "idle"
        /\ hw'.on = hw.on /\ hw'.shift = hw.shift /\ hw'.data = hw.data
        /\ hw'.fifo = hw.fifo /\ hw'.ovf = hw.ovf /\ hw'.inten = hw.inten
    BY <1>12, JobEndsFields
  <2>. QED
    BY <2>1 DEF Runs, Quiet, Robbed, RunsJob, RunsWait, Empty, Way, InStep, Pipe
<1>13. CASE hal_spi_config
  BY <1>13, ConfigFields DEF Runs, Quiet, Robbed, RunsJob, RunsWait, Empty
<1>14. CASE hal_spi_enable
  BY <1>14, EnableFields DEF Runs, Quiet, Robbed, RunsJob, RunsWait, Empty, Way, InStep, Pipe
<1>15. CASE hal_spi_set_txrx_cb
  BY <1>15, SetCbFields DEF Runs, Quiet, Robbed, RunsJob, RunsWait, Empty
<1>16. CASE hal_spi_disable
  <2>1. ~hal.xfer
    BY <1>16, DisableFields DEF Clean
  <2>. QED
    BY <1>16, <2>1, DisableFields DEF Runs, Quiet, Robbed, RunsJob, RunsWait, Empty
<1>17. CASE hal_spi_abort
  <2>1. ~hal.xfer
    BY <1>17, AbortFields DEF Clean
  <2>. QED
    BY <1>17, <1>f, <2>1, AbortFields DEF Runs, Quiet, Robbed, RunsJob, RunsWait, Empty, Polls
<1>18. CASE hal_spi_slave_set_def_tx_val
  BY <1>18, DefaultFields
<1>19. ASSUME NEW n \in 1 .. MaxLen, Blocking(n) \/ (hal_spi_tx_val /\ n = 1)
      PROVE  Owns(buf.got, wire, buf.n)' /\ Runs'
  <2>1. Quiet
    BY <1>19, <1>f, BlockingFields DEF Runs, Robbed, RunsJob, RunsWait, Polls
  <2>2. /\ UNCHANGED <<mod, hw, wire>> /\ pc' = "write" /\ hw.on
        /\ buf'.n = buf.n + 1 /\ buf'.sent = 0 /\ buf'.got = <<>>
    BY <1>19, BlockingFields
  <2>3. Way'
    <3>1. buf.n + 1 \in Nat
      BY <1>e
    <3>. QED
      BY <1>e, <2>1, <2>2, <3>1, WayStart DEF Way, Quiet, Empty
  <2>4. Pipe' = 0
    BY <1>a, <1>c, <2>1, <2>2 DEF Pipe, Quiet, Empty
  <2>5. InStep'
    BY <2>2, <2>4, NoneWaits DEF InStep
  <2>6. Owns(buf'.got, wire', buf'.n)
    BY <2>2, OwnsNone
  <2>. QED
    BY <2>1, <2>2, <2>3, <2>5, <2>6 DEF Runs, RunsWait, Quiet, Empty
<1>20. ASSUME NEW n \in 1 .. MaxLen, NEW t \in BOOLEAN, NEW r \in BOOLEAN, Nonblocking(n, t, r)
      PROVE  Owns(buf.got, wire, buf.n)' /\ Runs'
  <2>1. Quiet
    BY <1>20, <1>f, NonblockingFields DEF Runs, Robbed, RunsJob, RunsWait, Polls
  <2>2. UNCHANGED wire /\ hal'.xfer /\ t
    BY <1>20, NonblockingFields
  <2>3. CASE UNCHANGED <<mod, buf, hw, pc>>
    BY <2>1, <2>2, <2>3 DEF Runs, Quiet, Empty
  <2>4. CASE ~UNCHANGED <<mod, buf, hw, pc>>
    <3>1. /\ mod'.status = "BUSY" /\ mod'.tx /\ mod'.rx = r /\ (r => mod'.remRx = n) /\ mod'.remTx = n
          /\ buf'.n = buf.n + 1 /\ buf'.len = n /\ buf'.sent = 0 /\ buf'.got = <<>>
          /\ hw'.shift = hw.shift /\ hw'.data = hw.data /\ hw'.fifo = hw.fifo /\ hw'.ovf = hw.ovf
          /\ hw'.inten = hw.inten \cup {"DRE", "RXC"}
      BY <1>20, <2>2, <2>4, NonblockingFields
    <3>2. Way'
      <4>1. buf.n + 1 \in Nat
        BY <1>e
      <4>. QED
        BY <1>e, <2>1, <2>2, <3>1, <4>1, WayStart DEF Way, Quiet, Empty
    <3>3. Pipe' = 0
      BY <1>a, <1>c, <2>1, <3>1 DEF Pipe, Quiet, Empty
    <3>4. InStep'
      BY <3>1, <3>3, NoneWaits DEF InStep
    <3>5. Owns(buf'.got, wire', buf'.n)
      BY <3>1, OwnsNone
    <3>6. /\ buf'.sent <= buf'.len /\ mod'.remTx = buf'.len - buf'.sent /\ buf'.sent < buf'.len
          /\ mod'.rx => mod'.remRx = buf'.len - Len(buf'.got) /\ mod'.remRx > 0
      <4>1. n \in Nat /\ n > 0
        BY SpiAssumption
      <4>. QED
        BY <3>1, <4>1, NoneWaits
    <3>7. RunsJob'
      BY <2>2, <3>1, <3>2, <3>4, <3>6 DEF RunsJob
    <3>. QED
      BY <3>5, <3>7 DEF Runs
  <2>. QED
    BY <2>3, <2>4
<1>21. CASE UNCHANGED spiVars
  BY <1>21 DEF spiVars, Runs, Quiet, Robbed, RunsJob, RunsWait, Empty, Way, InStep, Pipe
<1>22. 1 \in 1 .. MaxLen
  BY SpiAssumption
<1>. QED
  BY <1>1, <1>2, <1>3, <1>4, <1>5, <1>6, <1>7, <1>8, <1>9, <1>10, <1>11, <1>12, <1>13,
     <1>14, <1>15, <1>16, <1>17, <1>18, <1>19, <1>20, <1>21, <1>22
     DEF SpiNext, Disturb, SpiStep, Handler, Waiting, Calls

\* What a buffer holds, for a master and for a slave.
LEMMA IntactStep ==
    ASSUME SpiInv, SlaveIntact, MasterIntact, [SpiNext]_spiVars
    PROVE  SlaveIntact' /\ MasterIntact'
<1>1. SlaveIntact'
  BY SlaveStep DEF SpiInv
<1>2. Clean' /\ hal'.master => Clean /\ hal.master
  BY SeenGrows DEF SpiInv, Clean
<1>3. ASSUME hal'.master, Clean' PROVE (Owns(buf.got, wire, buf.n) /\ Runs)'
  BY <1>2, <1>3, RunsStep DEF SpiInv, MasterIntact
<1>. QED
  BY <1>1, <1>3 DEF MasterIntact

LEMMA IntactStart == SpiInit => SlaveIntact /\ MasterIntact
<1>. SUFFICES ASSUME SpiInit PROVE SlaveIntact /\ MasterIntact
  OBVIOUS
<1>1. buf.got = <<>> /\ wire = <<>> /\ hw.fifo = <<>>
  BY DEF SpiInit
<1>2. NoGap(buf.got) /\ Owns(buf.got, wire, buf.n)
  BY <1>1, NoGapNone, OwnsNone
<1>3. Chain(hw.fifo, Len(wire))
  BY <1>1, ChainNone, NoneWaits
<1>4. Quiet
  BY DEF SpiInit, Quiet, Empty
<1>. QED
  BY <1>1, <1>2, <1>3, <1>4 DEF SlaveIntact, MasterIntact, Runs

\* A master's buffer holds at each place what came back for that place, a slave's
\* what it was sent without a gap, until a transfer is cut short or a character
\* lost, for every length and number of transfers.
THEOREM SpiOwnBytes == SpiSpec => []OwnBytes
<1>1. SpiInv /\ SlaveIntact /\ MasterIntact => OwnBytes
  <2>. SUFFICES ASSUME SpiInv, SlaveIntact, MasterIntact, seen \cap {"cut", "overflow"} = {},
                       NEW i \in 1 .. Len(buf.got)
                PROVE  IF hal.master THEN wire[buf.got[i]] = <<buf.n, i>>
                                     ELSE i > 1 => buf.got[i] = buf.got[i - 1] + 1
    BY DEF OwnBytes
  <2>1. Clean
    BY DEF Clean
  <2>2. CASE hal.master
    BY <2>1, <2>2 DEF MasterIntact, Owns
  <2>3. CASE ~hal.master
    <3>1. NoGap(buf.got)
      BY <2>1, <2>3 DEF SlaveIntact
    <3>2. Len(buf.got) \in Nat
      BY GotLen DEF SpiInv, SpiRanges
    <3>3. i > 1 => i \in 2 .. Len(buf.got)
      BY <3>2
    <3>. QED
      BY <2>3, <3>1, <3>3 DEF NoGap
  <2>. QED
    BY <2>2, <2>3
<1>. QED
  BY <1>1, SpiStart, SpiKeeps, IntactStart, IntactStep, PTL DEF SpiSpec
=============================================================================
