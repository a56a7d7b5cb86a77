------------------------------- MODULE HalGpio -------------------------------
(***************************************************************************)
(* GPIO interrupts of the SAMD21 (hw/mcu/atmel/samd21xx/src/hal_gpio.c on  *)
(* the ASF driver of the external interrupt controller, the EIC).  Pins    *)
(* share the controller's sixteen channels, and eight channels share a     *)
(* CONFIG register, which is read and written back.  Tasks call the        *)
(* functions without a lock; hal_gpio_irq comes in between their steps, is *)
(* entered for any enabled channel and serves every channel that has       *)
(* detected something, the disabled ones too.                              *)
(*                                                                         *)
(* A handler and its argument are named by the pin they were given for.    *)
(* The levels of output pins are not modelled.                             *)
(***************************************************************************)
EXTENDS Integers, TLC

CONSTANTS
    Tasks,      \* tasks that call the functions
    Pins,       \* pins in use
    Trigs,      \* trigger modes asked for
    MaxCalls    \* bound: calls of the functions

ASSUME GpioAssumption ==
    /\ MaxCalls \in Nat /\ Pins \subseteq 0 .. 63
    /\ Trigs \subseteq {"rising", "falling", "both", "low", "high"}

NONE == -1

\* hal_gpio_pin_exti_tbl: port A, then port B.
hal_gpio_pin_exti_tbl == <<
    0, 1, 2, 3, 4, 5, 6, 7, -1, 9, 10, 11, 12, 13, 14, 15,
    0, 1, 2, 3, 4, 5, 6, 7, 12, 13, -1, 15, 8, -1, 10, 11,
    0, 1, 2, 3, 4, 5, 6, 7, 8, 9, 10, 11, 12, 13, 14, 15,
    0, 1, -1, -1, -1, -1, 6, 7, -1, -1, -1, -1, -1, -1, 14, 15 >>

\* port_pin & valid_pins[port], whose low five bits are 11111 and 01100: the
\* number of the pin is compared with the mask, not its bit.
valid_pins(pin) == IF pin \div 32 = 0 THEN pin % 32 # 0 ELSE (pin \div 4) % 4 # 0

hal_gpio_irq_eic(pin) == IF valid_pins(pin) THEN hal_gpio_pin_exti_tbl[pin + 1] ELSE -1

Chan(p) == hal_gpio_irq_eic(p)
Usable == {p \in Pins : Chan(p) >= 0}
Chans == {Chan(p) : p \in Usable}

VARIABLES
    func, arg,  \* hal_gpio_irqs
    sense,      \* CONFIG of the EIC: what each channel detects
    inten,      \* INTENSET: the channels that interrupt
    intflag,    \* INTFLAG: the channels that have detected something
    mux,        \* the pins that are switched to the EIC
    nvic,       \* EIC_IRQn leads to hal_gpio_irq
    tp,         \* each task: where it is, its pin, its trigger, the CONFIG it read
    isr,        \* hal_gpio_irq: where it is, and its channel
    \* history
    calls,      \* calls so far
    held,       \* what each pin detects that hal_gpio_irq_init has returned 0 for
    due,        \* channels that have detected something since their last turn
    spoilt,     \* channels two callers have been at, and those set back by a stale CONFIG
    reused      \* channels that have been released

vars == <<func, arg, sense, inten, intflag, mux, nvic, tp, isr, calls, held, due, spoilt, reused>>
eic == <<sense, inten, intflag>>
hist == <<held, spoilt, reused>>

Idle == [at |-> "idle", pin |-> NONE, trig |-> "none", cfg |-> <<>>]
Off == [at |-> "off", ch |-> 0]

Init ==
    /\ func = [c \in Chans |-> NONE] /\ arg = [c \in Chans |-> NONE]
    /\ sense = [c \in Chans |-> "none"] /\ inten = {} /\ intflag = {}
    /\ mux = {} /\ nvic = FALSE
    /\ tp = [t \in Tasks |-> Idle] /\ isr = Off /\ calls = 0
    /\ held = [p \in Pins |-> "none"] /\ due = {} /\ spoilt = {} /\ reused = {}

Go(t, at) == tp' = [tp EXCEPT ![t].at = at]

-----------------------------------------------------------------------------
(* hal_gpio_irq_init *)

\* To the check of func; -1 for a pin without a channel or a channel in use.
hal_gpio_irq_init(t, p, trig) ==
    /\ tp[t].at = "idle"
    /\ nvic' = TRUE
    /\ IF Chan(p) >= 0 /\ func[Chan(p)] = NONE
         THEN tp' = [tp EXCEPT ![t] = [at |-> "func", pin |-> p, trig |-> trig, cfg |-> <<>>]]
         ELSE UNCHANGED tp
    /\ UNCHANGED <<func, arg, eic, mux, due, hist>>

\* func is set, whoever may have set it since the check.
SetFunc(t) ==
    LET c == Chan(tp[t].pin)
    IN  /\ tp[t].at = "func"
        /\ func' = [func EXCEPT ![c] = tp[t].pin]
        /\ spoilt' = IF func[c] = NONE THEN spoilt ELSE spoilt \cup {c}
        /\ Go(t, "arg")
        /\ UNCHANGED <<arg, eic, mux, nvic, due, held, reused>>

SetArg(t) ==
    /\ tp[t].at = "arg"
    /\ arg' = [arg EXCEPT ![Chan(tp[t].pin)] = tp[t].pin]
    /\ Go(t, "mux")
    /\ UNCHANGED <<func, eic, mux, nvic, due, hist>>

\* extint_chan_set_config: the pin is switched to the EIC, CONFIG is read ...
SetMux(t) ==
    /\ tp[t].at = "mux"
    /\ mux' = mux \cup {tp[t].pin}
    /\ tp' = [tp EXCEPT ![t].at = "cfg", ![t].cfg = sense]
    /\ UNCHANGED <<func, arg, eic, nvic, due, hist>>

\* Mutation of SetConfig: the fields of the other channels are not kept.
SetConfigAlone(t) ==
    LET p == tp[t].pin
        c == Chan(p)
        Register == {d \in Chans : d \div 8 = c \div 8}
    IN  /\ tp[t].at = "cfg"
        /\ sense' = [d \in Chans |-> IF d = c THEN tp[t].trig
                                     ELSE IF d \in Register THEN "none" ELSE sense[d]]
        /\ spoilt' = spoilt \cup {d \in Register \ {c} : tp[t].cfg[d] # sense[d]}
        /\ held' = [held EXCEPT ![p] = tp[t].trig]
        /\ tp' = [tp EXCEPT ![t] = Idle]
        /\ UNCHANGED <<func, arg, inten, intflag, mux, nvic, due, reused>>

\* ... and the register of the channel written back; the call returns 0.  A
\* channel whose field has changed since CONFIG was read is set back.
SetConfig(t) ==
    LET p == tp[t].pin
        c == Chan(p)
        Register == {d \in Chans : d \div 8 = c \div 8}
    IN  /\ tp[t].at = "cfg"
        /\ sense' = [d \in Chans |-> IF d = c THEN tp[t].trig
                                     ELSE IF d \in Register THEN tp[t].cfg[d] ELSE sense[d]]
        /\ spoilt' = spoilt \cup {d \in Register \ {c} : tp[t].cfg[d] # sense[d]}
        /\ held' = [held EXCEPT ![p] = tp[t].trig]
        /\ tp' = [tp EXCEPT ![t] = Idle]
        /\ UNCHANGED <<func, arg, inten, intflag, mux, nvic, due, reused>>

-----------------------------------------------------------------------------
(* hal_gpio_irq_enable, _disable and _release; hal_gpio_init_in and _out *)

hal_gpio_irq_enable(t, p) ==
    /\ tp[t].at = "idle" /\ Chan(p) >= 0
    /\ inten' = inten \cup {Chan(p)}
    /\ UNCHANGED <<func, arg, sense, intflag, mux, nvic, tp, due, hist>>

hal_gpio_irq_disable(t, p) ==
    /\ tp[t].at = "idle" /\ Chan(p) >= 0
    /\ inten' = inten \ {Chan(p)}
    /\ UNCHANGED <<func, arg, sense, intflag, mux, nvic, tp, due, hist>>

\* hal_gpio_irq_release: the channel is disabled ...
hal_gpio_irq_release(t, p) ==
    /\ tp[t].at = "idle" /\ Chan(p) >= 0
    /\ inten' = inten \ {Chan(p)}
    /\ tp' = [tp EXCEPT ![t].at = "release", ![t].pin = p]
    /\ UNCHANGED <<func, arg, sense, intflag, mux, nvic, due, hist>>

\* What is left of the channel's owner when pin p gives it up.
Released(p) ==
    LET c == Chan(p)
    IN  /\ func' = [func EXCEPT ![c] = NONE]
        /\ spoilt' = IF func[c] = NONE \/ (func[c] = p /\ held[p] # "none") THEN spoilt ELSE spoilt \cup {c}
        /\ held' = [held EXCEPT ![p] = "none"]
        /\ reused' = reused \cup {c}

\* ... and its handler forgotten, whosever that is; CONFIG and INTFLAG stay.
ClearFunc(t) ==
    /\ tp[t].at = "release"
    /\ Released(tp[t].pin)
    /\ tp' = [tp EXCEPT ![t] = Idle]
    /\ UNCHANGED <<arg, eic, mux, nvic, due>>

\* The pin is switched back from the EIC to the port.
hal_gpio_init(t, p) ==
    /\ tp[t].at = "idle" /\ valid_pins(p)
    /\ mux' = mux \ {p}
    /\ held' = [held EXCEPT ![p] = "none"]
    /\ spoilt' = IF p \in Usable /\ func[Chan(p)] = p /\ held[p] = "none"
                   THEN spoilt \cup {Chan(p)} ELSE spoilt
    /\ UNCHANGED <<func, arg, eic, nvic, tp, due, reused>>

-----------------------------------------------------------------------------
(* The EIC, and the interrupt *)

\* A pin's channel detects what it is set to: the level at the pin, which is
\* the environment's, may change, or stay, at any time.
Detected(p) ==
    /\ p \in mux \cap Usable /\ sense[Chan(p)] # "none"
    /\ intflag' = intflag \cup {Chan(p)} /\ due' = due \cup {Chan(p)}
    /\ UNCHANGED <<func, arg, sense, inten, mux, nvic, tp, isr, hist>>

\* hal_gpio_irq is entered for a channel that is enabled.
IrqEnters ==
    /\ isr.at = "off" /\ nvic /\ inten \cap intflag # {}
    /\ isr' = [at |-> "loop", ch |-> 0]
    /\ UNCHANGED <<func, arg, eic, mux, nvic, tp, due, hist>>

\* The loop goes on to the next channel that has detected something.
IrqNext ==
    LET found == {c \in intflag : c >= isr.ch}
    IN  /\ isr.at = "loop"
        /\ isr' = IF found = {} THEN Off
                  ELSE [at |-> "clear", ch |-> CHOOSE c \in found : \A d \in found : c <= d]
        /\ UNCHANGED <<func, arg, eic, mux, nvic, tp, due, hist>>

IrqClears ==
    /\ isr.at = "clear"
    /\ intflag' = intflag \ {isr.ch} /\ isr' = [isr EXCEPT !.at = "call"]
    /\ UNCHANGED <<func, arg, sense, inten, mux, nvic, tp, due, hist>>

\* The handler is called, if there is one.
IrqCalls ==
    /\ isr.at = "call"
    /\ due' = due \ {isr.ch}
    /\ isr' = IF func[isr.ch] # NONE THEN [isr EXCEPT !.at = "handler"]
                                     ELSE [at |-> "loop", ch |-> isr.ch + 1]
    /\ UNCHANGED <<func, arg, eic, mux, nvic, tp, hist>>

\* Mutation of IrqReturns: the flag is cleared once the handler is through.
IrqReturnsClearing ==
    /\ isr.at = "handler"
    /\ isr' = [at |-> "loop", ch |-> isr.ch + 1] /\ intflag' = intflag \ {isr.ch}
    /\ UNCHANGED <<func, arg, sense, inten, mux, nvic, tp, due, hist>>

\* The handler has done what it wants and returns: it may have disabled its
\* channel, as the WINC1500's does, or released its pin.
IrqReturns ==
    /\ isr.at = "handler"
    /\ isr' = [at |-> "loop", ch |-> isr.ch + 1]
    /\ \/ UNCHANGED <<func, inten, hist>>
       \/ inten' = inten \ {isr.ch} /\ UNCHANGED <<func, hist>>
       \/ inten' = inten \ {isr.ch} /\ func[isr.ch] # NONE /\ Released(func[isr.ch])
    /\ UNCHANGED <<arg, sense, intflag, mux, nvic, tp, due>>

-----------------------------------------------------------------------------

Call(t, p) ==
    /\ calls < MaxCalls /\ calls' = calls + 1
    /\ \/ \E trig \in Trigs : hal_gpio_irq_init(t, p, trig)
       \/ hal_gpio_irq_enable(t, p) \/ hal_gpio_irq_disable(t, p)
       \/ hal_gpio_irq_release(t, p) \/ hal_gpio_init(t, p)

Step(t) == (SetFunc(t) \/ SetArg(t) \/ SetMux(t) \/ SetConfig(t) \/ ClearFunc(t)) /\ UNCHANGED calls

\* A task runs while the interrupt does not.
TaskRuns(t) == isr.at = "off" /\ (Step(t) \/ \E p \in Pins : Call(t, p)) /\ UNCHANGED isr

hal_gpio_irq == (IrqEnters \/ IrqNext \/ IrqClears \/ IrqCalls \/ IrqReturns) /\ UNCHANGED calls

Next ==
    \/ \E t \in Tasks : TaskRuns(t)
    \/ \E p \in Pins : Detected(p) /\ UNCHANGED calls
    \/ hal_gpio_irq

Spec == Init /\ [][Next]_vars

-----------------------------------------------------------------------------
(* Properties *)

\* The tasks are alike.
Symmetric == Permutations(Tasks)

\* A pin for which hal_gpio_irq_init has returned 0 keeps its handler, its
\* argument, its trigger and its switch to the EIC until it is released or made
\* a plain pin again, whatever is done to other pins; and a handler is called
\* with its own argument.  The code's races end this: two callers at one
\* channel, or writing back one CONFIG register, and, for the argument, a flag
\* the channel's last owner has left.
HeldUntilReleased ==
    /\ \A p \in Usable : held[p] # "none" /\ Chan(p) \notin spoilt =>
         func[Chan(p)] = p /\ arg[Chan(p)] = p /\ sense[Chan(p)] = held[p] /\ p \in mux
    /\ isr.at = "handler" /\ isr.ch \notin spoilt \cup reused => arg[isr.ch] = func[isr.ch]

\* What a channel detects after its handler was last called is not forgotten:
\* the flag is still set, or hal_gpio_irq is on its way to the handler.
NoLostEdge ==
    \A c \in due : c \in intflag \/ (isr.at = "call" /\ isr.ch = c)
=============================================================================
