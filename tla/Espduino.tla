------------------------------ MODULE Espduino ------------------------------
(***************************************************************************)
(* libs/espduino/src/espduino.c and rest.c: requests to an ESP8266 behind  *)
(* a serial line, and the wait for its answers.                            *)
(*                                                                         *)
(* A frame is three tokens: SLIP_START, the body (everything between the   *)
(* markers, its CRC included; EspSlip models the escaping inside it) and   *)
(* SLIP_END.  The line and the two ring buffers carry tokens, so that a    *)
(* marker or a body can be lost on its own.  A damaged body fails the CRC. *)
(* The UART callbacks, the ESP8266 and the clock run beside the one task   *)
(* that makes the calls.                                                   *)
(***************************************************************************)
EXTENDS Integers, Sequences, SequencesExt

CONSTANTS
    Ops,        \* the calls the task makes
    TxSize,     \* capacity of e_tx, in tokens
    RxSize,     \* capacity of e_rx, in tokens
    Timo,       \* ticks a call waits for an answer
    TimeMod,    \* modulus of the operating system's clock (2^32)
    MaxSkip,    \* ticks that pass at most between two looks at the clock,
    ReadySkip,  \* and in esp_ready
    Tries,      \* attempts of esp_ready (5)
    MaxReq,     \* bound: requests sent in a behaviour
    MaxNoise    \* bound: tokens the line loses or damages

ASSUME EspAssumption ==
    /\ Ops \subseteq {"ready", "reset", "begin", "header", "request",
                      "response", "process"}
    /\ TxSize \in Nat \ {0} /\ RxSize \in Nat \ {0}
    /\ Timo \in Nat \ {0} /\ MaxSkip \in Nat \ {0} /\ ReadySkip \in 1 .. MaxSkip
    /\ TimeMod \in Nat /\ TimeMod > 2 * (Timo + MaxSkip)
    /\ Tries \in Nat \ {0} /\ MaxReq \in Nat /\ MaxNoise \in Nat

VARIABLES
    \* the library
    e_tx, e_rx,         \* the ring buffers
    first,              \* the frame the parser's buffer starts with
    dataLen,            \* bodies since the last SLIP_START, 0 or 1 (more)
    e_is_return, e_cur_cmd, e_cur_cb, e_return_value,
    \* struct esp_rest and esp_rest_in_prog
    remote_instance, res, in_prog,
    \* the task
    pc, op, out, tries,
    \* the world
    left,               \* end - os_time_get(), a 32-bit value, while waiting
    skip,               \* ticks since the task last looked at the clock
    heard,              \* what the ESP8266 has of the frame being received
    pending,            \* requests it has not answered
    line,               \* tokens it is sending
    \* history
    nreq,               \* requests sent
    noise,              \* tokens lost or damaged, a full e_rx included
    owed,               \* an older answer was outstanding when this call began
    taken               \* answers accepted, as <<cmd, id>>

rest == <<remote_instance, res, in_prog>>
library == <<e_tx, e_rx, first, dataLen, e_is_return, e_cur_cmd, e_cur_cb,
             e_return_value>>
task == <<pc, op, out, tries>>
clock == <<left, skip>>
world == <<heard, pending, line>>
history == <<nreq, noise, owed, taken>>
vars == <<library, rest, task, clock, world, history>>

Token(kind, cmd, id, val) == [kind |-> kind, cmd |-> cmd, id |-> id, val |-> val]
Nothing == Token("bad", "none", 0, 0)    \* fails the CRC

\* SLIP_START, the body and SLIP_END.  Command and number are in the body;
\* only the history variables read them off a marker.
Frame(cmd, id, val) ==
    <<Token("start", cmd, id, 0), Token("body", cmd, id, val), Token("end", cmd, id, 0)>>

\* The request a call sends, and the answer the ESP8266 gives to a request.
Command(o) == CASE o = "ready"    -> "CMD_IS_READY"
                [] o = "reset"    -> "CMD_RESET"
                [] o = "begin"    -> "CMD_REST_SETUP"
                [] o = "header"   -> "CMD_REST_SETHEADER"
                [] o = "request"  -> "CMD_REST_REQUEST"
                [] o = "response" -> "CMD_REST_EVENTS"
AnswerTo(cmd) == IF cmd = "CMD_REST_REQUEST" THEN "CMD_REST_EVENTS" ELSE cmd

Init ==
    /\ e_tx = <<>> /\ e_rx = <<>>
    /\ first = Nothing /\ dataLen = 0
    /\ e_is_return = FALSE /\ e_cur_cmd = "none" /\ e_cur_cb = FALSE
    /\ e_return_value = Nothing
    /\ remote_instance = 0 /\ res = FALSE /\ in_prog = FALSE
    /\ pc = "idle" /\ op = "none" /\ out = <<>> /\ tries = 0
    /\ left = 0 /\ skip = 0
    /\ heard = <<>> /\ pending = <<>> /\ line = <<>>
    /\ nreq = 0 /\ noise = 0 /\ owed = FALSE /\ taken = <<>>

\* The requests on their way to the ESP8266 or being answered.
Outstanding == {x \in UNION {Range(s) : s \in {e_tx, heard, pending, line, e_rx}} :
                    x.id # 0}

-----------------------------------------------------------------------------
(* Sending *)

\* esp_request_start, _cont and _end: the frame to be written.
Request(o) ==
    /\ nreq' = nreq + 1
    /\ out' = Frame(Command(o), nreq + 1, 0)
    /\ owed' = \E x \in Outstanding : AnswerTo(x.cmd) = Command(o)
    /\ pc' = "send"

\* esp_ready clears the flag before it sends; a wait clears it after.
EspReady ==
    /\ pc = "idle" /\ "ready" \in Ops /\ nreq + Tries <= MaxReq
    /\ op' = "ready" /\ tries' = Tries
    /\ e_is_return' = FALSE
    /\ Request("ready")
    /\ UNCHANGED <<e_tx, e_rx, first, dataLen, e_cur_cmd, e_cur_cb, e_return_value,
                   rest, clock, world, noise, taken>>

\* esp_reset, esp_rest_begin, the three header setters and esp_rest_request,
\* which does nothing without an instance.
CallSends(o) ==
    /\ pc = "idle" /\ o \in Ops \cap {"reset", "begin", "header", "request"}
    /\ o = "request" => remote_instance # 0
    /\ nreq < MaxReq
    /\ op' = o
    /\ Request(o)
    /\ UNCHANGED <<library, rest, tries, clock, world, noise, taken>>

\* esp_uart_write waits for room in e_tx; esp_request_start records the
\* command once the header is written.
WriteToken ==
    /\ pc = "send" /\ out # <<>>
    /\ Len(e_tx) < TxSize
    /\ e_tx' = Append(e_tx, Head(out))
    /\ out' = Tail(out)
    /\ IF Head(out).kind = "body"
         THEN e_cur_cmd' = Head(out).cmd /\ e_cur_cb' = FALSE
         ELSE UNCHANGED <<e_cur_cmd, e_cur_cb>>
    /\ UNCHANGED <<e_rx, first, dataLen, e_is_return, e_return_value, rest, pc, op,
                   tries, clock, world, history>>

\* The frame is written: calls without an answer return.
SentNoWait ==
    /\ pc = "send" /\ out = <<>>
    /\ op \in {"reset", "request"}
    /\ pc' = "idle" /\ op' = "none"
    /\ UNCHANGED <<library, rest, out, tries, clock, world, history>>

\* Mutation of SentWait: the flag of an earlier answer stays.
SentWaitKeepsFlag ==
    /\ pc = "send" /\ out = <<>>
    /\ op \in {"ready", "begin", "header"}
    /\ pc' = "look"
    /\ left' = Timo /\ skip' = 0
    /\ UNCHANGED <<library, rest, op, out, tries, world, history>>

\* The others compute their deadline and wait.
SentWait ==
    /\ pc = "send" /\ out = <<>>
    /\ op \in {"ready", "begin", "header"}
    /\ pc' = "look"
    /\ left' = Timo /\ skip' = 0
    /\ e_is_return' = IF op = "ready" THEN e_is_return ELSE FALSE
    /\ UNCHANGED <<e_tx, e_rx, first, dataLen, e_cur_cmd, e_cur_cb, e_return_value,
                   rest, op, out, tries, world, history>>

\* Mutation of GetResponse: the flag of an earlier answer stays.
GetResponseKeepsFlag ==
    /\ pc = "idle" /\ "response" \in Ops
    /\ op' = "response"
    /\ res' = FALSE /\ in_prog' = TRUE
    /\ e_cur_cmd' = "CMD_REST_EVENTS" /\ e_cur_cb' = TRUE
    /\ left' = Timo /\ skip' = 0
    /\ pc' = "look"
    /\ owed' = \E x \in Outstanding : x.id # nreq
    /\ UNCHANGED <<e_tx, e_rx, first, dataLen, e_is_return, e_return_value,
                   remote_instance, out, tries, world, nreq, noise, taken>>

\* esp_rest_get_response: esp_wait_for and the wait.
GetResponse ==
    /\ pc = "idle" /\ "response" \in Ops
    /\ op' = "response"
    /\ res' = FALSE /\ in_prog' = TRUE
    /\ e_cur_cmd' = "CMD_REST_EVENTS" /\ e_cur_cb' = TRUE
    /\ e_is_return' = FALSE
    /\ left' = Timo /\ skip' = 0
    /\ pc' = "look"
    /\ owed' = \E x \in Outstanding : x.id # nreq
    /\ UNCHANGED <<e_tx, e_rx, first, dataLen, e_return_value, remote_instance, out,
                   tries, world, nreq, noise, taken>>

\* The application calls esp_process itself.
CallProcess ==
    /\ pc = "idle" /\ "process" \in Ops
    /\ op' = "process" /\ pc' = "proc"
    /\ UNCHANGED <<library, rest, out, tries, clock, world, history>>

-----------------------------------------------------------------------------
(* Waiting *)

Signed(d) == IF 2 * d >= TimeMod THEN d - TimeMod ELSE d

\* Mutation of TimeLeft: the other wait, too, misses a deadline gone by.
TimeLeftUnsigned == left # 0

\* esp_wait_return_timo compares signed values.  In esp_ready os_time_get()
\* is not cast, the difference is unsigned and only equality ends the wait.
TimeLeft == IF op = "ready" THEN left # 0 ELSE Signed(left) > 0

\* The head of the loop: look at the clock, then run esp_process.
LookGoesOn ==
    /\ pc = "look" /\ ~e_is_return /\ TimeLeft
    /\ pc' = "proc"
    /\ skip' = 0
    /\ UNCHANGED <<library, rest, op, out, tries, left, world, history>>

\* The loop ends, with an answer or without.
LookEnds == pc = "look" /\ (e_is_return \/ ~TimeLeft)

Return == pc' = "idle" /\ op' = "none" /\ tries' = 0 /\ left' = 0 /\ skip' = 0

\* esp_ready gives up an attempt and sends the request again.
ReadyAgain ==
    /\ LookEnds /\ op = "ready"
    /\ ~(e_is_return /\ e_return_value.val # 0)
    /\ tries > 1
    /\ tries' = tries - 1
    /\ e_is_return' = FALSE
    /\ Request("ready")
    /\ UNCHANGED <<e_tx, e_rx, first, dataLen, e_cur_cmd, e_cur_cb, e_return_value,
                   rest, op, clock, world, noise, taken>>

ReadyReturns ==
    /\ LookEnds /\ op = "ready"
    /\ (e_is_return /\ e_return_value.val # 0) \/ tries = 1
    /\ Return
    /\ UNCHANGED <<library, rest, out, world, history>>

\* esp_rest_begin keeps the instance; the setters return the flag.
WaitReturns ==
    /\ LookEnds /\ op \in {"begin", "header"}
    /\ remote_instance' = IF op = "begin" /\ e_is_return
                          THEN e_return_value.val ELSE remote_instance
    /\ Return
    /\ UNCHANGED <<library, res, in_prog, out, world, history>>

\* esp_rest_get_response copies from the parser's buffer, where res points.
ResponseReturns ==
    /\ LookEnds /\ op = "response"
    /\ in_prog' = FALSE
    /\ Return
    /\ UNCHANGED <<library, remote_instance, res, out, world, history>>

-----------------------------------------------------------------------------
(* esp_process and esp_proto_completed_cb *)

\* Mutation of TakeStart: the frame before is not dropped.
TakeStartKeeps ==
    /\ pc = "proc" /\ e_rx # <<>> /\ Head(e_rx).kind = "start"
    /\ e_rx' = Tail(e_rx)
    /\ UNCHANGED <<e_tx, first, dataLen, e_is_return, e_cur_cmd, e_cur_cb,
                   e_return_value, rest, task, clock, world, history>>

\* SLIP_START: the buffer is filled from its beginning again.  What it holds
\* stays until it is overwritten.
TakeStart ==
    /\ pc = "proc" /\ e_rx # <<>> /\ Head(e_rx).kind = "start"
    /\ e_rx' = Tail(e_rx)
    /\ dataLen' = 0
    /\ UNCHANGED <<e_tx, first, e_is_return, e_cur_cmd, e_cur_cb, e_return_value,
                   rest, task, clock, world, history>>

\* The body goes behind what the buffer already holds.
TakeBody ==
    /\ pc = "proc" /\ e_rx # <<>> /\ Head(e_rx).kind \in {"body", "bad"}
    /\ e_rx' = Tail(e_rx)
    /\ first' = IF dataLen = 0 THEN Head(e_rx) ELSE first
    /\ dataLen' = 1
    /\ UNCHANGED <<e_tx, e_is_return, e_cur_cmd, e_cur_cb, e_return_value, rest,
                   task, clock, world, history>>

\* The CRC of the frame at the beginning of the buffer, and the command.
Accepted == first.kind = "body" /\ first.cmd = e_cur_cmd

\* SLIP_END: the frame is complete, accepted and handed to the callback, or
\* dropped.
TakeEnd ==
    /\ pc = "proc" /\ e_rx # <<>> /\ Head(e_rx).kind = "end"
    /\ e_rx' = Tail(e_rx)
    /\ IF Accepted
         THEN /\ e_is_return' = TRUE
              /\ e_return_value' = first
              /\ res' = (res \/ (e_cur_cb /\ in_prog))    \* esp_rest_cb
              /\ taken' = Append(taken, <<first.cmd, first.id>>)
         ELSE UNCHANGED <<e_is_return, e_return_value, res, taken>>
    /\ UNCHANGED <<e_tx, first, dataLen, e_cur_cmd, e_cur_cb, remote_instance,
                   in_prog, task, clock, world, nreq, noise, owed>>

\* e_rx is empty: back to the loop, or to the application.
ProcessReturns ==
    /\ pc = "proc" /\ e_rx = <<>>
    /\ IF op = "process" THEN pc' = "idle" /\ op' = "none"
                         ELSE pc' = "look" /\ UNCHANGED op
    /\ UNCHANGED <<library, rest, out, tries, clock, world, history>>

-----------------------------------------------------------------------------
(* The UART, the ESP8266 and the clock *)

\* espduino_uart_tx takes a token from e_tx and the ESP8266 receives it.  A
\* whole frame is a request; CMD_RESET makes it forget the others.
UartTx ==
    /\ e_tx # <<>>
    /\ e_tx' = Tail(e_tx)
    /\ heard' = IF Head(e_tx).kind = "start" THEN <<Head(e_tx)>>
                ELSE IF Head(e_tx).kind = "end" THEN <<>>
                ELSE Append(heard, Head(e_tx))
    /\ pending' = IF Head(e_tx).kind # "end" THEN pending
                  ELSE IF Last(heard).cmd = "CMD_RESET" THEN <<>>
                  ELSE Append(pending, Last(heard))
    /\ UNCHANGED <<e_rx, first, dataLen, e_is_return, e_cur_cmd, e_cur_cb,
                   e_return_value, rest, task, clock, line, history>>

PeerAnswers(val) ==
    /\ pending # <<>> /\ line = <<>>
    /\ line' = Frame(AnswerTo(Head(pending).cmd), Head(pending).id, val)
    /\ pending' = Tail(pending)
    /\ UNCHANGED <<library, rest, task, clock, heard, history>>

\* It may be starting, or not know the answer.
PeerIgnores ==
    /\ pending # <<>>
    /\ pending' = Tail(pending)
    /\ UNCHANGED <<library, rest, task, clock, heard, line, history>>

\* espduino_uart_rx: a full e_rx loses the token.
UartRx ==
    /\ line # <<>>
    /\ line' = Tail(line)
    /\ IF Len(e_rx) < RxSize
         THEN e_rx' = Append(e_rx, Head(line)) /\ UNCHANGED noise
         ELSE noise' = noise + 1 /\ UNCHANGED e_rx
    /\ UNCHANGED <<e_tx, first, dataLen, e_is_return, e_cur_cmd, e_cur_cb,
                   e_return_value, rest, task, clock, heard, pending, nreq, owed, taken>>

\* The line loses a token, or damages a body.
Noise ==
    /\ line # <<>> /\ noise < MaxNoise
    /\ noise' = noise + 1
    /\ \/ line' = Tail(line)
       \/ Head(line).kind = "body" /\ line' = <<Nothing>> \o Tail(line)
    /\ UNCHANGED <<library, rest, task, clock, heard, pending, nreq, owed, taken>>

\* The clock; it matters only while a call waits.
OsTick ==
    /\ pc \in {"look", "proc"} /\ op # "process"
    /\ skip < (IF op = "ready" THEN ReadySkip ELSE MaxSkip)
    /\ left' = (left - 1) % TimeMod
    /\ skip' = skip + 1
    /\ UNCHANGED <<library, rest, task, world, history>>

-----------------------------------------------------------------------------

Process == TakeStart \/ TakeBody \/ TakeEnd \/ ProcessReturns
Wait == LookGoesOn \/ ReadyAgain \/ ReadyReturns \/ WaitReturns \/ ResponseReturns
Send == WriteToken \/ SentNoWait \/ SentWait
Call == EspReady \/ (\E o \in Ops : CallSends(o)) \/ GetResponse \/ CallProcess
Peer == (\E val \in {0, 1} : PeerAnswers(val)) \/ PeerIgnores

Next == Process \/ Wait \/ Send \/ Call \/ Peer \/ UartTx \/ UartRx \/ Noise \/ OsTick

\* The task executes, the UART drains e_tx and the clock runs.  Nothing is
\* assumed of the ESP8266 or of the line.
Fairness ==
    /\ WF_vars(Process) /\ WF_vars(Wait) /\ WF_vars(Send)
    /\ WF_vars(UartTx) /\ WF_vars(OsTick)

Spec == Init /\ [][Next]_vars

FairSpec == Spec /\ Fairness

-----------------------------------------------------------------------------
(* Properties *)

\* A call that waits returns successfully.
Succeeds == LookEnds /\ e_is_return /\ pc' # "look"

\* A call that succeeds has the answer to a request of its command, made by
\* then: no lost or damaged byte makes one up.  On a line that loses nothing,
\* when no older answer was outstanding, it is the answer to its own request.
AnswerIsOwn ==
    [][Succeeds =>
        /\ e_return_value.cmd = AnswerTo(Command(op))
        /\ e_return_value.id \in 1 .. nreq
        /\ noise = 0 /\ ~owed /\ op \in {"ready", "begin", "header"}
             => e_return_value.id = nreq]_vars

\* On a line that loses nothing no answer is taken twice, and answers of one
\* command are taken in the order of the requests, even after time-outs.
TakenOnce ==
    noise = 0 => \A i, j \in 1 .. Len(taken) :
        i < j /\ taken[i][1] = taken[j][1] => taken[i][2] < taken[j][2]

\* esp_rest_get_response copies from the parser's buffer after esp_process
\* may have gone on parsing.  On a line that loses nothing, with no other
\* frame on its way, it still finds there the frame whose code it returns,
\* and that is the answer to the last request.
ResponseIntact ==
    [][Succeeds /\ op = "response" /\ noise = 0 /\ ~owed
        => res /\ first = e_return_value /\ first.id = nreq]_vars

\* Every call returns, whatever the ESP8266 and the line do; the exception is
\* an esp_ready that did not look at the clock on the tick of its deadline.
CallsReturn ==
    (pc # "idle") ~> (pc = "idle" \/ (op = "ready" /\ Signed(left) < 0))
=============================================================================
