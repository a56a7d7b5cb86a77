--------------------------- MODULE WincSocketSync ---------------------------
(***************************************************************************)
(* The socket calls that wait for the WINC1500: mn_bind and mn_listen in   *)
(* libs/winc1500/src/winc1500_socket.c, for one socket and the task that   *)
(* uses it.  The task gives the interface mutex away while it waits on the *)
(* semaphore; the Wi-Fi task handles a reply with the mutex held, which    *)
(* makes that one step.  Replies to bind and listen carry no session.      *)
(***************************************************************************)
EXTENDS WincSocket, Sequences, FiniteSets

CONSTANTS
    Types,      \* types of socket the task creates: "stream", "dgram"
    MaxCalls    \* bound: calls that wait

ASSUME SyncAssumption ==
    /\ Types \subseteq {"stream", "dgram"} /\ Types # {}
    /\ MaxCalls \in Nat

\* A sample of the codes of socket.h: no error, the address is in use, invalid.
Statuses == {0, -2, -9}

VARIABLES
    ws_waiting, ws_err, ws_poll,
    ws_sem,         \* tokens of the semaphore
    pc,             \* "idle", "pending", "woken", "timeout"
    rc,             \* what the last call that waited returned
    asked,          \* calls the chip has not answered, each with a number
    \* history
    calls,
    status,         \* what the chip answered to each call
    source,         \* the call whose reply ws_err is from, 0 for none of them
    result,         \* the call whose reply the last call returned
    clean,          \* no request was unanswered when the call was made
    disturbed       \* a call or a poll on this socket has gone wrong

syncVars == <<ws_type, ws_waiting, ws_err, ws_poll, ws_sem, pc, rc, asked, calls, opened,
              status, source, result, clean, disturbed>>

SyncInit ==
    /\ Unused /\ ws_waiting = FALSE /\ ws_err = 0 /\ ws_poll = FALSE
    /\ ws_sem = 0 /\ pc = "idle" /\ rc = "0" /\ asked = {}
    /\ calls = 0 /\ status = [c \in 1 .. MaxCalls |-> 0]
    /\ source = 0 /\ result = 0 /\ clean = FALSE /\ disturbed = FALSE

-----------------------------------------------------------------------------

\* winc1500_err_to_mn_err, for the codes of Statuses.
ErrToMnErr(err) ==
    CASE err = 0 -> "0" [] err = -2 -> "MN_EADDRINUSE" [] err = -9 -> "MN_EINVAL"
      [] OTHER -> "MN_EUNKNOWN"

\* Mutation of SyncCreate: the semaphore keeps its tokens.
SyncCreateKeepsTokens ==
    /\ pc = "idle" /\ \E type \in Types : Opens(type)
    /\ ws_waiting' = FALSE /\ ws_err' = 0
    /\ disturbed' = (asked # {})
    /\ UNCHANGED <<ws_sem, ws_poll, pc, rc, asked, calls, status, source, result, clean>>

SyncCreate ==
    /\ pc = "idle" /\ \E type \in Types : Opens(type)
    /\ ws_sem' = 0 /\ ws_waiting' = FALSE /\ ws_err' = 0
    /\ disturbed' = (asked # {})
    /\ UNCHANGED <<ws_poll, pc, rc, asked, calls, status, source, result, clean>>

SyncClose ==
    /\ pc = "idle" /\ Closes
    /\ ws_poll' = FALSE
    /\ UNCHANGED <<ws_waiting, ws_err, ws_sem, pc, rc, asked, calls, status, source, result,
                   clean, disturbed>>

\* winc1500_sock_bind or winc1500_sock_listen, up to the wait.  A request
\* that cannot be sent makes the call return and changes nothing.
SockCall(op) ==
    /\ pc = "idle" /\ ws_type # "none" /\ calls < MaxCalls
    /\ calls' = calls + 1
    /\ asked' = asked \cup {[call |-> calls + 1, op |-> op]}
    /\ ws_waiting' = TRUE
    /\ pc' = "pending"
    /\ clean' = (asked = {})
    /\ UNCHANGED <<ws_type, ws_err, ws_poll, ws_sem, rc, opened, status, source, result,
                   disturbed>>

\* os_sem_pend gets a token, or the second is over.
Woken ==
    /\ pc = "pending" /\ ws_sem > 0
    /\ ws_sem' = ws_sem - 1 /\ pc' = "woken"
    /\ UNCHANGED <<ws_type, ws_waiting, ws_err, ws_poll, rc, asked, calls, opened, status,
                   source, result, clean, disturbed>>

\* Mutation of TimeOut: the wait has no limit.
TimeOutNever == FALSE /\ UNCHANGED syncVars

TimeOut ==
    /\ pc = "pending" /\ ws_sem = 0
    /\ pc' = "timeout" /\ disturbed' = TRUE
    /\ UNCHANGED <<ws_type, ws_waiting, ws_err, ws_poll, ws_sem, rc, asked, calls, opened,
                   status, source, result, clean>>

\* The task has the mutex back.
WaitReturns ==
    /\ ws_waiting' = FALSE /\ pc' = "idle"
    /\ \/ /\ pc = "woken"
          /\ rc' = ErrToMnErr(ws_err) /\ ws_err' = 0
          /\ result' = source
       \/ /\ pc = "timeout"
          /\ rc' = "MN_ETIMEDOUT" /\ result' = calls
          /\ UNCHANGED ws_err
    /\ UNCHANGED <<ws_type, ws_poll, ws_sem, asked, calls, opened, status, source, clean,
                   disturbed>>

-----------------------------------------------------------------------------
(* winc1500_sock_cb *)

\* winc1500_sock_wake, with a code that becomes a uint8_t.
SockWake(err, call) ==
    IF ws_waiting
      THEN ws_err' = err % 256 /\ ws_sem' = ws_sem + 1 /\ source' = call
      ELSE UNCHANGED <<ws_err, ws_sem, source>>

\* The chip answers; after a bind a datagram socket is polled.
Reply ==
    /\ \E q \in asked, err \in Statuses :
        /\ asked' = asked \ {q}
        /\ status' = [status EXCEPT ![q.call] = err]
        /\ SockWake(err, q.call)
        /\ ws_poll' = (ws_poll \/ (q.op = "bind" /\ ws_type = "dgram"))
    /\ UNCHANGED <<ws_type, ws_waiting, pc, rc, calls, opened, result, clean, disturbed>>

\* A poll of the socket ends with an error.
RecvError ==
    /\ ws_poll
    /\ ws_poll' = FALSE /\ disturbed' = TRUE
    /\ SockWake(-9, 0)
    /\ UNCHANGED <<ws_type, ws_waiting, pc, rc, asked, calls, opened, status, result, clean>>

-----------------------------------------------------------------------------

SyncNext ==
    \/ SyncCreate \/ SyncClose \/ SockCall("bind") \/ SockCall("listen")
    \/ Woken \/ TimeOut \/ WaitReturns \/ Reply \/ RecvError

SyncSpec == SyncInit /\ [][SyncNext]_syncVars

\* A task that can run runs, and the semaphore's time-out fires.  Nothing
\* makes the chip answer.
SyncFairSpec == SyncSpec /\ WF_syncVars(Woken) /\ WF_syncVars(TimeOut) /\ WF_syncVars(WaitReturns)

-----------------------------------------------------------------------------
(* Properties *)

\* A call that returns the answer to its own request reports success exactly
\* if the chip did.  Which error it was does not survive: ws_err is a uint8_t
\* and the codes are negative.
SuccessKept ==
    pc = "idle" /\ calls > 0 /\ result = calls /\ rc # "MN_ETIMEDOUT" =>
        (rc = "0") = (status[calls] = 0)

\* A call that is woken is about to return the answer to its own request, as
\* long as no call on this socket has timed out and no poll of it has failed:
\* what is left over from the socket's last use does not count.  And what it
\* returns tells success from failure.
OwnAnswer ==
    /\ pc = "woken" /\ clean /\ ~disturbed => source = calls
    /\ SuccessKept

\* Every call comes back, even if the chip never answers.
EveryCallReturns == pc = "pending" ~> pc = "idle"
=============================================================================
