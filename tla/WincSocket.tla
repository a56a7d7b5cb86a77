----------------------------- MODULE WincSocket -----------------------------
(***************************************************************************)
(* One entry of the table of sockets in libs/winc1500/src/                 *)
(* winc1500_socket.c: the index the application uses again and again, each *)
(* time as another socket of the chip.  The models of the calls that wait  *)
(* and of sending build on it.                                             *)
(***************************************************************************)
EXTENDS Integers

CONSTANT MaxOpen    \* bound: sockets created

ASSUME SocketAssumption == MaxOpen \in Nat

VARIABLES
    ws_type,    \* "none" for a socket that is closed
    opened      \* sockets created so far: the session of this one

Unused == ws_type = "none" /\ opened = 0

\* What winc1500_sock_create and winc1500_sock_close do to both.
Opens(type) ==
    /\ ws_type = "none" /\ opened < MaxOpen
    /\ ws_type' = type /\ opened' = opened + 1

Closes ==
    /\ ws_type # "none"
    /\ ws_type' = "none" /\ UNCHANGED opened
=============================================================================
