----------------------------- MODULE BoundedFifo -----------------------------
(***************************************************************************)
(* What a ring buffer promises its two users: a first-in first-out queue   *)
(* of at most Size bytes, whose Put refuses only when Size bytes wait and  *)
(* whose Get refuses only when none does.  The result of the last call is  *)
(* part of the interface.                                                  *)
(***************************************************************************)
EXTENDS Integers, Sequences

CONSTANTS
    Byte,   \* the bytes that can be stored
    Size    \* how many of them fit

VARIABLES
    queue,  \* the bytes waiting, oldest first
    last    \* the last call: operation, return code, byte moved

vars == <<queue, last>>

Init ==
    /\ queue = <<>>
    /\ last = [op |-> "init", rc |-> 0, byte |-> 0]

Put(c) ==
    \/ /\ Len(queue) < Size
       /\ queue' = Append(queue, c)
       /\ last' = [op |-> "put", rc |-> 0, byte |-> c]
    \/ /\ Len(queue) = Size
       /\ last' = [op |-> "put", rc |-> -1, byte |-> c]
       /\ UNCHANGED queue

Get ==
    \/ /\ queue # <<>>
       /\ queue' = Tail(queue)
       /\ last' = [op |-> "get", rc |-> 0, byte |-> Head(queue)]
    \/ /\ queue = <<>>
       /\ last' = [op |-> "get", rc |-> -1, byte |-> 0]
       /\ UNCHANGED queue

Next == (\E c \in Byte : Put(c)) \/ Get

Spec == Init /\ [][Next]_vars
=============================================================================
