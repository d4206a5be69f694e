------------------------------ MODULE ByteQueue ------------------------------
(***************************************************************************)
(* What one direction of the serial driver promises: a bounded queue that  *)
(* hands every byte it accepted to its taker, once and in order.  The two  *)
(* rings of Usart2 implement it.                                           *)
(***************************************************************************)
EXTENDS Naturals, Sequences

CONSTANTS
    Byte,      \* what is queued
    Capacity   \* how many the queue holds

VARIABLES
    queue,     \* accepted and not taken
    taken      \* the byte taken last

Init == queue = <<>> /\ taken = "none"

Put(b) ==
    /\ Len(queue) < Capacity
    /\ queue' = Append(queue, b) /\ UNCHANGED taken

Take ==
    /\ queue # <<>>
    /\ taken' = Head(queue) /\ queue' = Tail(queue)

Next == Take \/ \E b \in Byte : Put(b)

Spec == Init /\ [][Next]_<<queue, taken>>

=============================================================================
