------------------------------- MODULE RxFifo -------------------------------
(***************************************************************************)
(* What a serial port promises to the program that reads it: a queue of at *)
(* most Capacity bytes.  The receive interrupt appends to the queue or,    *)
(* when it is full, discards the NEW byte; read takes the oldest byte or   *)
(* answers None; available answers a number of bytes that are there; flush *)
(* empties the queue.  RxRing implements this specification.               *)
(***************************************************************************)
EXTENDS Naturals, Sequences

CONSTANTS Capacity,    \* bytes the queue can hold
          Byte,        \* the byte values
          None         \* what read answers when there is nothing

VARIABLES queue,       \* received and not yet taken, oldest first
          answer       \* what the last completed call returned

fifoVars == <<queue, answer>>

FifoInit ==
    /\ queue = <<>>
    /\ answer = None

Arrive(b) ==
    /\ queue' = IF Len(queue) < Capacity THEN Append(queue, b) ELSE queue
    /\ UNCHANGED answer

Take ==
    /\ queue # <<>>
    /\ answer' = Head(queue)
    /\ queue' = Tail(queue)

TakeNone ==
    /\ queue = <<>>
    /\ answer' = None
    /\ UNCHANGED queue

Report(n) ==
    /\ n <= Len(queue)
    /\ answer' = n
    /\ UNCHANGED queue

Discard ==
    /\ queue' = <<>>
    /\ UNCHANGED answer

FifoNext ==
    \/ \E b \in Byte : Arrive(b)
    \/ Take
    \/ TakeNone
    \/ \E n \in 0..Capacity : Report(n)
    \/ Discard

FifoSpec == FifoInit /\ [][FifoNext]_fifoVars
=============================================================================
