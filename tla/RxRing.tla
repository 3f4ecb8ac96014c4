------------------------------- MODULE RxRing -------------------------------
(***************************************************************************)
(* The receive ring buffer of a USART (struct ring_buffer and the methods  *)
(* of HardwareSerial) as two actors share it: the receive interrupt, which *)
(* runs store_char to its end, and the main program, whose available, read *)
(* and flush are sequences of loads and stores that the interrupt can      *)
(* split.  Indices are below Size <= 256, so the high byte of the 16-bit   *)
(* head and tail is always 0 and one load or store of them is atomic.      *)
(***************************************************************************)
EXTENDS Integers, Sequences

CONSTANTS Size,        \* RX_BUFFER_SIZE
          Byte,        \* the byte values
          Zero,        \* the byte the buffer is filled with at start
          None         \* read's -1

ASSUME SizeAssumption == Size \in Nat /\ Size >= 2
ASSUME ByteAssumption == Zero \in Byte /\ None \notin Byte

VARIABLES
    buffer, head, tail,  \* struct ring_buffer
    pc,                  \* where the main program is
    loadedHead,          \* available: the head it loaded
    loadedTail,          \* flush: the tail it loaded
    c,                   \* read: the byte it fetched
    answer,              \* what the last completed call returned
    pending,             \* history: bytes stored and not yet taken, in order
    promised             \* history: reads the last available() vouched for

ringVars == <<buffer, head, tail>>
vars == <<buffer, head, tail, pc, loadedHead, loadedTail, c, answer,
          pending, promised>>

Index == 0..(Size - 1)

AdvanceNoWrap(i) == i + 1
Advance(i) == (i + 1) % Size

\* The value available() computes from a head and a tail.
Count(h, t) == (Size + h - t) % Size

Init ==
    /\ buffer = [i \in Index |-> Zero]
    /\ head = 0
    /\ tail = 0
    /\ pc = "idle"
    /\ loadedHead = 0
    /\ loadedTail = 0
    /\ c = Zero
    /\ answer = None
    /\ pending = <<>>
    /\ promised = 0

-----------------------------------------------------------------------------
\* Faulty store_chars: one without the test for a full ring, one that makes
\* room by dropping the oldest byte from the interrupt.
StoreCharNoTest(b) ==
    /\ buffer' = [buffer EXCEPT ![head] = b]
    /\ head' = Advance(head)
    /\ pending' = Append(pending, b)
    /\ UNCHANGED <<tail, pc, loadedHead, loadedTail, c, answer, promised>>

StoreCharDropOldest(b) ==
    /\ buffer' = [buffer EXCEPT ![head] = b]
    /\ head' = Advance(head)
    /\ IF Advance(head) # tail
       THEN /\ pending' = Append(pending, b)
            /\ UNCHANGED tail
       ELSE /\ pending' = Append(Tail(pending), b)
            /\ tail' = Advance(tail)
    /\ UNCHANGED <<pc, loadedHead, loadedTail, c, answer, promised>>

\* The interrupt: store_char keeps the byte unless head would reach tail.
StoreChar(b) ==
    /\ IF Advance(head) # tail
       THEN /\ buffer' = [buffer EXCEPT ![head] = b]
            /\ head' = Advance(head)
            /\ pending' = Append(pending, b)
       ELSE UNCHANGED <<buffer, head, pending>>
    /\ UNCHANGED <<tail, pc, loadedHead, loadedTail, c, answer, promised>>

-----------------------------------------------------------------------------
\* available(): load head, then load tail and return the difference.
AvailableLoad ==
    /\ pc = "idle"
    /\ loadedHead' = head
    /\ pc' = "available"
    /\ UNCHANGED <<ringVars, loadedTail, c, answer, pending, promised>>

AvailableOneMore ==
    /\ pc = "available"
    /\ answer' = Count(loadedHead + 1, tail)
    /\ promised' = Count(loadedHead + 1, tail)
    /\ pc' = "idle"
    /\ UNCHANGED <<ringVars, loadedHead, loadedTail, c, pending>>

AvailableReturn ==
    /\ pc = "available"
    /\ answer' = Count(loadedHead, tail)
    /\ promised' = Count(loadedHead, tail)
    /\ pc' = "idle"
    /\ UNCHANGED <<ringVars, loadedHead, loadedTail, c, pending>>

-----------------------------------------------------------------------------
\* read(): test for empty, fetch the byte, then give its slot back.
ReadEmpty ==
    /\ pc = "idle"
    /\ head = tail
    /\ answer' = None
    /\ promised' = 0
    /\ UNCHANGED <<ringVars, pc, loadedHead, loadedTail, c, pending>>

ReadTest ==
    /\ pc = "idle"
    /\ head # tail
    /\ pc' = "fetch"
    /\ UNCHANGED <<ringVars, loadedHead, loadedTail, c, answer, pending,
                   promised>>

ReadFetch ==
    /\ pc = "fetch"
    /\ c' = buffer[tail]
    /\ pc' = "advance"
    /\ UNCHANGED <<ringVars, loadedHead, loadedTail, answer, pending,
                   promised>>

ReadAdvance ==
    /\ pc = "advance"
    /\ tail' = Advance(tail)
    /\ answer' = c
    /\ pending' = Tail(pending)
    /\ promised' = IF promised > 0 THEN promised - 1 ELSE 0
    /\ pc' = "idle"
    /\ UNCHANGED <<buffer, head, loadedHead, loadedTail, c>>

-----------------------------------------------------------------------------
\* flush(): load tail, then store it in head.
FlushLoad ==
    /\ pc = "idle"
    /\ loadedTail' = tail
    /\ pc' = "flush"
    /\ UNCHANGED <<ringVars, loadedHead, c, answer, pending, promised>>

FlushStore ==
    /\ pc = "flush"
    /\ head' = loadedTail
    /\ pending' = <<>>
    /\ promised' = 0
    /\ pc' = "idle"
    /\ UNCHANGED <<buffer, tail, loadedHead, loadedTail, c, answer>>

Main ==
    \/ AvailableLoad \/ AvailableReturn
    \/ ReadEmpty \/ ReadTest \/ ReadFetch \/ ReadAdvance
    \/ FlushLoad \/ FlushStore

Next == Main \/ \E b \in Byte : StoreChar(b)

Spec == Init /\ [][Next]_vars

-----------------------------------------------------------------------------
\* Every variable has its type: the indices stay inside the buffer.
TypeOK ==
    /\ buffer \in [Index -> Byte]
    /\ head \in Index
    /\ tail \in Index
    /\ pc \in {"idle", "available", "fetch", "advance", "flush"}
    /\ loadedHead \in Index
    /\ loadedTail \in Index
    /\ c \in Byte
    /\ answer \in Byte \cup {None} \cup Index
    /\ pending \in Seq(Byte)
    /\ promised \in Index

\* The slots from tail up to head hold the stored and untaken bytes in their
\* order: no interleaving of store_char with read or flush skips, repeats or
\* overwrites one (HardwareSerial::read and store_char share buffer[]).
WindowIsPending ==
    /\ Len(pending) = Count(head, tail)
    /\ \A i \in 1..Len(pending) : buffer[(tail + (i - 1)) % Size] = pending[i]

\* A caller that saw available() answer n can read n times and get a byte each
\* time, whatever arrives in between (insula_read and check_msg rely on it).
PromiseKept == promised <= Count(head, tail)

\* The inductive invariant: the facts above and, at each point inside a call,
\* what the loads already made still say of the ring.
Midway ==
    /\ pc \in {"fetch", "advance"} => head # tail
    /\ pc = "advance" => c = buffer[tail]
    /\ pc = "flush" => loadedTail = tail
    /\ pc = "available" => Count(loadedHead, tail) <= Count(head, tail)

IInv == TypeOK /\ WindowIsPending /\ PromiseKept /\ Midway

\* The ring implements the queue of RxFifo: bytes come out in the order they
\* were received, one is refused only when Size - 1 are waiting, flush leaves
\* nothing behind, and each call answers what the queue allows.
Fifo == INSTANCE RxFifo WITH Capacity <- Size - 1, queue <- pending
ImplementsFifo == Fifo!FifoSpec
=============================================================================
