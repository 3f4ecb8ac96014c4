---------------------------- MODULE RxRing_proofs ----------------------------
(***************************************************************************)
(* For every buffer size and every set of byte values, the receive ring    *)
(* keeps its window and its promise and implements the queue of RxFifo.    *)
(***************************************************************************)
EXTENDS RxRing, TLAPS

-----------------------------------------------------------------------------
\* Index arithmetic: (i + 1) % Size is the successor that wraps to 0.
LEMMA AdvanceIndex ==
  ASSUME NEW i \in Index
  PROVE  /\ Advance(i) \in Index
         /\ i + 1 < Size => Advance(i) = i + 1
         /\ i + 1 = Size => Advance(i) = 0
<1>1. CASE i + 1 < Size
  BY <1>1, SizeAssumption DEF Index, Advance
<1>2. CASE i + 1 = Size
  <2>1. Size % Size = 0
    BY SizeAssumption
  <2>2. QED
    BY <1>2, <2>1, SizeAssumption DEF Index, Advance
<1>3. QED
  BY <1>1, <1>2, SizeAssumption DEF Index

\* available()'s formula is the distance from tail up to head, with the wrap.
LEMMA CountIndex ==
  ASSUME NEW h \in Index, NEW t \in Index
  PROVE  /\ Count(h, t) \in Index
         /\ t <= h => Count(h, t) = h - t
         /\ h < t => Count(h, t) = Size + h - t
<1>1. CASE t <= h
  <2>1. Size + h - t \in Nat /\ Size <= Size + h - t /\ Size + h - t < 2 * Size
    BY <1>1, SizeAssumption DEF Index
  <2>2. (Size + h - t) % Size = (Size + h - t) - Size
    BY <2>1, SizeAssumption
  <2>3. QED
    BY <1>1, <2>2, SizeAssumption DEF Index, Count
<1>2. CASE h < t
  <2>1. Size + h - t \in Nat /\ Size + h - t < Size
    BY <1>2, SizeAssumption DEF Index
  <2>2. (Size + h - t) % Size = Size + h - t
    BY <2>1, SizeAssumption
  <2>3. QED
    BY <1>2, <2>1, <2>2, SizeAssumption DEF Index, Count
<1>3. QED
  BY <1>1, <1>2, SizeAssumption DEF Index

\* The slot k places after t, for a k smaller than the buffer.
LEMMA SlotIndex ==
  ASSUME NEW t \in Index, NEW k \in Index
  PROVE  /\ (t + k) % Size \in Index
         /\ t + k < Size => (t + k) % Size = t + k
         /\ Size <= t + k => (t + k) % Size = t + k - Size
<1>1. CASE t + k < Size
  BY <1>1, SizeAssumption DEF Index
<1>2. CASE Size <= t + k
  <2>1. t + k < 2 * Size
    BY SizeAssumption DEF Index
  <2>2. (t + k) % Size = (t + k) - Size
    BY <1>2, <2>1, SizeAssumption DEF Index
  <2>3. QED
    BY <1>2, <2>1, <2>2, SizeAssumption DEF Index
<1>3. QED
  BY <1>1, <1>2, SizeAssumption DEF Index

\* Storing a byte makes the distance one longer, unless the ring is full.
LEMMA CountAfterStore ==
  ASSUME NEW h \in Index, NEW t \in Index
  PROVE  /\ Advance(h) # t => Count(Advance(h), t) = Count(h, t) + 1
         /\ Advance(h) = t => Count(h, t) = Size - 1
         /\ Advance(h) # t => Count(h, t) < Size - 1
<1>1. /\ Advance(h) \in Index
      /\ h + 1 < Size => Advance(h) = h + 1
      /\ h + 1 = Size => Advance(h) = 0
  BY AdvanceIndex
<1>2. /\ t <= h => Count(h, t) = h - t
      /\ h < t => Count(h, t) = Size + h - t
  BY CountIndex
<1>3. /\ t <= Advance(h) => Count(Advance(h), t) = Advance(h) - t
      /\ Advance(h) < t => Count(Advance(h), t) = Size + Advance(h) - t
  BY <1>1, CountIndex
<1>4. QED
  BY <1>1, <1>2, <1>3, SizeAssumption DEF Index

\* Taking a byte makes the distance one shorter.
LEMMA CountAfterTake ==
  ASSUME NEW h \in Index, NEW t \in Index, h # t
  PROVE  Count(h, Advance(t)) = Count(h, t) - 1
<1>1. /\ Advance(t) \in Index
      /\ t + 1 < Size => Advance(t) = t + 1
      /\ t + 1 = Size => Advance(t) = 0
  BY AdvanceIndex
<1>2. /\ t <= h => Count(h, t) = h - t
      /\ h < t => Count(h, t) = Size + h - t
  BY CountIndex
<1>3. /\ Advance(t) <= h => Count(h, Advance(t)) = h - Advance(t)
      /\ h < Advance(t) => Count(h, Advance(t)) = Size + h - Advance(t)
  BY <1>1, CountIndex
<1>4. QED
  BY <1>1, <1>2, <1>3, SizeAssumption DEF Index

\* The distance is 0 exactly when the indices are equal.
LEMMA CountZero ==
  ASSUME NEW h \in Index, NEW t \in Index
  PROVE  Count(h, t) = 0 <=> h = t
<1>1. /\ t <= h => Count(h, t) = h - t
      /\ h < t => Count(h, t) = Size + h - t
  BY CountIndex
<1>2. QED
  BY <1>1, SizeAssumption DEF Index

\* head itself is Count(head, tail) places after tail, and no nearer slot is.
LEMMA HeadIsFree ==
  ASSUME NEW h \in Index, NEW t \in Index
  PROVE  /\ (t + Count(h, t)) % Size = h
         /\ \A k \in Index : k < Count(h, t) => (t + k) % Size # h
<1>1. /\ Count(h, t) \in Index
      /\ t <= h => Count(h, t) = h - t
      /\ h < t => Count(h, t) = Size + h - t
  BY CountIndex
<1>2. (t + Count(h, t)) % Size = h
  <2>1. /\ t + Count(h, t) < Size => (t + Count(h, t)) % Size = t + Count(h, t)
        /\ Size <= t + Count(h, t)
             => (t + Count(h, t)) % Size = t + Count(h, t) - Size
    BY <1>1, SlotIndex
  <2>2. QED
    BY <1>1, <2>1, SizeAssumption DEF Index
<1>3. ASSUME NEW k \in Index, k < Count(h, t) PROVE (t + k) % Size # h
  <2>1. /\ t + k < Size => (t + k) % Size = t + k
        /\ Size <= t + k => (t + k) % Size = t + k - Size
    BY SlotIndex
  <2>2. QED
    BY <1>1, <1>3, <2>1, SizeAssumption DEF Index
<1>4. QED
  BY <1>2, <1>3
-----------------------------------------------------------------------------
\* The window after one more byte is stored at head.
LEMMA WindowAfterStore ==
  ASSUME TypeOK, WindowIsPending, NEW b \in Byte, StoreChar(b),
         Advance(head) # tail
  PROVE  WindowIsPending'
<1>1. /\ Advance(head) \in Index
      /\ head' = Advance(head) /\ tail' = tail
      /\ buffer' = [buffer EXCEPT ![head] = b]
      /\ pending' = Append(pending, b)
  BY AdvanceIndex DEF StoreChar, TypeOK
<1>2. /\ pending \in Seq(Byte) /\ Len(pending) \in Nat
      /\ Len(pending) = Count(head, tail)
      /\ Len(pending') = Len(pending) + 1
      /\ \A i \in 1..Len(pending) : pending'[i] = pending[i]
      /\ pending'[Len(pending) + 1] = b
  BY <1>1 DEF TypeOK, WindowIsPending
<1>3. Count(head', tail') = Len(pending) + 1 /\ Len(pending) < Size - 1
  BY <1>1, <1>2, CountAfterStore DEF TypeOK
<1>4. ASSUME NEW i \in 1..Len(pending')
      PROVE  buffer'[(tail' + (i - 1)) % Size] = pending'[i]
  <2>1. i - 1 \in Index
    BY <1>2, <1>3, SizeAssumption DEF Index
  <2>2. (tail + (i - 1)) % Size \in Index
    BY <2>1, SlotIndex DEF TypeOK
  <2>3. CASE i = Len(pending')
    <3>1. i - 1 = Count(head, tail)
      BY <1>2, <2>3
    <3>2. (tail + (i - 1)) % Size = head
      BY <3>1, HeadIsFree DEF TypeOK
    <3>3. QED
      BY <1>1, <1>2, <2>3, <3>2 DEF TypeOK
  <2>4. CASE i # Len(pending')
    <3>1. i \in 1..Len(pending) /\ i - 1 < Count(head, tail)
      BY <1>2, <2>4
    <3>2. (tail + (i - 1)) % Size # head
      BY <2>1, <3>1, HeadIsFree DEF TypeOK
    <3>3. buffer[(tail + (i - 1)) % Size] = pending[i]
      BY <3>1 DEF WindowIsPending
    <3>4. QED
      BY <1>1, <1>2, <2>2, <3>1, <3>2, <3>3 DEF TypeOK
  <2>5. QED
    BY <2>3, <2>4
<1>5. QED
  BY <1>2, <1>3, <1>4 DEF WindowIsPending

\* The window after its oldest byte is taken.
LEMMA WindowAfterTake ==
  ASSUME TypeOK, WindowIsPending, head # tail, ReadAdvance
  PROVE  WindowIsPending' /\ pending # <<>> /\ buffer[tail] = Head(pending)
<1>1. /\ head' = head /\ tail' = Advance(tail) /\ buffer' = buffer
      /\ pending' = Tail(pending)
      /\ Advance(tail) \in Index
      /\ tail + 1 < Size => Advance(tail) = tail + 1
      /\ tail + 1 = Size => Advance(tail) = 0
  BY AdvanceIndex DEF ReadAdvance, TypeOK
<1>2. /\ pending \in Seq(Byte) /\ Len(pending) \in Nat
      /\ Len(pending) = Count(head, tail)
      /\ Count(head, tail) \in Index /\ Count(head, tail) # 0
  BY CountIndex, CountZero DEF TypeOK, WindowIsPending
<1>3. /\ pending # <<>> /\ Len(pending') = Len(pending) - 1
      /\ \A i \in 1..Len(pending') : pending'[i] = pending[i + 1]
      /\ Head(pending) = pending[1]
  BY <1>1, <1>2
<1>4. Count(head', tail') = Len(pending')
  BY <1>1, <1>2, <1>3, CountAfterTake DEF TypeOK
<1>5. buffer[tail] = Head(pending)
  <2>1. buffer[(tail + (1 - 1)) % Size] = pending[1]
    BY <1>2 DEF WindowIsPending, Index
  <2>2. (tail + (1 - 1)) % Size = tail
    <3>1. tail \in Nat /\ tail < Size
      BY SizeAssumption DEF TypeOK, Index
    <3>2. tail + (1 - 1) = tail
      BY <3>1
    <3>3. tail % Size = tail
      BY <3>1, SizeAssumption
    <3>4. QED
      BY <3>2, <3>3
  <2>3. QED
    BY <1>3, <2>1, <2>2
<1>6. ASSUME NEW i \in 1..Len(pending')
      PROVE  buffer'[(tail' + (i - 1)) % Size] = pending'[i]
  <2>1. /\ i + 1 \in 1..Len(pending) /\ i - 1 \in Index /\ i \in Index
        /\ (i + 1) - 1 = i
    BY <1>2, <1>3, SizeAssumption DEF Index
  <2>2. buffer[(tail + i) % Size] = pending[i + 1]
    BY <2>1 DEF WindowIsPending
  <2>3. (Advance(tail) + (i - 1)) % Size = (tail + i) % Size
    <3>1. /\ tail + i < Size => (tail + i) % Size = tail + i
          /\ Size <= tail + i => (tail + i) % Size = tail + i - Size
      BY <2>1, SlotIndex DEF TypeOK
    <3>2. /\ Advance(tail) + (i - 1) < Size
               => (Advance(tail) + (i - 1)) % Size = Advance(tail) + (i - 1)
          /\ Size <= Advance(tail) + (i - 1)
               => (Advance(tail) + (i - 1)) % Size
                    = Advance(tail) + (i - 1) - Size
      BY <1>1, <2>1, SlotIndex
    <3>3. tail \in 0..(Size - 1) /\ i \in 0..(Size - 1)
      BY <2>1 DEF TypeOK, Index
    <3>4. CASE tail + 1 < Size
      <4>1. Advance(tail) + (i - 1) = tail + i
        BY <1>1, <3>3, <3>4, SizeAssumption
      <4>2. QED
        BY <4>1
    <3>5. CASE tail + 1 = Size
      <4>1. /\ Advance(tail) + (i - 1) = i - 1
            /\ i >= 1 /\ tail + i = Size + (i - 1)
        BY <1>1, <3>3, <3>5, SizeAssumption
      <4>2. QED
        BY <3>1, <3>2, <3>3, <4>1, SizeAssumption
    <3>6. QED
      BY <3>3, <3>4, <3>5, SizeAssumption
  <2>4. QED
    BY <1>1, <1>3, <2>2, <2>3
<1>7. QED
  BY <1>3, <1>4, <1>5, <1>6 DEF WindowIsPending

-----------------------------------------------------------------------------
\* The four parts hold at start and every step keeps them.
LEMMA InitIInv == Init => IInv
<1> SUFFICES ASSUME Init PROVE IInv
  OBVIOUS
<1>1. 0 \in Index
  BY SizeAssumption DEF Index
<1>2. Count(0, 0) = 0
  BY <1>1, CountIndex
<1>3. QED
  BY <1>1, <1>2, ByteAssumption
  DEF Init, IInv, TypeOK, WindowIsPending, PromiseKept, Midway

LEMMA NextIInv == IInv /\ [Next]_vars => IInv'
<1> SUFFICES ASSUME IInv, [Next]_vars PROVE IInv'
  OBVIOUS
<1> USE DEF IInv
<1>t. /\ head \in Index /\ tail \in Index
      /\ Count(head, tail) \in Index
      /\ pending \in Seq(Byte) /\ promised \in Index
  BY CountIndex DEF TypeOK
<1>1. ASSUME NEW b \in Byte, StoreChar(b) PROVE IInv'
  <2>1. CASE Advance(head) # tail
    <3>1. /\ head' = Advance(head) /\ tail' = tail
          /\ Advance(head) \in Index
          /\ Count(head', tail') = Count(head, tail) + 1
      BY <1>1, <1>t, <2>1, AdvanceIndex, CountAfterStore DEF StoreChar
    <3>2. TypeOK'
      BY <1>1, <1>t, <2>1, <3>1 DEF StoreChar, TypeOK
    <3>3. WindowIsPending'
      BY <1>1, <2>1, WindowAfterStore
    <3>4. PromiseKept'
      BY <1>1, <1>t, <3>1 DEF StoreChar, PromiseKept, Index
    <3>5. Midway'
      <4>1. Count(head', tail') # 0
        BY <1>t, <3>1, SizeAssumption DEF Index
      <4>2. head' # tail'
        BY <1>t, <3>1, <4>1, CountZero
      <4>3. pc' = pc /\ c' = c /\ loadedTail' = loadedTail
            /\ loadedHead' = loadedHead
        BY <1>1 DEF StoreChar
      <4>4. pc = "advance" => buffer'[tail'] = buffer[tail]
        BY <1>1, <1>t, <2>1, <3>1 DEF StoreChar, TypeOK, Midway
      <4>5. pc = "available"
              => Count(loadedHead', tail') <= Count(head', tail')
        <5>1. Count(loadedHead, tail) \in Index
          BY <1>t, CountIndex DEF TypeOK
        <5>2. QED
          BY <1>t, <3>1, <4>3, <5>1, SizeAssumption DEF Midway, Index
      <4>6. QED
        BY <3>1, <4>2, <4>3, <4>4, <4>5 DEF Midway
    <3>6. QED
      BY <3>2, <3>3, <3>4, <3>5
  <2>2. CASE Advance(head) = tail
    BY <1>1, <2>2
    DEF StoreChar, TypeOK, WindowIsPending, PromiseKept, Midway
  <2>3. QED
    BY <2>1, <2>2
<1>2. CASE AvailableLoad
  <2>1. Count(head, tail) <= Count(head, tail)
    BY <1>t, SizeAssumption DEF Index
  <2>2. QED
    BY <1>2, <2>1
    DEF AvailableLoad, TypeOK, WindowIsPending, PromiseKept, Midway, ringVars
<1>3. CASE AvailableReturn
  <2>1. Count(loadedHead, tail) \in Index
    BY CountIndex DEF TypeOK
  <2>2. Count(loadedHead, tail) <= Count(head, tail)
    BY <1>3 DEF AvailableReturn, Midway
  <2>3. QED
    BY <1>3, <2>1, <2>2
    DEF AvailableReturn, TypeOK, WindowIsPending, PromiseKept, Midway, ringVars
<1>4. CASE ReadEmpty
  <2>1. 0 \in Index /\ 0 <= Count(head, tail)
    BY <1>t, SizeAssumption DEF Index
  <2>2. QED
    BY <1>4, <2>1
    DEF ReadEmpty, TypeOK, WindowIsPending, PromiseKept, Midway, ringVars
<1>5. CASE ReadTest
  BY <1>5 DEF ReadTest, TypeOK, WindowIsPending, PromiseKept, Midway, ringVars
<1>6. CASE ReadFetch
  BY <1>6 DEF ReadFetch, TypeOK, WindowIsPending, PromiseKept, Midway, ringVars
<1>7. CASE ReadAdvance
  <2>1. head # tail
    BY <1>7 DEF ReadAdvance, Midway
  <2>2. WindowIsPending' /\ pending # <<>>
    BY <1>7, <2>1, WindowAfterTake
  <2>3. /\ tail' \in Index /\ head' = head
        /\ Count(head', tail') = Count(head, tail) - 1
    BY <1>7, <1>t, <2>1, AdvanceIndex, CountAfterTake DEF ReadAdvance
  <2>4. promised' \in Index /\ promised' <= Count(head', tail')
    BY <1>7, <1>t, <2>1, <2>3, CountZero, SizeAssumption
    DEF ReadAdvance, PromiseKept, Index
  <2>5. pending' \in Seq(Byte)
    BY <1>7, <1>t, <2>2 DEF ReadAdvance
  <2>6. TypeOK'
    BY <1>7, <2>3, <2>4, <2>5 DEF ReadAdvance, TypeOK
  <2>7. QED
    BY <1>7, <2>2, <2>4, <2>6 DEF ReadAdvance, PromiseKept, Midway
<1>8. CASE FlushLoad
  BY <1>8 DEF FlushLoad, TypeOK, WindowIsPending, PromiseKept, Midway, ringVars
<1>9. CASE FlushStore
  <2>1. head' = tail /\ tail' = tail /\ pending' = <<>> /\ promised' = 0
    BY <1>9 DEF FlushStore, Midway
  <2>2. Count(head', tail') = 0
    <3>1. Count(tail, tail) = 0
      BY <1>t, CountZero
    <3>2. QED
      BY <2>1, <3>1
  <2>3. 0 \in Index
    BY SizeAssumption DEF Index
  <2>4. QED
    BY <1>9, <1>t, <2>1, <2>2, <2>3
    DEF FlushStore, TypeOK, WindowIsPending, PromiseKept, Midway
<1>10. CASE UNCHANGED vars
  BY <1>10
  DEF vars, ringVars, TypeOK, WindowIsPending, PromiseKept, Midway
<1>11. QED
  BY <1>1, <1>2, <1>3, <1>4, <1>5, <1>6, <1>7, <1>8, <1>9, <1>10
  DEF Next, Main

\* The inductive invariant holds in every reachable state.
LEMMA Invariant == Spec => []IInv
  BY InitIInv, NextIInv, PTL DEF Spec

-----------------------------------------------------------------------------
\* Every variable keeps its type: head and tail never leave the buffer.
THEOREM TypeCorrect == Spec => []TypeOK
<1>1. IInv => TypeOK
  BY DEF IInv
<1>2. QED
  BY Invariant, <1>1, PTL

\* The slots between tail and head hold, in order, exactly the bytes stored
\* and not yet taken (HardwareSerial::read against store_char).
THEOREM WindowCorrect == Spec => []WindowIsPending
<1>1. IInv => WindowIsPending
  BY DEF IInv
<1>2. QED
  BY Invariant, <1>1, PTL

\* What available() answered stays readable until it is read or flushed.
THEOREM PromiseCorrect == Spec => []PromiseKept
<1>1. IInv => PromiseKept
  BY DEF IInv
<1>2. QED
  BY Invariant, <1>1, PTL

-----------------------------------------------------------------------------
\* Initial states map to initial states.
LEMMA InitRefines == Init => Fifo!FifoInit
  BY DEF Init, Fifo!FifoInit

\* Each step of the ring is a step of the queue or leaves it alone.
LEMMA NextRefines == IInv /\ [Next]_vars => [Fifo!FifoNext]_(Fifo!fifoVars)
<1> SUFFICES ASSUME IInv, [Next]_vars
             PROVE  [Fifo!FifoNext]_(Fifo!fifoVars)
  OBVIOUS
<1> USE DEF IInv
<1>t. /\ head \in Index /\ tail \in Index
      /\ Count(head, tail) \in Index
      /\ Len(pending) = Count(head, tail)
      /\ pending \in Seq(Byte)
  BY CountIndex DEF TypeOK, WindowIsPending
<1>1. ASSUME NEW b \in Byte, StoreChar(b) PROVE Fifo!FifoNext
  <2>1. Fifo!Arrive(b)
    BY <1>1, <1>t, CountAfterStore, SizeAssumption
    DEF StoreChar, Fifo!Arrive, Index
  <2>2. QED
    BY <2>1 DEF Fifo!FifoNext
<1>2. CASE AvailableReturn
  <2>1. Count(loadedHead, tail) \in 0..(Size - 1)
    BY CountIndex DEF TypeOK, Index
  <2>2. Fifo!Report(Count(loadedHead, tail))
    BY <1>2, <1>t DEF AvailableReturn, Midway, Fifo!Report
  <2>3. QED
    BY <2>1, <2>2 DEF Fifo!FifoNext
<1>3. CASE ReadEmpty
  <2>1. Len(pending) = 0
    BY <1>3, <1>t, CountZero DEF ReadEmpty
  <2>2. Fifo!TakeNone
    BY <1>3, <1>t, <2>1 DEF ReadEmpty, Fifo!TakeNone
  <2>3. QED
    BY <2>2 DEF Fifo!FifoNext
<1>4. CASE ReadAdvance
  <2>1. head # tail /\ c = buffer[tail]
    BY <1>4 DEF ReadAdvance, Midway
  <2>2. pending # <<>> /\ buffer[tail] = Head(pending)
    BY <1>4, <2>1, WindowAfterTake
  <2>3. Fifo!Take
    BY <1>4, <2>1, <2>2 DEF ReadAdvance, Fifo!Take
  <2>4. QED
    BY <2>3 DEF Fifo!FifoNext
<1>5. CASE FlushStore
  BY <1>5 DEF FlushStore, Fifo!FifoNext, Fifo!Discard
<1>6. CASE AvailableLoad \/ ReadTest \/ ReadFetch \/ FlushLoad
  BY <1>6 DEF AvailableLoad, ReadTest, ReadFetch, FlushLoad, Fifo!fifoVars
<1>7. CASE UNCHANGED vars
  BY <1>7 DEF vars, Fifo!fifoVars
<1>8. QED
  BY <1>1, <1>2, <1>3, <1>4, <1>5, <1>6, <1>7 DEF Next, Main

\* The ring buffer implements the bounded queue, for every buffer size: bytes
\* leave in the order they came, only a full ring refuses one, and every answer
\* of available, read and flush is one the queue allows.
THEOREM RingImplementsFifo == Spec => ImplementsFifo
  BY InitRefines, NextRefines, Invariant, PTL
  DEF Spec, ImplementsFifo, Fifo!FifoSpec
=============================================================================
