-------------------------- MODULE TwiMaster_proofs --------------------------
(***************************************************************************)
(* TypeOK and ReportIsTrue for every script of writes and reads that fit   *)
(* the buffer, and RangeIsOneMeasurement for the transactions of           *)
(* SRF08::range, which MCTwiMaster names; for every length of the buffer   *)
(* and any number of faults.                                               *)
(***************************************************************************)
EXTENDS MCTwiMaster, SequenceTheorems, TLAPS

Refusals == {"MT_SLA_NACK", "MT_DATA_NACK", "ARB_LOST", "BUS_ERROR"}

\* The interrupt has something to do exactly while the main program waits, and
\* an error is recorded only when it has done with the transaction.
UnderWay ==
    /\ twi_error \in Refusals \cup {NoError}
    /\ pc # "wait" => twi_state = "READY" /\ status = "none"
    /\ pc = "wait" =>
          \/ twi_state = State /\ status # "none" /\ twi_error = NoError
          \/ twi_state = "READY" /\ status = "none"

\* A write: the sonar has taken the first bytes of the data, as many as the
\* index says until something fails, and all of them if nothing does.
WriteUnderWay ==
    pc = "wait" /\ Now.op = "write" =>
        /\ twi_masterBufferLength = Len(Now.data)
        /\ \A i \in 1..Len(Now.data) : twi_masterBuffer[i - 1] = Now.data[i]
        /\ received \in Seq(Byte)
        /\ Len(received) <= Len(Now.data)
        /\ \A i \in 1..Len(received) : received[i] = Now.data[i]
        /\ status \in Refusals \cup {"START", "MT_SLA_ACK", "MT_DATA_ACK",
                                     "none"}
        /\ status \in {"START", "MT_SLA_ACK", "MT_DATA_ACK"} =>
              twi_masterBufferIndex = Len(received)
        /\ status = "START" => Len(received) = 0
        /\ status \in Refusals => Len(received) < Len(Now.data)
        /\ twi_masterBufferIndex <= Len(Now.data)
        /\ status = "none" =>
              (twi_error = NoError <=> Len(received) = Len(Now.data))

\* A read: the index stays within one of the length.
ReadUnderWay ==
    pc = "wait" /\ Now.op = "read" =>
        /\ twi_masterBufferLength = Now.n
        /\ status \in {"START", "MR_SLA_ACK", "MR_SLA_NACK", "MR_DATA_ACK",
                       "MR_DATA_NACK", "ARB_LOST", "BUS_ERROR", "none"}
        /\ status \in {"START", "MR_SLA_ACK", "MR_SLA_NACK"} =>
              twi_masterBufferIndex = 0
        /\ status = "MR_DATA_ACK" => twi_masterBufferIndex < Now.n
        /\ status = "MR_DATA_NACK" => twi_masterBufferIndex <= Now.n

IInv ==
    /\ TypeOK
    /\ DOMAIN twi_masterBuffer = 0..(TWI_BUFFER_LENGTH - 1)
    /\ UnderWay
    /\ WriteUnderWay
    /\ ReadUnderWay
    /\ ReportIsTrue

-----------------------------------------------------------------------------
\* What Wire passes on is the length asked for.
LEMMA LengthFits ==
    ASSUME step \in DOMAIN Script
    PROVE  /\ Now.op \in {"write", "read"}
           /\ Now.op = "write" =>
                 /\ Now.data \in Seq(Byte)
                 /\ Len(Now.data) \in 1..TWI_BUFFER_LENGTH
                 /\ Length = Len(Now.data)
           /\ Now.op = "read" =>
                 Now.n \in Nat /\ Now.n < TWI_BUFFER_LENGTH /\ Length = Now.n
<1>1. Now \in Write \cup Read
  BY ScriptAssumption, ElementOfSeq DEF Now
<1>2. ASSUME NEW k \in Nat, k <= TWI_BUFFER_LENGTH
      PROVE  Min({TWI_BUFFER_LENGTH, k}) = k
  BY <1>2, ScriptAssumption DEF Min
<1>3. CASE Now \in Write
  BY <1>2, <1>3 DEF Write, Length
<1>4. CASE Now \in Read
  BY <1>2, <1>4, ScriptAssumption DEF Read, Length
<1> QED
  BY <1>1, <1>3, <1>4

\* The next transaction of the script is one of it.
LEMMA NextStepType ==
    ASSUME step \in DOMAIN Script, reading \in 0..(NUM_READINGS - 1), NextStep
    PROVE  step' \in DOMAIN Script /\ reading' \in 0..(NUM_READINGS - 1)
  BY ScriptAssumption, LenProperties DEF NextStep, NUM_READINGS

LEMMA InitInvariant == Init => IInv
  BY ScriptAssumption, LenProperties
  DEF Init, IInv, TypeOK, UnderWay, WriteUnderWay, ReadUnderWay, ReportIsTrue,
      Refusals, NUM_READINGS, Sonars

-----------------------------------------------------------------------------
LEMMA BecomeMasterKeeps == ASSUME IInv, BecomeMaster PROVE IInv'
<1> USE LengthFits, ScriptAssumption DEF IInv, TypeOK, BecomeMaster
<1>1. TypeOK'
  BY DEF State, Sonars, SonarAddress
<1>2. (DOMAIN twi_masterBuffer = 0..(TWI_BUFFER_LENGTH - 1))'
  OBVIOUS
<1>3. UnderWay'
  BY DEF UnderWay, State, Now
<1>4. WriteUnderWay'
  <2> SUFFICES ASSUME Now.op = "write" PROVE WriteUnderWay'
    BY DEF WriteUnderWay, Now
  <2>1. Now' = Now
    BY DEF Now
  <2>2. ASSUME NEW i \in 1..Len(Now.data)
        PROVE  twi_masterBuffer'[i - 1] = Now.data[i]
    <3> DEFINE k == i - 1
    <3>1. /\ k \in DOMAIN twi_masterBuffer /\ k < Length /\ k + 1 = i
          /\ twi_masterBuffer' = [j \in DOMAIN twi_masterBuffer |->
                IF j < Length THEN Now.data[j + 1] ELSE twi_masterBuffer[j]]
      OBVIOUS
    <3> HIDE DEF k, BecomeMaster, IInv
    <3> QED
      BY <3>1 DEF k
  <2>3. received' = <<>> /\ received' \in Seq(Byte) /\ Len(received') = 0
    OBVIOUS
  <2>4. Len(Now.data) \in Nat /\ Len(Now.data) > 0
    BY LenProperties
  <2>5. /\ twi_masterBufferLength' = Len(Now.data) /\ status' = "START"
        /\ twi_masterBufferIndex' = 0
    OBVIOUS
  <2> HIDE DEF BecomeMaster, IInv, TypeOK
  <2> QED
    BY <2>1, <2>2, <2>3, <2>4, <2>5 DEF WriteUnderWay, Refusals
<1>5. ReadUnderWay'
  BY DEF ReadUnderWay, Now
<1>6. ReportIsTrue'
  BY DEF ReportIsTrue
<1> QED
  BY <1>1, <1>2, <1>3, <1>4, <1>5, <1>6

LEMMA ReturnWriteKeeps == ASSUME IInv, ReturnWrite PROVE IInv'
<1> USE LengthFits DEF IInv, TypeOK, ReturnWrite, FinishWrite, twi
<1>1. status = "none" /\ twi_state = "READY"
  BY DEF UnderWay, State
<1>2. received = Now.data <=> Len(received) = Len(Now.data)
  BY SeqEqual DEF WriteUnderWay
<1>3. ret' = 0 <=> twi_error = NoError
  <2>1. ret' = CASE twi_error = NoError        -> 0
                 [] twi_error = "MT_SLA_NACK"  -> 2
                 [] twi_error = "MT_DATA_NACK" -> 3
                 [] OTHER                      -> 4
    OBVIOUS
  <2> HIDE DEF IInv, TypeOK, ReturnWrite, FinishWrite, twi
  <2> QED
    <3>1. CASE twi_error = NoError
      <4>1. twi_error # "MT_SLA_NACK" /\ twi_error # "MT_DATA_NACK"
        BY <3>1 DEF NoError
      <4> QED
        BY <2>1, <3>1, <4>1
    <3>2. CASE twi_error # NoError
      <4>1. ret' \in {2, 3, 4}
        BY <2>1, <3>2
      <4> QED
        BY <3>2, <4>1
    <3> QED
      BY <3>1, <3>2
<1>4. ReportIsTrue'
  BY <1>1, <1>2, <1>3 DEF ReportIsTrue, WriteUnderWay, Now
<1>5. TypeOK' /\ UnderWay' /\ WriteUnderWay' /\ ReadUnderWay'
  BY <1>1 DEF UnderWay, WriteUnderWay, ReadUnderWay
<1> QED
  BY <1>4, <1>5

LEMMA ReturnReadKeeps == ASSUME IInv, ReturnRead PROVE IInv'
<1> USE LengthFits DEF IInv, TypeOK, ReturnRead, twi, device, history
<1>1. status = "none" /\ twi_state = "READY"
  BY DEF UnderWay, State
<1> QED
  BY <1>1 DEF UnderWay, WriteUnderWay, ReadUnderWay, ReportIsTrue, Now

LEMMA ContinueKeeps == ASSUME IInv, Continue PROVE IInv'
<1> USE DEF IInv, TypeOK, Continue, twi, device, history
<1>1. step' \in DOMAIN Script /\ reading' \in 0..(NUM_READINGS - 1)
  BY NextStepType
<1> QED
  BY <1>1 DEF UnderWay, WriteUnderWay, ReadUnderWay, ReportIsTrue

-----------------------------------------------------------------------------
LEMMA SlaveAddressKeeps == ASSUME IInv, SlaveAddress PROVE IInv'
<1> USE LengthFits
    DEF IInv, TypeOK, SlaveAddress, Bus, caller, twi, device, history
<1>1. pc = "wait" /\ twi_state = State /\ State' = State /\ Now' = Now
  BY DEF UnderWay, State, Now
<1>2. UnderWay'
  BY <1>1 DEF UnderWay
<1>3. WriteUnderWay'
  BY <1>1 DEF WriteUnderWay, State, Refusals
<1>4. ReadUnderWay'
  BY <1>1 DEF ReadUnderWay, State
<1> QED
  BY <1>1, <1>2, <1>3, <1>4, ScriptAssumption DEF ReportIsTrue

LEMMA TransmitKeeps == ASSUME IInv, Transmit PROVE IInv'
<1> USE LengthFits DEF IInv, TypeOK, Transmit, Bus, caller, history
<1>1. /\ pc = "wait" /\ twi_state = State /\ State' = State /\ Now' = Now
      /\ Now.op = "write"
  BY DEF UnderWay, State, Now, ReadUnderWay
<1>2. UnderWay'
  BY <1>1 DEF UnderWay
<1>3. WriteUnderWay'
  <2>1. CASE status' = "MT_DATA_ACK"
    <3> DEFINE byte == Now.data[Len(received) + 1]
    <3>1. /\ received \in Seq(Byte) /\ byte \in Byte
          /\ received' = Append(received, byte)
      BY <1>1, <2>1, ElementOfSeq, LenProperties DEF WriteUnderWay, Take
    <3> HIDE DEF byte
    <3>2. /\ received' \in Seq(Byte) /\ Len(received') = Len(received) + 1
          /\ \A i \in 1..Len(received) : received'[i] = received[i]
          /\ received'[Len(received) + 1] = byte
      BY <3>1, AppendProperties
    <3>3. Len(received) \in Nat
      BY <3>1, LenProperties
    <3>4. /\ twi_masterBufferIndex = Len(received)
          /\ Len(received) < Len(Now.data) /\ Len(Now.data) \in Nat
          /\ twi_masterBufferIndex' = Len(received) + 1
          /\ UNCHANGED <<twi_masterBuffer, twi_masterBufferLength>>
      BY <1>1, <3>3, LenProperties DEF WriteUnderWay
    <3> HIDE DEF Transmit, IInv, TypeOK, Bus
    <3> QED
      BY <1>1, <2>1, <3>2, <3>3, <3>4 DEF WriteUnderWay, Refusals, byte, IInv
  <2>2. CASE status' # "MT_DATA_ACK"
    <3>1. /\ Len(received) \in Nat /\ Len(received) < Len(Now.data)
          /\ Len(Now.data) \in Nat /\ status' \in Refusals
          /\ twi_masterBufferIndex' = Len(received) + 1
          /\ UNCHANGED <<received, twi_masterBuffer, twi_masterBufferLength>>
      BY <1>1, <2>2, LenProperties DEF WriteUnderWay, Refusals
    <3> HIDE DEF Transmit, IInv, TypeOK, Bus
    <3> QED
      BY <1>1, <3>1 DEF WriteUnderWay, Refusals, IInv
  <2> QED
    BY <2>1, <2>2
<1>4. ReadUnderWay' /\ ReportIsTrue'
  BY <1>1 DEF ReadUnderWay, ReportIsTrue
<1>5. TypeOK'
  BY <1>1, ScriptAssumption DEF WriteUnderWay
<1> QED
  BY <1>2, <1>3, <1>4, <1>5

LEMMA TransmitEndKeeps == ASSUME IInv, TransmitEnd PROVE IInv'
<1> USE LengthFits DEF IInv, TypeOK, TransmitEnd, Stop, caller, device, history
<1>1. /\ pc = "wait" /\ twi_error = NoError /\ Now' = Now
      /\ Now.op = "write"
  BY DEF UnderWay, State, Now, ReadUnderWay
<1>2. WriteUnderWay'
  <2>1. Len(received) \in Nat /\ Len(received) = Len(Now.data)
    BY <1>1, LenProperties DEF WriteUnderWay
  <2>2. /\ status' = "none"
        /\ UNCHANGED <<received, twi_error, twi_masterBuffer,
                       twi_masterBufferIndex, twi_masterBufferLength>>
    OBVIOUS
  <2> HIDE DEF TransmitEnd, TypeOK, Stop
  <2> QED
    BY <1>1, <2>1, <2>2 DEF WriteUnderWay, Refusals
<1> QED
  BY <1>1, <1>2 DEF UnderWay, ReadUnderWay, ReportIsTrue

LEMMA FailKeeps == ASSUME IInv, Fail PROVE IInv'
<1> USE LengthFits DEF IInv, TypeOK, Fail, Stop, caller, device, history
<1>1. pc = "wait" /\ Now' = Now
  BY DEF UnderWay, Now
<1>2. UnderWay'
  BY <1>1 DEF UnderWay, Refusals
<1>3. WriteUnderWay'
  <2> SUFFICES ASSUME Now.op = "write" PROVE WriteUnderWay'
    BY <1>1 DEF WriteUnderWay
  <2>1. /\ status' = "none" /\ twi_error' # NoError
        /\ UNCHANGED <<received, twi_masterBuffer, twi_masterBufferIndex,
                       twi_masterBufferLength>>
        /\ status \in Refusals
    BY DEF NoError, Refusals
  <2>2. Len(received) \in Nat /\ Len(received) < Len(Now.data)
    BY <1>1, <2>1, LenProperties DEF WriteUnderWay
  <2> HIDE DEF Fail, TypeOK, Stop
  <2> QED
    BY <1>1, <2>1, <2>2 DEF WriteUnderWay
<1>4. ReadUnderWay' /\ ReportIsTrue'
  BY <1>1 DEF ReadUnderWay, ReportIsTrue
<1> QED
  BY <1>1, <1>2, <1>3, <1>4

LEMMA ReceiveKeeps == ASSUME IInv, Receive PROVE IInv'
<1> USE LengthFits DEF IInv, TypeOK, Receive, Bus, Keep, caller, history
<1>1. /\ pc = "wait" /\ twi_state = State /\ State' = State /\ Now' = Now
      /\ Now.op = "read"
  BY DEF UnderWay, State, Now, WriteUnderWay, Refusals
<1>2. UnderWay'
  BY <1>1 DEF UnderWay
<1>3. ReadUnderWay'
  BY <1>1 DEF ReadUnderWay
<1>4. WriteUnderWay' /\ ReportIsTrue'
  BY <1>1 DEF WriteUnderWay, ReportIsTrue
<1>5. TypeOK' /\ DOMAIN twi_masterBuffer' = DOMAIN twi_masterBuffer
  BY <1>1, ScriptAssumption DEF ReadUnderWay
<1> QED
  BY <1>2, <1>3, <1>4, <1>5

LEMMA ReceiveEndKeeps == ASSUME IInv, ReceiveEnd PROVE IInv'
<1> USE LengthFits
    DEF IInv, TypeOK, ReceiveEnd, Keep, Stop, caller, device, history
<1>1. /\ pc = "wait" /\ Now' = Now /\ Now.op = "read"
  BY DEF UnderWay, Now, WriteUnderWay, Refusals
<1>2. UnderWay' /\ WriteUnderWay' /\ ReadUnderWay' /\ ReportIsTrue'
  BY <1>1 DEF UnderWay, WriteUnderWay, ReadUnderWay, ReportIsTrue
<1>3. TypeOK' /\ DOMAIN twi_masterBuffer' = DOMAIN twi_masterBuffer
  BY <1>1, ScriptAssumption DEF ReadUnderWay
<1> QED
  BY <1>2, <1>3

-----------------------------------------------------------------------------
LEMMA StepKeepsInvariant == ASSUME IInv, [Next]_vars PROVE IInv'
<1>1. CASE BecomeMaster
  BY <1>1, BecomeMasterKeeps
<1>2. CASE ReturnWrite
  BY <1>2, ReturnWriteKeeps
<1>3. CASE ReturnRead
  BY <1>3, ReturnReadKeeps
<1>4. CASE Continue
  BY <1>4, ContinueKeeps
<1>5. CASE SlaveAddress
  BY <1>5, SlaveAddressKeeps
<1>6. CASE Transmit
  BY <1>6, TransmitKeeps
<1>7. CASE TransmitEnd
  BY <1>7, TransmitEndKeeps
<1>8. CASE Fail
  BY <1>8, FailKeeps
<1>9. CASE Receive
  BY <1>9, ReceiveKeeps
<1>10. CASE ReceiveEnd
  BY <1>10, ReceiveEndKeeps
<1>11. CASE Spin \/ UNCHANGED vars
  BY <1>11
  DEF Spin, vars, twi, device, history, IInv, TypeOK, UnderWay, State, Now,
      WriteUnderWay, ReadUnderWay, ReportIsTrue
<1> QED
  BY <1>1, <1>2, <1>3, <1>4, <1>5, <1>6, <1>7, <1>8, <1>9, <1>10, <1>11
  DEF Next, Main, Isr

LEMMA Invariant == Spec => []IInv
  BY InitInvariant, StepKeepsInvariant, PTL DEF Spec

\* Every variable of the bus keeps its type, and a transaction is under way
\* only while the main program waits for it.
THEOREM TypeCorrect == Spec => []TypeOK
<1>1. IInv => TypeOK
  BY DEF IInv
<1> QED
  BY <1>1, Invariant, PTL

\* twi_writeTo reports success exactly when the sonar has taken every byte,
\* for every script, wherever and however often the bus or a sonar refuses.
THEOREM ReportCorrect == Spec => []ReportIsTrue
<1>1. IInv => ReportIsTrue
  BY DEF IInv
<1> QED
  BY <1>1, Invariant, PTL
-----------------------------------------------------------------------------

IsRange == Script = RangeScript /\ Command = MCCommand

Asked == SonarAddress(reading)

\* The sonar asked has made the measurement that this range() began.
Fresh == measured[Asked] = (before + 1) % 3

\* The register the sonar answered from first, when index bytes are in the
\* buffer and perhaps one more in TWDR.
Taken == status \in {"MR_DATA_ACK", "MR_DATA_NACK"}
Base == register[Asked] - twi_masterBufferIndex - (IF Taken THEN 1 ELSE 0)

Answer(k) == [dev |-> Asked, n |-> measured[Asked], i |-> Base + k]

RangeTypes ==
    /\ measured \in [Sonars -> 0..2]
    /\ register \in [Sonars -> Int]
    /\ before \in 0..2
    /\ refused \in BOOLEAN
    /\ pc = "wait" => twi_slarw = Asked

\* First the command,
Measuring ==
    /\ step = 1 /\ pc = "wait" => before = measured[Asked]
    /\ step = 1 /\ pc = "done" /\ ~refused => Fresh
    /\ step \in {2, 3} /\ ~refused => Fresh

\* then the choice of the register,
Selecting ==
    /\ step = 2 /\ pc = "wait" /\ received # <<>> => register[Asked] = RANGE_REG
    /\ step = 2 /\ pc = "done" /\ ~refused => register[Asked] = RANGE_REG
    /\ step = 3 /\ pc = "call" /\ ~refused => register[Asked] = RANGE_REG

\* then the bytes.
Reading ==
    step = 3 /\ pc = "wait" =>
        /\ \A j \in {0, 1} :
              j < twi_masterBufferIndex => twi_masterBuffer[j] = Answer(j)
        /\ Taken => TWDR = Answer(twi_masterBufferIndex)
        /\ ~refused => Base = RANGE_REG

RInv ==
    /\ IInv
    /\ RangeTypes
    /\ Measuring
    /\ Selecting
    /\ Reading
    /\ RangeIsOneMeasurement

-----------------------------------------------------------------------------
LEMMA TheScript ==
    ASSUME IsRange
    PROVE  /\ DOMAIN Script = 1..3 /\ Len(Script) = 3
           /\ Script[1] = [op |-> "write", data |-> Command]
           /\ Script[2] = [op |-> "write", data |-> Select]
           /\ Script[3] = [op |-> "read", n |-> 2]
           /\ Len(Command) = 2 /\ Len(Select) = 1
           /\ Select[1].i = RANGE_REG
  BY DEF IsRange, RangeScript, MCCommand, Select, RANGE_REG

\* What the transaction under way is.
LEMMA ThisStep ==
    ASSUME IsRange, TypeOK
    PROVE  /\ step \in 1..3
           /\ step = 1 => Now.op = "write" /\ Now.data = Command
           /\ step = 2 => Now.op = "write" /\ Now.data = Select
           /\ step = 3 => Now.op = "read" /\ Now.n = 2
           /\ TWI_BUFFER_LENGTH >= 3
<1>1. /\ step \in 1..3
      /\ step = 1 => Now.op = "write" /\ Now.data = Command
      /\ step = 2 => Now.op = "write" /\ Now.data = Select
      /\ step = 3 => Now.op = "read" /\ Now.n = 2
  BY TheScript DEF TypeOK, Now
<1>2. TWI_BUFFER_LENGTH >= 3
  <2>1. Script[3] \in Write \cup Read
    BY TheScript, ScriptAssumption, ElementOfSeq
  <2>2. Script[3].n = 2 /\ Script[3].op = "read"
    BY TheScript
  <2> QED
    BY <2>1, <2>2, ScriptAssumption DEF Write, Read
<1> QED
  BY <1>1, <1>2

LEMMA AskedIsSonar == ASSUME TypeOK PROVE Asked \in Sonars
  BY DEF TypeOK, Asked, Sonars

LEMMA InitRange == ASSUME IsRange, Init PROVE RInv
<1>1. IInv
  BY InitInvariant
<1>2. RangeTypes
  <2>1. measured \in [Sonars -> 0..2] /\ register \in [Sonars -> Int]
    BY DEF Init
  <2>2. before \in 0..2
    BY DEF Init
  <2>3. refused \in BOOLEAN
    BY DEF Init
  <2>4. pc # "wait"
    BY DEF Init
  <2> QED
    BY <2>1, <2>2, <2>3, <2>4 DEF RangeTypes
<1>3. Measuring /\ Selecting /\ Reading /\ RangeIsOneMeasurement
  BY DEF Init, Measuring, Selecting, Reading, RangeIsOneMeasurement
<1> QED
  BY <1>1, <1>2, <1>3 DEF RInv

-----------------------------------------------------------------------------
LEMMA BecomeMasterRange ==
    ASSUME IsRange, RInv, BecomeMaster PROVE RInv'
<1> USE DEF RInv
<1>1. IInv'
  BY BecomeMasterKeeps
<1>2. /\ step \in 1..3 /\ Asked \in Sonars /\ Asked' = Asked
      /\ twi_slarw' = Asked
      /\ UNCHANGED <<reading, step, measured, register, result>>
      /\ pc' = "wait" /\ pc = "call" /\ status' = "START"
      /\ received' = <<>> /\ twi_masterBufferIndex' = 0
      /\ before' = IF step = 1 THEN measured[Asked] ELSE before
      /\ refused' = (refused /\ step # 1)
  BY ThisStep, AskedIsSonar DEF BecomeMaster, IInv, Asked
<1>3. RangeTypes'
  BY <1>2 DEF RangeTypes
<1>4. Measuring'
  BY <1>2 DEF Measuring, Fresh, RangeTypes
<1>5. Selecting'
  BY <1>2 DEF Selecting
<1>6. Reading'
  BY <1>2 DEF Reading, Selecting, Base, Taken, RangeTypes, RANGE_REG
<1>7. RangeIsOneMeasurement'
  BY <1>2 DEF RangeIsOneMeasurement
<1> QED
  BY <1>1, <1>3, <1>4, <1>5, <1>6, <1>7

LEMMA ReturnWriteRange ==
    ASSUME IsRange, RInv, ReturnWrite PROVE RInv'
<1> USE DEF RInv
<1>1. IInv' /\ ReportIsTrue'
  BY ReturnWriteKeeps DEF IInv
<1>2. /\ step \in {1, 2} /\ Asked \in Sonars /\ Asked' = Asked
      /\ twi_slarw = Asked /\ Now' = Now /\ Now.op = "write"
      /\ UNCHANGED <<reading, step, register, before, received>>
      /\ pc' = "done" /\ pc = "wait"
      /\ measured' = Count
      /\ refused' = (refused \/ ret' # 0)
  BY ThisStep, AskedIsSonar
  DEF ReturnWrite, FinishWrite, IInv, Asked, RangeTypes, Now
<1>3. ~refused' => ~refused /\ received = Now.data
  BY <1>1, <1>2 DEF ReportIsTrue, RangeTypes
<1>4. RangeTypes'
  BY <1>2 DEF RangeTypes, Count
<1>5. Measuring'
  <2>1. CASE step = 1
    <3>1. ~refused' => received = Command
      BY <1>3, <2>1, ThisStep DEF IInv
    <3> QED
      BY <1>2, <2>1, <3>1 DEF Measuring, Fresh, Count, RangeTypes
  <2>2. CASE step = 2
    <3>1. Len(received) <= Len(Now.data)
      BY <1>2 DEF IInv, WriteUnderWay
    <3>2. Now.data = Select /\ Len(Select) = 1 /\ Len(Command) = 2
      BY <2>2, ThisStep, TheScript DEF IInv
    <3>3. Len(received) <= 1
      BY <3>1, <3>2
    <3>4. received # Command
      BY <3>2, <3>3
    <3> QED
      BY <1>2, <1>3, <2>2, <3>4 DEF Measuring, Fresh, Count
  <2> QED
    BY <1>2, <2>1, <2>2
<1>6. Selecting'
  <2>1. step = 2 /\ ~refused' => received # <<>>
    BY <1>3, ThisStep, TheScript DEF IInv
  <2> QED
    BY <1>2, <2>1 DEF Selecting
<1>7. Reading' /\ RangeIsOneMeasurement'
  BY <1>2 DEF Reading, RangeIsOneMeasurement
<1> QED
  BY <1>1, <1>4, <1>5, <1>6, <1>7

LEMMA ReturnReadRange ==
    ASSUME IsRange, RInv, ReturnRead PROVE RInv'
<1> USE DEF RInv
<1>1. IInv'
  BY ReturnReadKeeps
<1>2. /\ step = 3 /\ Now' = Now /\ Now.op = "read" /\ Length = 2
      /\ Asked \in Sonars /\ Asked' = Asked
      /\ UNCHANGED <<reading, step, register, measured, before, refused>>
      /\ pc' = "done" /\ pc = "wait"
  BY ThisStep, AskedIsSonar, LengthFits
  DEF ReturnRead, IInv, TypeOK, Asked, Now, device, history
<1>3. ret' >= 2 => twi_masterBufferIndex >= 2
  <2>1. twi_masterBufferIndex \in Nat
    BY DEF IInv, TypeOK
  <2>2. twi_masterBufferIndex < 2
           => Min({2, twi_masterBufferIndex}) = twi_masterBufferIndex
    BY <2>1 DEF Min
  <2> QED
    BY <1>2, <2>1, <2>2 DEF ReturnRead
<1>4. RangeTypes' /\ Measuring' /\ Selecting' /\ Reading'
  BY <1>2 DEF RangeTypes, Measuring, Selecting, Reading, Fresh
<1>5. RangeIsOneMeasurement'
  <2> SUFFICES ASSUME result' # <<>>
               PROVE  /\ \A i \in 1..2 :
                           result'[i] = [dev |-> Asked, n |-> measured[Asked],
                                         i |-> result'[1].i + i - 1]
                      /\ ~refused => result'[1].i = RANGE_REG /\ Fresh
    BY <1>2 DEF RangeIsOneMeasurement, Fresh, Asked
  <2>1. ret' >= 2 /\ result' = [i \in 1..2 |-> twi_masterBuffer[i - 1]]
    BY DEF ReturnRead
  <2>2. /\ twi_masterBuffer[0] = Answer(0) /\ twi_masterBuffer[1] = Answer(1)
    BY <1>2, <1>3, <2>1 DEF Reading, IInv, TypeOK
  <2>3. result'[1] = Answer(0) /\ result'[2] = Answer(1)
    BY <2>1, <2>2
  <2>4. Base \in Int
    BY <1>2 DEF Base, RangeTypes, IInv, TypeOK
  <2>5. result'[1].i = Base
    BY <2>3, <2>4 DEF Answer
  <2>6. ASSUME NEW i \in 1..2
        PROVE  result'[i] = [dev |-> Asked, n |-> measured[Asked],
                             i |-> result'[1].i + i - 1]
    BY <2>3, <2>4, <2>5 DEF Answer
  <2> QED
    BY <1>2, <2>5, <2>6 DEF Reading, Measuring
<1> QED
  BY <1>1, <1>4, <1>5

LEMMA ContinueRange ==
    ASSUME IsRange, RInv, Continue PROVE RInv'
<1> USE DEF RInv
<1>1. IInv'
  BY ContinueKeeps
<1>2. /\ step \in 1..3 /\ step' = (step % 3) + 1
      /\ pc = "done" /\ pc' = "call"
      /\ step \in {1, 2} => reading' = reading
      /\ UNCHANGED <<register, measured, before, refused>>
  <2>1. /\ step \in 1..3 /\ step' = (step % 3) + 1
        /\ reading' = IF step' = 1 THEN (reading + 1) % NUM_READINGS
                      ELSE reading
    BY ThisStep, TheScript DEF Continue, NextStep, IInv
  <2>2. step \in {1, 2} => step' # 1
    BY <2>1
  <2> QED
    BY <2>1, <2>2 DEF Continue, device, history
<1>3. step \in {1, 2} => Asked' = Asked
  BY <1>2 DEF Asked
<1>4. RangeTypes' /\ Reading' /\ RangeIsOneMeasurement'
  BY <1>2 DEF RangeTypes, Reading, RangeIsOneMeasurement
<1>5. CASE step = 1
  BY <1>1, <1>2, <1>3, <1>4, <1>5 DEF Measuring, Selecting, Fresh
<1>6. CASE step = 2
  BY <1>1, <1>2, <1>3, <1>4, <1>6 DEF Measuring, Selecting, Fresh
<1>7. CASE step = 3
  BY <1>1, <1>2, <1>4, <1>7 DEF Measuring, Selecting
<1> QED
  BY <1>2, <1>5, <1>6, <1>7

-----------------------------------------------------------------------------
\* The interrupt leaves the caller, and what has been measured, alone.
Calm == UNCHANGED <<reading, step, pc, twi_slarw, measured, before, refused>>

LEMMA CalmKeeps ==
    ASSUME IsRange, RInv, Calm, register' \in [Sonars -> Int], pc = "wait"
    PROVE  RangeTypes' /\ Measuring' /\ RangeIsOneMeasurement' /\ Asked' = Asked
<1>1. Asked' = Asked
  BY DEF Calm, Asked
<1> QED
  BY <1>1
  DEF RInv, Calm, RangeTypes, Measuring, Fresh, RangeIsOneMeasurement

LEMMA WriteStepRange ==
    ASSUME IsRange, RInv,
           SlaveAddress \/ TransmitEnd \/ Fail
    PROVE  RInv'
<1> USE DEF RInv
<1>1. IInv' /\ pc = "wait"
  BY SlaveAddressKeeps, TransmitEndKeeps, FailKeeps
  DEF SlaveAddress, TransmitEnd, Fail, IInv, UnderWay
<1>2. /\ Calm
      /\ UNCHANGED <<register, received, twi_masterBuffer,
                     twi_masterBufferIndex>>
  BY DEF SlaveAddress, TransmitEnd, Fail, Calm, caller, twi, device, history
<1>3. /\ RangeTypes' /\ Measuring' /\ RangeIsOneMeasurement'
      /\ Asked' = Asked
  BY <1>1, <1>2, CalmKeeps DEF RangeTypes
<1>4. Selecting'
  BY <1>1, <1>2, <1>3 DEF Selecting, Calm
<1>5. ~Taken /\ ~Taken'
  BY DEF Taken, SlaveAddress, Bus, TransmitEnd, Fail, Stop
<1>6. Base' = Base /\ \A j : Answer(j)' = Answer(j)
  BY <1>2, <1>3, <1>5 DEF Base, Answer, Calm
<1>7. Reading'
  BY <1>1, <1>2, <1>5, <1>6 DEF Reading, Calm
<1> QED
  BY <1>1, <1>3, <1>4, <1>7

LEMMA TransmitRange ==
    ASSUME IsRange, RInv, Transmit PROVE RInv'
<1> USE DEF RInv
<1>1. IInv' /\ pc = "wait" /\ step \in {1, 2} /\ Now.op = "write"
  BY TransmitKeeps, ThisStep
  DEF Transmit, IInv, UnderWay, ReadUnderWay
<1>2. Calm
  BY DEF Transmit, Calm, caller, history
<1>3. register' \in [Sonars -> Int] /\ (step = 2 => Selecting')
  <2>1. CASE status' # "MT_DATA_ACK"
    BY <1>1, <1>2, <2>1
    DEF Transmit, Selecting, RangeTypes, Calm, Asked
  <2>2. CASE status' = "MT_DATA_ACK" /\ received # <<>>
    BY <1>1, <1>2, <2>2
    DEF Transmit, Take, Selecting, RangeTypes, Calm, Asked
  <2>3. CASE status' = "MT_DATA_ACK" /\ received = <<>>
    <3>1. /\ twi_masterBufferIndex = 0 /\ Len(Now.data) > 0
          /\ twi_masterBuffer[0] = Now.data[1] /\ Now.data[1] \in Byte
      BY <1>1, <2>3, LengthFits, ElementOfSeq
      DEF Transmit, IInv, TypeOK, WriteUnderWay
    <3>2. register' = [register EXCEPT ![twi_slarw] = Now.data[1].i]
      BY <2>3, <3>1 DEF Transmit, Take
    <3>3. Now.data[1].i \in Int
      BY <3>1 DEF Byte
    <3>4. step = 2 => Now.data[1].i = RANGE_REG
      BY ThisStep, TheScript DEF IInv
    <3>5. twi_slarw = Asked /\ Asked \in Sonars /\ Asked' = Asked
      BY <1>1, <1>2, AskedIsSonar DEF RangeTypes, IInv, Calm, Asked
    <3> QED
      BY <1>1, <1>2, <3>2, <3>3, <3>4, <3>5
      DEF Selecting, RangeTypes, Calm
  <2> QED
    BY <2>1, <2>2, <2>3
<1>4. RangeTypes' /\ Measuring' /\ RangeIsOneMeasurement'
  BY <1>1, <1>2, <1>3, CalmKeeps
<1>5. Selecting' /\ Reading'
  BY <1>1, <1>2, <1>3 DEF Selecting, Reading, Calm
<1> QED
  BY <1>1, <1>4, <1>5

\* A byte that came goes to the buffer: the index grows by what was taken.
LEMMA KeepByte ==
    ASSUME IsRange, RInv, Keep, step = 3, pc = "wait"
    PROVE  /\ twi_masterBufferIndex' =
                 twi_masterBufferIndex + (IF Taken THEN 1 ELSE 0)
           /\ \A j \in {0, 1} :
                 j < twi_masterBufferIndex' => twi_masterBuffer'[j] = Answer(j)
<1> USE DEF RInv
<1>1. twi_masterBufferIndex \in Nat /\ {0, 1} \subseteq DOMAIN twi_masterBuffer
  BY ThisStep, ScriptAssumption DEF IInv, TypeOK
<1>2. CASE Taken
  BY <1>1, <1>2 DEF Keep, Taken, Reading
<1>3. CASE ~Taken
  BY <1>1, <1>3 DEF Keep, Taken, Reading
<1> QED
  BY <1>2, <1>3

LEMMA ReceiveRange ==
    ASSUME IsRange, RInv, Receive PROVE RInv'
<1> USE DEF RInv
<1>1. /\ IInv' /\ pc = "wait" /\ step = 3
      /\ Asked \in Sonars /\ twi_slarw = Asked
      /\ twi_masterBufferIndex \in Nat
      /\ register[Asked] \in Int
  BY ReceiveKeeps, ThisStep, AskedIsSonar
  DEF Receive, IInv, TypeOK, UnderWay, WriteUnderWay, Refusals, RangeTypes
<1>2. Calm /\ Asked' = Asked
  BY DEF Receive, Calm, caller, history, Asked
<1>3. /\ twi_masterBufferIndex' =
            twi_masterBufferIndex + (IF Taken THEN 1 ELSE 0)
      /\ \A j \in {0, 1} :
            j < twi_masterBufferIndex' => twi_masterBuffer'[j] = Answer(j)
  BY <1>1, KeepByte DEF Receive
<1>4. CASE status' = "BUS_ERROR"
  <2>1. UNCHANGED <<TWDR, register>> /\ ~Taken'
    BY <1>4 DEF Receive, Taken
  <2>2. Base' = Base
    BY <1>1, <1>2, <1>3, <2>1 DEF Base
  <2> QED
    BY <1>1, <1>2, <1>3, <2>1, <2>2, CalmKeeps
    DEF Reading, Selecting, Answer, Calm, RangeTypes
<1>5. CASE status' # "BUS_ERROR"
  <2>1. Give /\ Taken'
    BY <1>5 DEF Receive, Bus, Taken
  <2>2. /\ register' = [register EXCEPT ![Asked] = @ + 1]
        /\ TWDR' = [dev |-> Asked, n |-> measured[Asked],
                    i |-> register[Asked]]
    BY <1>1, <2>1 DEF Give
  <2>3. /\ register' \in [Sonars -> Int]
        /\ register'[Asked] = register[Asked] + 1
    BY <1>1, <2>2 DEF RangeTypes
  <2>4. Base' = Base /\ register[Asked] = Base + twi_masterBufferIndex'
    BY <1>1, <1>2, <1>3, <2>1, <2>3 DEF Base
  <2>5. Reading'
    BY <1>1, <1>2, <1>3, <2>2, <2>4 DEF Reading, Answer, Calm
  <2> QED
    BY <1>1, <1>2, <2>3, <2>5, CalmKeeps DEF Selecting, Calm
<1> QED
  BY <1>4, <1>5

LEMMA ReceiveEndRange ==
    ASSUME IsRange, RInv, ReceiveEnd PROVE RInv'
<1> USE DEF RInv
<1>1. /\ IInv' /\ pc = "wait" /\ step = 3
      /\ twi_masterBufferIndex \in Nat
      /\ Asked \in Sonars /\ register[Asked] \in Int
  BY ReceiveEndKeeps, ThisStep, AskedIsSonar
  DEF ReceiveEnd, IInv, TypeOK, UnderWay, WriteUnderWay, Refusals, RangeTypes
<1>2. Calm /\ Asked' = Asked /\ register' = register
  BY DEF ReceiveEnd, Calm, caller, history, device, Asked
<1>3. /\ twi_masterBufferIndex' =
            twi_masterBufferIndex + (IF Taken THEN 1 ELSE 0)
      /\ \A j \in {0, 1} :
            j < twi_masterBufferIndex' => twi_masterBuffer'[j] = Answer(j)
  BY <1>1, KeepByte DEF ReceiveEnd
<1>4. ~Taken'
  BY DEF ReceiveEnd, Stop, Taken
<1>5. Base' = Base
  BY <1>1, <1>2, <1>3, <1>4 DEF Base
<1>6. Reading'
  BY <1>1, <1>2, <1>3, <1>4, <1>5 DEF Reading, Answer, Calm
<1> QED
  BY <1>1, <1>2, <1>6, CalmKeeps DEF Selecting, Calm, RangeTypes

-----------------------------------------------------------------------------
LEMMA StepKeepsRange == ASSUME IsRange, RInv, [Next]_vars PROVE RInv'
<1>1. CASE BecomeMaster
  BY <1>1, BecomeMasterRange
<1>2. CASE ReturnWrite
  BY <1>2, ReturnWriteRange
<1>3. CASE ReturnRead
  BY <1>3, ReturnReadRange
<1>4. CASE Continue
  BY <1>4, ContinueRange
<1>5. CASE SlaveAddress \/ TransmitEnd \/ Fail
  BY <1>5, WriteStepRange
<1>6. CASE Transmit
  BY <1>6, TransmitRange
<1>7. CASE Receive
  BY <1>7, ReceiveRange
<1>8. CASE ReceiveEnd
  BY <1>8, ReceiveEndRange
<1>9. CASE Spin \/ UNCHANGED vars
  <2>1. IInv'
    BY <1>9, StepKeepsInvariant DEF RInv, Next, Main
  <2>2. UNCHANGED vars
    BY <1>9 DEF Spin
  <2>3. UNCHANGED <<Asked, Base, Taken, Now>>
    BY <2>2 DEF vars, twi, device, Asked, Base, Taken, Now
  <2>4. \A j : Answer(j)' = Answer(j)
    BY <2>2, <2>3 DEF vars, device, Answer
  <2>5. Reading'
    BY <2>2, <2>3, <2>4 DEF vars, twi, history, RInv, Reading
  <2>6. RangeTypes' /\ Measuring' /\ Selecting'
    BY <2>2, <2>3
    DEF vars, device, history, RInv, RangeTypes, Measuring, Selecting, Fresh
  <2>7. RangeIsOneMeasurement'
    BY <2>2, <2>3
    DEF vars, device, history, RInv, RangeIsOneMeasurement
  <2> QED
    BY <2>1, <2>5, <2>6, <2>7 DEF RInv
<1> QED
  BY <1>1, <1>2, <1>3, <1>4, <1>5, <1>6, <1>7, <1>8, <1>9
  DEF Next, Main, Isr

\* range() answers with two successive bytes of the sonar it asked, read by this
\* call, or with nothing, however the bus and the sonars fail; and when no write
\* of the call has failed they are the measurement that it began.
THEOREM RangeCorrect ==
    ASSUME IsRange PROVE Spec => []RangeIsOneMeasurement
<1>1. Init => RInv
  BY InitRange
<1>2. RInv /\ [Next]_vars => RInv'
  BY StepKeepsRange
<1>3. RInv => RangeIsOneMeasurement
  BY DEF RInv
<1> QED
  BY <1>1, <1>2, <1>3, PTL DEF Spec
=============================================================================
