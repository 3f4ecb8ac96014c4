----------------------------- MODULE TwiMaster ------------------------------
(***************************************************************************)
(* Insula's two-wire bus: Sonar_calc, which for each sonar in turn makes   *)
(* the transactions of Script (SRF08::range through Wire), twi_writeTo and *)
(* twi_readFrom, which start a transaction and spin on twi_state, and the  *)
(* TWI interrupt, which carries it out from one bus status to the next.    *)
(* A sonar may refuse its address or a byte, and the bus may fail.  Nobody *)
(* else is master, and insula is never addressed as a slave.               *)
(***************************************************************************)
EXTENDS Integers, Sequences, FiniteSetsExt

CONSTANTS
    Script,             \* transactions, [op |-> "write", data |-> bytes]
                        \* or [op |-> "read", n |-> a number of bytes]
    TWI_BUFFER_LENGTH,  \* also Wire's BUFFER_LENGTH
    Command,            \* the data of a write that starts a measurement
    MaxFaults           \* bound: refusals and failures

\* A byte: whose it is, in which of its measurements, and from which register;
\* the bytes of insula have a value for that.
Byte == [dev : Nat, n : Nat, i : Nat]

\* No write is empty or clipped by Wire.  A read that filled the buffer would
\* be a byte too long for it: TWI_vect acknowledges one byte more than it was
\* asked for.
Write == {t \in [op : {"write"}, data : Seq(Byte)] :
             Len(t.data) \in 1..TWI_BUFFER_LENGTH}
Read == {t \in [op : {"read"}, n : Nat] : t.n < TWI_BUFFER_LENGTH}

ASSUME ScriptAssumption ==
    /\ TWI_BUFFER_LENGTH \in Nat
    /\ MaxFaults \in Nat
    /\ Script \in Seq(Write \cup Read)
    /\ Script # <<>>

Sonar1 == 113           \* 0x71
NUM_READINGS == 2
RANGE_REG == 2          \* a sonar's register for the high byte of a range

\* The sonar that Sonar_calc asks for its i-th reading.
SonarAddress(i) == Sonar1 + 7 * i

VARIABLES
    reading,            \* Sonar_calc: its place in the readings, from 0
    step, pc,           \* range: its place in Script and in the call
    twi_slarw,          \* the address the interrupt sends
    twi_state, twi_error, twi_masterBuffer, twi_masterBufferIndex,
    twi_masterBufferLength,
    status,             \* TW_STATUS of the interrupt that is pending
    TWDR,               \* the byte received with it
    received, answered, \* what the sonar addressed has taken, and how many
                        \* bytes it has sent
    measured,           \* measurements each sonar has made, modulo 3
    register,           \* the register each sonar answers from next
    before,             \* history: measured when this range() was called
    refused,            \* history: a write of this range() has failed
    faults,
    ret,                \* what the last call returned
    result              \* what the last range() returned

twi == <<twi_state, twi_error, twi_masterBuffer, twi_masterBufferIndex,
         twi_masterBufferLength>>
caller == <<reading, step, pc>>
device == <<received, answered, measured, register>>
history == <<before, refused>>
vars == <<reading, step, pc, twi_slarw, twi, status, TWDR, device, faults,
          ret, result, history>>

NoError == "no error"     \* 0xFF
Zero == [dev |-> 0, n |-> 0, i |-> 0]
Sonars == {SonarAddress(i) : i \in 0..(NUM_READINGS - 1)}

Init ==
    /\ reading = 0 /\ step = 1 /\ pc = "call"
    /\ twi_slarw = 0
    /\ twi_state = "READY" /\ twi_error = NoError
    /\ twi_masterBuffer = [i \in 0..(TWI_BUFFER_LENGTH - 1) |-> Zero]
    /\ twi_masterBufferIndex = 0 /\ twi_masterBufferLength = 0
    /\ status = "none"
    /\ TWDR = Zero
    /\ received = <<>> /\ answered = 0 /\ measured = [d \in Sonars |-> 0]
    /\ register = measured
    /\ before = 0 /\ refused = FALSE
    /\ faults = 0
    /\ ret = "none"
    /\ result = <<>>

Now == Script[step]
State == IF Now.op = "write" THEN "MTX" ELSE "MRX"

\* requestFrom clamps the length, and send() drops what does not fit.
Length == Min({TWI_BUFFER_LENGTH,
               IF Now.op = "write" THEN Len(Now.data) ELSE Now.n})

NextStep ==
    /\ step' = (step % Len(Script)) + 1
    /\ reading' = IF step' = 1 THEN (reading + 1) % NUM_READINGS ELSE reading

-----------------------------------------------------------------------------
\* twi_writeTo, twi_readFrom: become master when the bus is ready and start.
BecomeMaster ==
    /\ pc = "call"
    /\ twi_state = "READY"
    /\ twi_state' = State
    /\ twi_slarw' = SonarAddress(reading)
    /\ twi_error' = NoError
    /\ twi_masterBufferIndex' = 0
    /\ twi_masterBufferLength' = Length
    /\ twi_masterBuffer' =
         IF Now.op = "write"
         THEN [i \in DOMAIN twi_masterBuffer |->
                 IF i < Length THEN Now.data[i + 1] ELSE twi_masterBuffer[i]]
         ELSE twi_masterBuffer
    /\ status' = "START"
    /\ received' = <<>> /\ answered' = 0
    /\ pc' = "wait"
    /\ before' = IF step = 1 THEN measured[SonarAddress(reading)] ELSE before
    /\ refused' = (refused /\ step # 1)
    /\ UNCHANGED <<reading, step, TWDR, measured, register, faults, ret,
                   result>>

\* The wait is over when the interrupt has changed the state.
Spin ==
    /\ pc = "wait"
    /\ twi_state = State
    /\ UNCHANGED vars

\* A sonar that has taken a whole command measures.
Count == IF received = Command
         THEN [measured EXCEPT ![twi_slarw] = (@ + 1) % 3] ELSE measured

FinishWrite ==
    /\ ret' = CASE twi_error = NoError        -> 0
                [] twi_error = "MT_SLA_NACK"  -> 2
                [] twi_error = "MT_DATA_NACK" -> 3
                [] OTHER                      -> 4
    /\ measured' = Count
    /\ refused' = (refused \/ ret' # 0)
    /\ pc' = "done"
    /\ UNCHANGED <<reading, step, twi_slarw, twi, status, TWDR, received,
                   answered, register, faults, result, before>>

\* twi_writeTo called with wait 0.
ReturnWriteAtOnce == pc = "wait" /\ Now.op = "write" /\ FinishWrite

ReturnWrite ==
    /\ pc = "wait" /\ Now.op = "write"
    /\ twi_state # "MTX"
    /\ FinishWrite

\* A range() that does not look how many bytes came.
ReturnAnything ==
    /\ pc = "wait" /\ Now.op = "read"
    /\ twi_state # "MRX"
    /\ ret' = Min({Length, twi_masterBufferIndex})
    /\ result' = [i \in 1..2 |-> twi_masterBuffer[i - 1]]
    /\ pc' = "done"
    /\ UNCHANGED <<reading, step, twi_slarw, twi, status, TWDR, device,
                   faults, history>>

\* The bytes that came go to rxBuffer; range() wants two of them.
ReturnRead ==
    /\ pc = "wait" /\ Now.op = "read"
    /\ twi_state # "MRX"
    /\ ret' = Min({Length, twi_masterBufferIndex})
    /\ result' = IF ret' >= 2 THEN [i \in 1..2 |-> twi_masterBuffer[i - 1]]
                 ELSE <<>>
    /\ pc' = "done"
    /\ UNCHANGED <<reading, step, twi_slarw, twi, status, TWDR, device,
                   faults, history>>

\* The caller looks at no report and goes on.
Continue ==
    /\ pc = "done"
    /\ NextStep
    /\ ret' = "none"
    /\ pc' = "call"
    /\ UNCHANGED <<twi_slarw, twi, status, TWDR, device, faults, result,
                   history>>

-----------------------------------------------------------------------------
\* What the bus does next: as it should, or, while MaxFaults allows, it fails.
Bus(good, bad) ==
    \/ status' = good /\ UNCHANGED faults
    \/ faults < MaxFaults /\ faults' = faults + 1 /\ status' \in bad

\* twi_stop and twi_releaseBus.
Stop == twi_state' = "READY" /\ status' = "none"

SlaveAddress ==
    /\ status = "START"
    /\ IF twi_state = "MTX"
       THEN Bus("MT_SLA_ACK", {"MT_SLA_NACK", "ARB_LOST", "BUS_ERROR"})
       ELSE Bus("MR_SLA_ACK", {"MR_SLA_NACK", "ARB_LOST", "BUS_ERROR"})
    /\ UNCHANGED <<caller, twi_slarw, twi, TWDR, device, ret, result, history>>

\* The sonar takes a byte.  The first of a write selects a register.
Take(byte) ==
    /\ received' = Append(received, byte)
    /\ register' = IF received = <<>>
                   THEN [register EXCEPT ![twi_slarw] = byte.i] ELSE register

\* Master transmitter: the next byte, or stop.
Transmit ==
    /\ status \in {"MT_SLA_ACK", "MT_DATA_ACK"}
    /\ twi_masterBufferIndex < twi_masterBufferLength
    /\ twi_masterBufferIndex' = twi_masterBufferIndex + 1
    /\ Bus("MT_DATA_ACK", {"MT_DATA_NACK", "ARB_LOST", "BUS_ERROR"})
    /\ IF status' = "MT_DATA_ACK"
       THEN Take(twi_masterBuffer[twi_masterBufferIndex])
       ELSE UNCHANGED <<received, register>>
    /\ UNCHANGED <<caller, twi_slarw, twi_state, twi_error, twi_masterBuffer,
                   twi_masterBufferLength, TWDR, answered, measured, ret,
                   result, history>>

TransmitEnd ==
    /\ status \in {"MT_SLA_ACK", "MT_DATA_ACK"}
    /\ twi_masterBufferIndex >= twi_masterBufferLength
    /\ Stop
    /\ UNCHANGED <<caller, twi_slarw, twi_error, twi_masterBuffer,
                   twi_masterBufferIndex, twi_masterBufferLength, TWDR, device,
                   faults, ret, result, history>>

\* A refusal that is recorded, but after which the bus is not given back; and
\* one that is not recorded.
FailNoStop ==
    /\ status \in {"MT_SLA_NACK", "MT_DATA_NACK", "ARB_LOST", "BUS_ERROR"}
    /\ twi_error' = status
    /\ status' = "none"
    /\ twi_state' = IF status \in {"MT_SLA_NACK", "ARB_LOST"} THEN twi_state
                    ELSE "READY"
    /\ UNCHANGED <<caller, twi_slarw, twi_masterBuffer,
                   twi_masterBufferIndex, twi_masterBufferLength, TWDR, device,
                   faults, ret, result, history>>

FailSilently ==
    /\ status \in {"MT_SLA_NACK", "MT_DATA_NACK", "ARB_LOST", "BUS_ERROR"}
    /\ twi_error' = IF status = "MT_DATA_NACK" THEN twi_error ELSE status
    /\ Stop
    /\ UNCHANGED <<caller, twi_slarw, twi_masterBuffer,
                   twi_masterBufferIndex, twi_masterBufferLength, TWDR, device,
                   faults, ret, result, history>>

Fail ==
    /\ status \in {"MT_SLA_NACK", "MT_DATA_NACK", "ARB_LOST", "BUS_ERROR"}
    /\ twi_error' = status
    /\ Stop
    /\ UNCHANGED <<caller, twi_slarw, twi_masterBuffer,
                   twi_masterBufferIndex, twi_masterBufferLength, TWDR, device,
                   faults, ret, result, history>>

\* Master receiver: a byte that came is kept; an answer decides whether the
\* device may send another after the next.
Keep == IF status \in {"MR_DATA_ACK", "MR_DATA_NACK"}
        THEN /\ twi_masterBuffer' =
                  [twi_masterBuffer EXCEPT ![twi_masterBufferIndex] = TWDR]
             /\ twi_masterBufferIndex' = twi_masterBufferIndex + 1
        ELSE UNCHANGED <<twi_masterBuffer, twi_masterBufferIndex>>

\* The sonar sends the byte of its register and goes on to the next.
Give ==
    /\ answered' = answered + 1
    /\ register' = [register EXCEPT ![twi_slarw] = @ + 1]
    /\ TWDR' = [dev |-> twi_slarw, n |-> measured[twi_slarw],
                i |-> register[twi_slarw]]

Receive ==
    /\ status \in {"MR_SLA_ACK", "MR_DATA_ACK"}
    /\ Keep
    /\ Bus(IF twi_masterBufferIndex' < twi_masterBufferLength
           THEN "MR_DATA_ACK" ELSE "MR_DATA_NACK", {"BUS_ERROR"})
    /\ IF status' = "BUS_ERROR"
       THEN UNCHANGED <<TWDR, answered, register>>
       ELSE Give
    /\ UNCHANGED <<caller, twi_slarw, twi_state, twi_error,
                   twi_masterBufferLength,
                   received, measured, ret, result, history>>

ReceiveEnd ==
    /\ status \in {"MR_DATA_NACK", "MR_SLA_NACK"}
    /\ Keep
    /\ Stop
    /\ UNCHANGED <<caller, twi_slarw, twi_error, twi_masterBufferLength, TWDR,
                   device, faults, ret, result, history>>

Main == BecomeMaster \/ Spin \/ ReturnWrite \/ ReturnRead \/ Continue
Isr == SlaveAddress \/ Transmit \/ TransmitEnd \/ Fail \/ Receive \/ ReceiveEnd

Next == Main \/ Isr

\* The bus hardware finishes every byte, and the caller spins or goes on.
Spec == Init /\ [][Next]_vars /\ WF_vars(Main) /\ WF_vars(Isr)

-----------------------------------------------------------------------------
\* Every variable has its type, and a transaction is under way exactly while
\* the interrupt has something to do.
TypeOK ==
    /\ step \in DOMAIN Script
    /\ reading \in 0..(NUM_READINGS - 1)
    /\ twi_slarw \in Sonars \cup {0}
    /\ pc \in {"call", "wait", "done"}
    /\ twi_state \in {"READY", "MTX", "MRX"}
    /\ twi_masterBufferIndex \in 0..TWI_BUFFER_LENGTH
    /\ twi_masterBufferLength \in 0..TWI_BUFFER_LENGTH
    /\ faults \in 0..MaxFaults
    /\ twi_state # "READY" => pc = "wait"

\* A write that reports success has put every byte into the device, in order,
\* and one that reports a failure has not.
ReportIsTrue ==
    pc = "done" /\ Now.op = "write" => (ret = 0 <=> received = Now.data)

\* range() answers with two successive bytes of the sonar it asked, read by this
\* call, or with nothing: never with bytes that twi_masterBuffer still holds
\* from a transaction before.  When no write of the call has failed they are
\* the two bytes of the measurement that this call began: not an older one, and
\* not what another register holds.
RangeIsOneMeasurement ==
    pc = "done" /\ Now.op = "read" /\ result # <<>> =>
        /\ \A i \in 1..2 :
             result[i] = [dev |-> SonarAddress(reading),
                          n |-> measured[SonarAddress(reading)],
                          i |-> result[1].i + i - 1]
        /\ ~refused => /\ result[1].i = RANGE_REG
                       /\ result[1].n = (before + 1) % 3

\* Every call comes back, whichever byte of it the device or the bus refuses.
CallsReturn == pc = "wait" ~> pc = "done"
=============================================================================
