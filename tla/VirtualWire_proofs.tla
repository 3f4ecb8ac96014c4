------------------------- MODULE VirtualWire_proofs -------------------------
(***************************************************************************)
(* For every size of the receive buffer, sequence of messages and number of *)
(* faults: the receiver lets go in time and stays in its buffer; a message *)
(* that meets a free receiver and no fault is heard; one of which a byte, or *)
(* two neighbours, came damaged is refused; and while no fault has come no *)
(* message vanishes, and the radio is the service of Datagram.             *)
(* The parts, in order: the receiver lets go, types, what the decoder sees *)
(* of the air (symbols, check sequence, start symbol), the message on the  *)
(* air followed, what vw_get_message fetches, refinement, damage.          *)
(***************************************************************************)
EXTENDS VirtualWire, SequenceTheorems, WellFoundedInduction, TLAPS

\* While a message comes in, held counts its bits: a symbol pair for each byte
\* stored and what there is of the next.  A count that makes no sense has
\* dropped the message, so the bytes to come are bounded by the buffer.
Collecting ==
    vw_rx_active =>
        /\ vw_rx_bit_count \in 0..11
        /\ vw_rx_len \in 0..(VW_MAX_MESSAGE_LEN - 1)
        /\ vw_rx_len > 0 => /\ vw_rx_count \in 4..VW_MAX_MESSAGE_LEN
                            /\ vw_rx_len < vw_rx_count
        /\ held = 12 * vw_rx_len + vw_rx_bit_count

IInv ==
    /\ vw_rx_active \in BOOLEAN
    /\ ~vw_rx_active => held = 0
    /\ Collecting

\* Twelve bits for each byte.
LEMMA Twelve ==
    ASSUME NEW m \in Nat, NEW k \in 0..(m - 1), NEW b \in 0..11
    PROVE  /\ 12 * k + b \in Nat
           /\ 12 * k + b < 12 * m
           /\ 12 * k + b + 1 = 12 * k + (b + 1)
           /\ 12 * k + 11 + 1 = 12 * (k + 1) + 0
           /\ 12 * 0 + 0 = 0
  OBVIOUS

LEMMA BitKeeps ==
    ASSUME NEW bit, IInv, vw_pll(bit)
    PROVE  IInv'
<1> USE DEF IInv
<1>m. VW_MAX_MESSAGE_LEN \in Nat /\ VW_MAX_MESSAGE_LEN >= 4
  BY LengthAssumption
<1>1. CASE ~vw_rx_active
  <2>1. held' = 0
    BY <1>1 DEF vw_pll
  <2>2. StartSymbol \/ UNCHANGED vw_rx_active
    BY <1>1 DEF vw_pll
  <2>3. CASE StartSymbol
    <3>1. vw_rx_active' = TRUE /\ vw_rx_bit_count' = 0 /\ vw_rx_len' = 0
      BY <2>3 DEF StartSymbol
    <3> QED
      BY <1>m, <2>1, <3>1, Twelve DEF Collecting
  <2>4. CASE UNCHANGED vw_rx_active
    BY <1>1, <2>1, <2>4 DEF Collecting
  <2> QED
    BY <2>2, <2>3, <2>4
<1>2. CASE vw_rx_active /\ vw_rx_bit_count < 11
  <2>1. /\ UNCHANGED <<vw_rx_active, vw_rx_count, vw_rx_len>>
        /\ vw_rx_bit_count' = vw_rx_bit_count + 1
        /\ held' = held + 1
    BY <1>2 DEF vw_pll, Collect
  <2> QED
    BY <1>m, <1>2, <2>1, Twelve DEF Collecting
<1>3. CASE vw_rx_active /\ vw_rx_bit_count = 11
  <2> DEFINE byte == Byte(vw_rx_bits')
  <2>1. /\ Collect /\ ~(vw_rx_bit_count < 11)
        /\ held' = IF vw_rx_active' THEN held + 1 ELSE 0
    BY <1>3 DEF vw_pll
  <2>2. CASE Senseless(byte)
    <3>1. vw_rx_active' = FALSE
      BY <2>1, <2>2 DEF Collect, Drop
    <3> QED
      BY <2>1, <3>1 DEF Collecting
  <2>3. CASE ~Senseless(byte)
    <3>1. Store(byte)
      BY <2>1, <2>3 DEF Collect
    <3>2. vw_rx_len = 0 => byte \in 4..VW_MAX_MESSAGE_LEN
      BY <2>3 DEF Senseless
    <3> HIDE DEF byte
    <3>3. /\ vw_rx_len' = vw_rx_len + 1
          /\ vw_rx_bit_count' = 0
          /\ vw_rx_count' = IF vw_rx_len = 0 THEN byte ELSE vw_rx_count
          /\ IF vw_rx_len' >= vw_rx_count'
             THEN vw_rx_active' = FALSE ELSE vw_rx_active' = vw_rx_active
      BY <3>1 DEF Store
    <3>4. vw_rx_len' \in Nat /\ vw_rx_count' \in 4..VW_MAX_MESSAGE_LEN
      BY <1>m, <1>3, <3>2, <3>3 DEF Collecting
    <3>5. CASE vw_rx_len' >= vw_rx_count'
      BY <2>1, <3>3, <3>5 DEF Collecting
    <3>6. CASE vw_rx_len' < vw_rx_count'
      <4>1. ~(vw_rx_len' >= vw_rx_count')
        BY <3>4, <3>6
      <4>2. vw_rx_active' = vw_rx_active
        BY <3>3, <4>1
      <4>3. held' = held + 1
        BY <1>3, <2>1, <4>2
      <4>4. held = 12 * vw_rx_len + 11
        BY <1>3 DEF Collecting
      <4> QED
        BY <1>m, <1>3, <3>3, <3>4, <3>6, <4>2, <4>3, <4>4, Twelve
        DEF Collecting
    <3> QED
      BY <3>4, <3>5, <3>6, <1>m
  <2> QED
    BY <2>2, <2>3
<1> QED
  BY <1>1, <1>2, <1>3 DEF Collecting

LEMMA StepKeepsInvariant == ASSUME IInv, [Next]_vars PROVE IInv'
<1>1. CASE BitPeriod
  BY <1>1, BitKeeps DEF BitPeriod
<1>2. CASE Fault
  BY <1>2, BitKeeps DEF Fault, decoder, IInv, Collecting
<1>3. CASE vw_send \/ UNCHANGED vars
  BY <1>3 DEF vw_send, vars, decoder, IInv, Collecting
<1>4. CASE vw_get_message
  BY <1>4
  DEF vw_get_message, Test, Length, Copy, Clear, Check, CheckIf, decoder,
      IInv, Collecting
<1> QED
  BY <1>1, <1>2, <1>3, <1>4 DEF Next

\* The receiver is never held for longer than the longest message takes.
THEOREM AlwaysReleased == Spec => []ReceiverIsReleased
<1>1. Init => IInv
  BY DEF Init, IInv, Collecting
<1>2. IInv => ReceiverIsReleased
  <2>1. VW_MAX_MESSAGE_LEN \in Nat /\ 12 * VW_MAX_MESSAGE_LEN >= 0
    BY LengthAssumption
  <2> QED
    BY <2>1, Twelve DEF IInv, Collecting, ReceiverIsReleased
<1> QED
  BY <1>1, <1>2, StepKeepsInvariant, PTL DEF Spec


-----------------------------------------------------------------------------
\* Types.  What is sent is a sequence, and what is received are bytes.
Types == TypeOK /\ Len(vw_tx_buf) \in Nat

LEMMA CodedIsSequence ==
    ASSUME NEW i \in 1..Len(Messages)
    PROVE  Len(Coded[i]) \in Nat
<1> DEFINE frame == Frame(Messages[i])
           body == <<Len(Messages[i]) + 3>> \o Messages[i]
           symbol(k) == LET byte == frame[(k + 1) \div 2]
                        IN  symbols[1 + IF k % 2 = 1 THEN byte \div 16
                                                     ELSE byte % 16]
<1>1. Messages[i] \in Seq(Int)
  <2>1. PICK D : D = 0..255
    OBVIOUS
  <2>2. Messages \in Seq(Seq(D)) /\ D \subseteq Int
    BY <2>1, LengthAssumption
  <2>3. Messages[i] \in Seq(D)
    BY <2>2, ElementOfSeq
  <2>4. PICK n \in Nat : Messages[i] \in [1..n -> D]
    BY <2>3
  <2>5. Messages[i] \in [1..n -> Int]
    BY <2>2, <2>4
  <2> QED
    BY <2>5
<1>2. body \in Seq(Int) /\ Len(body) \in Nat
  <2>1. Len(Messages[i]) + 3 \in Int
    BY <1>1, LenProperties
  <2>2. <<Len(Messages[i]) + 3>> \in Seq(Int)
    BY <2>1
  <2> QED
    BY <1>1, <2>2, ConcatProperties, LenProperties
<1>3. Len(frame) \in Nat
  <2> DEFINE fcs == 65535 - vw_crc(body)
             S == Int \cup {fcs % 256, fcs \div 256}
  <2>1. frame = body \o <<fcs % 256, fcs \div 256>>
    BY DEF Frame
  <2>2. body \in Seq(S)
    BY <1>2
  <2>3. <<fcs % 256, fcs \div 256>> \in Seq(S)
    OBVIOUS
  <2> HIDE DEF body, fcs, S, frame
  <2> QED
    BY <2>1, <2>2, <2>3, ConcatProperties, LenProperties
<1>4. PICK n \in Nat : n = 2 * Len(frame)
  BY <1>3
<1>5. Encoded(frame) = [k \in 1..n |-> symbol(k)]
  BY <1>4 DEF Encoded
<1> DEFINE S == {symbol(k) : k \in 1..n} \cup {42, 56, 44}
<1> HIDE DEF symbol, frame
<1>6. Encoded(frame) \in Seq(S)
  <2>1. \A k \in 1..n : symbol(k) \in S
    OBVIOUS
  <2> HIDE DEF S
  <2> QED
    BY <1>4, <1>5, <2>1, IsASeq
<1>7. Header \in Seq(S)
  BY DEF Header
<1>8. Coded[i] = Header \o Encoded(frame)
  <2>1. i \in DOMAIN Messages
    BY LengthAssumption
  <2> QED
    BY <2>1 DEF Coded, frame
<1> HIDE DEF S
<1> QED
  BY <1>6, <1>7, <1>8, ConcatProperties, LenProperties

LEMMA BitIsBit == ASSUME NEW n, NEW i PROVE Bit(n, i) \in {0, 1}
  BY DEF Bit

LEMMA AirIsBit == Air \in {0, 1} /\ 1 - Air \in {0, 1}
<1>1. Air \in {0, 1}
  BY BitIsBit DEF Air
<1> QED
  BY <1>1

LEMMA Chosen ==
    ASSUME NEW S, NEW f, NEW v, \E i \in S : f[i] = v
    PROVE  (CHOOSE i \in S : f[i] = v) \in S
  OBVIOUS

\* Every symbol is read as half a byte, those that are none as 0.
LEMMA SymbolIsNybble ==
    ASSUME NEW s \in 0..63 PROVE vw_symbol_6to4[s] \in 0..15
<1>1. vw_symbol_6to4[s] = IF \E i \in 1..16 : symbols[i] = s
                          THEN (CHOOSE i \in 1..16 : symbols[i] = s) - 1 ELSE 0
  BY SMT DEF vw_symbol_6to4
<1>2. CASE \E i \in 1..16 : symbols[i] = s
  <2>1. PICK c : c = CHOOSE i \in 1..16 : symbols[i] = s
    OBVIOUS
  <2>2. c \in 1..16
    BY <1>2, <2>1, Chosen
  <2>3. vw_symbol_6to4[s] = c - 1
    BY <1>1, <1>2, <2>1, Zenon
  <2> QED
    BY <2>2, <2>3
<1>3. CASE ~\E i \in 1..16 : symbols[i] = s
  BY <1>1, <1>3
<1> QED
  BY <1>2, <1>3

LEMMA ByteIsByte ==
    ASSUME NEW bits \in Int, 0 <= bits, bits <= 4095
    PROVE  Byte(bits) \in Bytes
<1>1. PICK u \in 0..63 : u = bits % 64
  OBVIOUS
<1>2. PICK w \in 0..63 : w = bits \div 64
  <2>1. PICK q \in Int : q = bits \div 64 /\ 64 * q <= bits /\ q >= 0
    OBVIOUS
  <2> QED
    BY <2>1
<1>3. PICK a \in 0..15, b \in 0..15 :
          a = vw_symbol_6to4[u] /\ b = vw_symbol_6to4[w]
  BY SymbolIsNybble
<1>4. Byte(bits) = 16 * a + b
  BY <1>1, <1>2, <1>3 DEF Byte
<1> QED
  BY <1>4 DEF Bytes

LEMMA TransmitTypes ==
    ASSUME Types, Transmit
    PROVE  /\ vw_tx_bit' \in 0..5 /\ vw_tx_index' \in 0..Len(vw_tx_buf')
           /\ vw_tx_enabled' \in BOOLEAN /\ Len(vw_tx_buf') \in Nat
           /\ nsent' = nsent
<1>1. PICK n \in Nat : n = Len(vw_tx_buf)
  BY DEF Types
<1>2. vw_tx_index \in 0..n /\ vw_tx_bit \in 0..5
  BY <1>1 DEF Types, TypeOK
<1>3. /\ vw_tx_buf' = vw_tx_buf /\ nsent' = nsent
      /\ vw_tx_enabled' = (vw_tx_enabled /\ vw_tx_index < n)
  BY <1>1 DEF Transmit
<1>4. vw_tx_enabled' \in BOOLEAN /\ (vw_tx_enabled' => vw_tx_index < n)
  BY <1>3, Zenon
<1>5. vw_tx_bit' \in 0..5 /\ vw_tx_index' \in 0..n
  <2>1. CASE ~vw_tx_enabled'
    BY <1>2, <2>1 DEF Transmit
  <2>2. CASE vw_tx_enabled' /\ vw_tx_bit = 5
    BY <1>2, <1>4, <2>2 DEF Transmit
  <2>3. CASE vw_tx_enabled' /\ vw_tx_bit # 5
    BY <1>2, <2>3 DEF Transmit
  <2> QED
    BY <2>1, <2>2, <2>3
<1> QED
  BY <1>1, <1>3, <1>4, <1>5

\* The receiver's variables.
DecoderTypes ==
    /\ vw_rx_bits \in 0..4095
    /\ vw_rx_bit_count \in 0..12
    /\ vw_rx_active \in BOOLEAN /\ vw_rx_done \in BOOLEAN
    /\ vw_rx_buf \in [1..VW_MAX_MESSAGE_LEN -> Bytes]
    /\ vw_rx_count \in Bytes
    /\ vw_rx_len \in 0..VW_MAX_MESSAGE_LEN
    /\ vw_rx_active => vw_rx_bit_count < 12 /\ vw_rx_len < VW_MAX_MESSAGE_LEN

LEMMA StoreTypes ==
    ASSUME DecoderTypes, IInv, IInv', vw_rx_active, NEW byte \in Bytes,
           ~Senseless(byte), Store(byte), vw_rx_bits' \in 0..4095
    PROVE  DecoderTypes'
<1>1. PICK n \in 4..255 : n = VW_MAX_MESSAGE_LEN
  BY LengthAssumption
<1>2. /\ vw_rx_len \in 0..(n - 1)
      /\ vw_rx_len > 0 => vw_rx_count \in 4..n
      /\ vw_rx_len = 0 => byte \in 4..n
  BY <1>1 DEF IInv, Collecting, Senseless
<1>3. /\ vw_rx_len' = vw_rx_len + 1 /\ vw_rx_bit_count' = 0
      /\ vw_rx_count' = IF vw_rx_len = 0 THEN byte ELSE vw_rx_count
      /\ vw_rx_buf' = [vw_rx_buf EXCEPT ![vw_rx_len + 1] = byte]
  BY DEF Store
<1>4. vw_rx_count' \in 4..n /\ vw_rx_count' \in Bytes /\ vw_rx_len' \in 0..n
  BY <1>2, <1>3 DEF Bytes
<1>5. vw_rx_buf' \in [1..n -> Bytes]
  BY <1>1, <1>3 DEF DecoderTypes
<1>6. CASE vw_rx_len' >= vw_rx_count'
  <2>1. vw_rx_active' = FALSE
    BY <1>6 DEF Store
  <2>2. vw_rx_done' = TRUE
    BY <1>6 DEF Store
  <2>3. vw_rx_active' \in BOOLEAN
    BY DEF IInv
  <2>4. vw_rx_done' \in BOOLEAN
    BY <2>2
  <2>5. vw_rx_bit_count' = 0
    BY <1>3
  <2> QED
    BY <1>1, <1>4, <1>5, <2>1, <2>3, <2>4, <2>5 DEF DecoderTypes
<1>7. CASE ~(vw_rx_len' >= vw_rx_count')
  <2>1. vw_rx_active' = vw_rx_active /\ vw_rx_done' = vw_rx_done
    BY <1>7 DEF Store
  <2>2. vw_rx_len' < n
    BY <1>4, <1>7
  <2> QED
    BY <1>1, <1>3, <1>4, <1>5, <2>1, <2>2 DEF DecoderTypes
<1> QED
  BY <1>6, <1>7

LEMMA PllTypes ==
    ASSUME DecoderTypes, IInv, NEW bit \in {0, 1}, vw_pll(bit)
    PROVE  DecoderTypes'
<1>1. vw_rx_bits' \in 0..4095
  <2>1. PICK b \in 0..4095 : b = vw_rx_bits
    BY DEF DecoderTypes
  <2>2. vw_rx_bits' = (b \div 2) + 2048 * bit
    BY <2>1 DEF vw_pll
  <2>3. b \div 2 \in 0..2047
    OBVIOUS
  <2> QED
    BY <2>2, <2>3
<1>n. VW_MAX_MESSAGE_LEN \in Nat /\ VW_MAX_MESSAGE_LEN >= 4
  BY LengthAssumption
<1>2. CASE ~vw_rx_active
  <2>1. CASE StartSymbol
    <3>1. /\ vw_rx_active' = TRUE /\ vw_rx_done' = FALSE
          /\ vw_rx_bit_count' = 0 /\ vw_rx_len' = 0
          /\ vw_rx_buf' = vw_rx_buf /\ vw_rx_count' = vw_rx_count
      BY <2>1 DEF StartSymbol
    <3>2. vw_rx_active' \in BOOLEAN /\ vw_rx_done' \in BOOLEAN
      BY <3>1
    <3> QED
      BY <1>1, <1>n, <3>1, <3>2 DEF DecoderTypes
  <2>2. CASE ~StartSymbol
    BY <1>1, <1>2, <2>2 DEF vw_pll, DecoderTypes
  <2> QED
    BY <2>1, <2>2
<1>3. CASE vw_rx_active /\ vw_rx_bit_count < 11
  <2>1. /\ UNCHANGED <<vw_rx_active, vw_rx_buf, vw_rx_count, vw_rx_len,
                       vw_rx_done>>
        /\ vw_rx_bit_count' = vw_rx_bit_count + 1
    BY <1>3 DEF vw_pll, Collect
  <2> QED
    BY <1>1, <1>3, <2>1 DEF DecoderTypes
<1>4. CASE vw_rx_active /\ vw_rx_bit_count = 11
  <2>1. PICK byte \in Bytes : byte = Byte(vw_rx_bits')
    <3>1. PICK b \in Int : b = vw_rx_bits' /\ 0 <= b /\ b <= 4095
      BY <1>1
    <3>2. Byte(b) \in Bytes
      BY <3>1, ByteIsByte
    <3>3. Byte(vw_rx_bits') = Byte(b)
      BY <3>1 DEF Byte
    <3> QED
      BY <3>2, <3>3
  <2>2. CASE Senseless(byte)
    <3>1. /\ vw_rx_count' = byte /\ vw_rx_active' = FALSE
          /\ vw_rx_bit_count' = 12
          /\ UNCHANGED <<vw_rx_buf, vw_rx_len, vw_rx_done>>
      BY <1>4, <2>1, <2>2 DEF vw_pll, Collect, Drop
    <3>2. vw_rx_active' \in BOOLEAN /\ vw_rx_count' \in Bytes
      BY <3>1
    <3> QED
      BY <1>1, <3>1, <3>2 DEF DecoderTypes
  <2>3. CASE ~Senseless(byte)
    <3>1. Store(byte)
      BY <1>4, <2>1, <2>3 DEF vw_pll, Collect
    <3>2. IInv'
      BY BitKeeps
    <3> QED
      BY <1>1, <1>4, <2>3, <3>1, <3>2, StoreTypes
  <2> QED
    BY <2>2, <2>3
<1> QED
  <2>1. vw_rx_active => vw_rx_bit_count \in 0..11
    BY DEF IInv, Collecting
  <2>2. vw_rx_active \in BOOLEAN
    BY DEF IInv
  <2> QED
    BY <1>2, <1>3, <1>4, <2>1, <2>2

\* The main program on insula.
LEMMA FetchTypes ==
    ASSUME Types, vw_get_message
    PROVE  Types'
<1>1. UNCHANGED <<transmitter, faults, vw_rx_bits, vw_rx_bit_count,
                  vw_rx_active, vw_rx_buf, vw_rx_count, vw_rx_len>>
  BY DEF vw_get_message, Test, Length, Copy, Clear, Check, CheckIf, decoder
<1>2. vw_rx_done' \in BOOLEAN
  <2>1. vw_rx_done' = vw_rx_done \/ vw_rx_done' = FALSE
    BY DEF vw_get_message, Test, Length, Copy, Clear, Check, CheckIf, decoder
  <2>2. vw_rx_done \in BOOLEAN
    BY DEF Types, TypeOK
  <2> QED
    BY <2>1, <2>2, Zenon
<1>3. pc' \in {"away", "length", "copy", "clear", "check"}
  BY DEF vw_get_message, Test, Length, Copy, Clear, Check, CheckIf
<1>4. rxlen' \in Bytes
  <2>1. rxlen' \in {rxlen, 0, (vw_rx_len - 3) % 256}
    BY DEF vw_get_message, Test, Length, Copy, Clear, Check, CheckIf
  <2>2. PICK n \in Int : n = vw_rx_len
    BY LengthAssumption DEF Types, TypeOK
  <2>3. (n - 3) % 256 \in Bytes
    BY DEF Bytes
  <2>4. 0 \in Bytes /\ rxlen \in Bytes
    BY DEF Types, TypeOK, Bytes
  <2> QED
    BY <2>1, <2>2, <2>3, <2>4
<1>5. slow' \in 0..1
  <2>1. slow' = slow \/ slow' = 0
    BY DEF vw_get_message, Test, Length, Copy, Clear, Check, CheckIf
  <2> QED
    BY <2>1 DEF Types, TypeOK
<1>6. vw_rx_active' => vw_rx_bit_count' < 12 /\ vw_rx_len' < VW_MAX_MESSAGE_LEN
  BY <1>1 DEF Types, TypeOK
<1> QED
  BY <1>1, <1>2, <1>3, <1>4, <1>5, <1>6 DEF Types, TypeOK, transmitter

LEMMA PassTypes ==
    ASSUME Types, InTime, Passes PROVE slow' \in 0..1
  BY DEF Types, TypeOK, InTime, Passes

LEMMA StepKeepsTypes ==
    ASSUME Types, IInv, [Next]_vars PROVE Types'
<1>d. DecoderTypes
  BY DEF Types, TypeOK, DecoderTypes
<1>1. CASE vw_send
  <2>1. nsent \in 0..Len(Messages) /\ nsent < Len(Messages)
    BY <1>1 DEF vw_send, Types, TypeOK
  <2>2. PICK n \in 1..Len(Messages) : n = nsent + 1
    <3>1. Len(Messages) \in Nat
      BY LengthAssumption, LenProperties
    <3> QED
      BY <2>1, <3>1
  <2>3. vw_tx_buf' = Coded[n] /\ nsent' = n
    BY <1>1, <2>2 DEF vw_send
  <2>4. Len(vw_tx_buf') \in Nat
    BY <2>3, CodedIsSequence
  <2>5. vw_tx_index' = 0 /\ vw_tx_bit' = 0 /\ vw_tx_enabled' = TRUE
    BY <1>1 DEF vw_send
  <2>6. /\ vw_tx_index' \in 0..Len(vw_tx_buf') /\ vw_tx_bit' \in 0..5
        /\ vw_tx_enabled' \in BOOLEAN /\ nsent' \in 0..Len(Messages)
    BY <2>1, <2>2, <2>3, <2>4, <2>5
  <2>7. UNCHANGED <<decoder, fetch, slow, faults>>
    BY <1>1 DEF vw_send
  <2>8. DecoderTypes' /\ UNCHANGED <<pc, rxlen, slow, faults>>
    BY <1>d, <2>7 DEF DecoderTypes, decoder, fetch
  <2> QED
    BY <2>4, <2>6, <2>8 DEF Types, TypeOK, DecoderTypes
<1>2. CASE BitPeriod
  <2>1. Transmit /\ vw_pll(Air) /\ InTime /\ Passes
        /\ UNCHANGED <<pc, rxlen, faults>>
    BY <1>2 DEF BitPeriod, fetch
  <2>2. DecoderTypes'
    BY <1>d, <2>1, PllTypes, AirIsBit
  <2>3. slow' \in 0..1
    BY <2>1, PassTypes
  <2> QED
    BY <2>1, <2>2, <2>3, TransmitTypes DEF Types, TypeOK, DecoderTypes
<1>3. CASE Fault
  <2>1. InTime /\ Passes /\ UNCHANGED <<pc, rxlen>>
    BY <1>3 DEF Fault, fetch
  <2>2. faults' \in 0..MaxFaults
    BY <1>3, LengthAssumption DEF Fault, Types, TypeOK
  <2>3. slow' \in 0..1
    BY <2>1, PassTypes
  <2>4. DecoderTypes'
    <3>1. CASE vw_pll(1 - Air)
      BY <1>d, <3>1, PllTypes, AirIsBit
    <3>2. CASE vw_pll(Air)
      BY <1>d, <3>2, PllTypes, AirIsBit
    <3>3. CASE UNCHANGED decoder
      BY <1>d, <3>3 DEF DecoderTypes, decoder
    <3> QED
      BY <1>3, <3>1, <3>2, <3>3 DEF Fault
  <2>5. Transmit \/ UNCHANGED transmitter
    BY <1>3 DEF Fault
  <2>6. /\ vw_tx_bit' \in 0..5 /\ vw_tx_index' \in 0..Len(vw_tx_buf')
        /\ vw_tx_enabled' \in BOOLEAN /\ Len(vw_tx_buf') \in Nat
        /\ nsent' = nsent
    BY <2>5, TransmitTypes DEF transmitter, Types, TypeOK
  <2> QED
    BY <2>1, <2>2, <2>3, <2>4, <2>6 DEF Types, TypeOK, DecoderTypes
<1>4. CASE vw_get_message
  BY <1>4, FetchTypes
<1>5. CASE UNCHANGED vars
  BY <1>5 DEF vars, transmitter, decoder, fetch, Types, TypeOK
<1> QED
  BY <1>1, <1>2, <1>3, <1>4, <1>5 DEF Next

LEMMA InitTypes == ASSUME Init PROVE Types
<1>1. Len(vw_tx_buf) \in Nat /\ vw_tx_index \in 0..Len(vw_tx_buf)
  BY DEF Init, Header
<1>2. 0 \in 0..Len(Messages) /\ 0 \in Bytes /\ 0 \in 0..MaxFaults
  BY LengthAssumption, LenProperties DEF Bytes
<1>3. 0 \in 0..VW_MAX_MESSAGE_LEN
  BY LengthAssumption
<1>4. [i \in 1..VW_MAX_MESSAGE_LEN |-> 0] \in [1..VW_MAX_MESSAGE_LEN -> Bytes]
  BY <1>2
<1>5. vw_tx_enabled \in BOOLEAN /\ vw_rx_active \in BOOLEAN /\ ~vw_rx_active
      /\ vw_rx_done \in BOOLEAN
  BY Zenon DEF Init
<1>6. vw_rx_buf \in [1..VW_MAX_MESSAGE_LEN -> Bytes]
  BY <1>4 DEF Init
<1> QED
  BY <1>1, <1>2, <1>3, <1>5, <1>6 DEF Init, Types, TypeOK

\* Every variable of the radio has its type, whatever bits the noise makes: the
\* receiver writes only inside vw_rx_buf, and the transmitter reads only inside
\* vw_tx_buf.
THEOREM TypeCorrect == Spec => []TypeOK
<1>1. Init => Types /\ IInv
  BY InitTypes DEF Init, IInv, Collecting
<1>2. Types /\ IInv /\ [Next]_vars => Types' /\ IInv'
  BY StepKeepsTypes, StepKeepsInvariant
<1>3. Types => TypeOK
  BY DEF Types
<1> QED
  BY <1>1, <1>2, <1>3, PTL DEF Spec


-----------------------------------------------------------------------------
\* The air.  While the transmitter is at bit b of symbol t, and s is the symbol
\* before, the top of the receiver's shift register is what has been sent: b
\* bits of t, and above the first symbol the whole of s.
Seen(x, i, b, s, t) ==
    IF i = 0 THEN x \div 2^(12 - b) = t % 2^b
    ELSE x \div 2^(6 - b) = s + 64 * (t % 2^b)

\* The register moves by one bit, and the new one comes in at its top.
LEMMA ShiftedIn ==
    ASSUME NEW x \in Int, 0 <= x, x <= 4095, NEW c \in {0, 1}
    PROVE  /\ (x \div 2 + 2048 * c) \div 2^0 = x \div 2^1 + 2048 * c
           /\ (x \div 2 + 2048 * c) \div 2^1 = x \div 2^2 + 1024 * c
           /\ (x \div 2 + 2048 * c) \div 2^2 = x \div 2^3 + 512 * c
           /\ (x \div 2 + 2048 * c) \div 2^3 = x \div 2^4 + 256 * c
           /\ (x \div 2 + 2048 * c) \div 2^4 = x \div 2^5 + 128 * c
           /\ (x \div 2 + 2048 * c) \div 2^5 = x \div 2^6 + 64 * c
           /\ (x \div 2 + 2048 * c) \div 2^6 = x \div 2^7 + 32 * c
           /\ (x \div 2 + 2048 * c) \div 2^7 = x \div 2^8 + 16 * c
           /\ (x \div 2 + 2048 * c) \div 2^8 = x \div 2^9 + 8 * c
           /\ (x \div 2 + 2048 * c) \div 2^9 = x \div 2^10 + 4 * c
           /\ (x \div 2 + 2048 * c) \div 2^10 = x \div 2^11 + 2 * c
           /\ (x \div 2 + 2048 * c) \div 2^11 = x \div 2^12 + c
<1>1. (x \div 2 + 2048 * c) \div 2^0 = x \div 2^1 + 2048 * c
  OBVIOUS
<1>2. (x \div 2 + 2048 * c) \div 2^1 = x \div 2^2 + 1024 * c
  OBVIOUS
<1>3. (x \div 2 + 2048 * c) \div 2^2 = x \div 2^3 + 512 * c
  OBVIOUS
<1>4. (x \div 2 + 2048 * c) \div 2^3 = x \div 2^4 + 256 * c
  OBVIOUS
<1>5. (x \div 2 + 2048 * c) \div 2^4 = x \div 2^5 + 128 * c
  OBVIOUS
<1>6. (x \div 2 + 2048 * c) \div 2^5 = x \div 2^6 + 64 * c
  OBVIOUS
<1>7. (x \div 2 + 2048 * c) \div 2^6 = x \div 2^7 + 32 * c
  OBVIOUS
<1>8. (x \div 2 + 2048 * c) \div 2^7 = x \div 2^8 + 16 * c
  OBVIOUS
<1>9. (x \div 2 + 2048 * c) \div 2^8 = x \div 2^9 + 8 * c
  OBVIOUS
<1>10. (x \div 2 + 2048 * c) \div 2^9 = x \div 2^10 + 4 * c
  OBVIOUS
<1>11. (x \div 2 + 2048 * c) \div 2^10 = x \div 2^11 + 2 * c
  OBVIOUS
<1>12. (x \div 2 + 2048 * c) \div 2^11 = x \div 2^12 + c
  OBVIOUS
<1> QED
  BY <1>1, <1>2, <1>3, <1>4, <1>5, <1>6, <1>7, <1>8, <1>9, <1>10, <1>11, <1>12


\* What a bit of the symbol adds.
Shift(x, t, b) == x \div 2 + 2048 * Bit(t, b)

LEMMA SeenBit ==
    ASSUME NEW x \in Int, NEW t \in Int, NEW s \in Int, NEW i \in Nat,
           NEW b \in 0..4, 0 <= x, x <= 4095, 0 <= t, t <= 63,
           Seen(x, i, b, s, t)
    PROVE  Seen(Shift(x, t, b), i, b + 1, s, t)
<1> SUFFICES Seen(x \div 2 + 2048 * Bit(t, b), i, b + 1, s, t)
  BY DEF Shift
<1>1. CASE b = 0
  <2>1. PICK c \in {0, 1} : c = Bit(t, 0)
    BY BitIsBit
  <2>2. t % 2^1 = (t % 2^0) + Bit(t, 0)
    BY DEF Bit
  <2>3. /\ (x \div 2 + 2048 * c) \div 2^11 = x \div 2^12 + 1 * c
        /\ (x \div 2 + 2048 * c) \div 2^5 = x \div 2^6 + 64 * c
    BY ShiftedIn
  <2>4. Seen(x, i, 0, s, t)
    BY <1>1
  <2>5. PICK p \in Int, q \in Int : p = t % 2^0 /\ q = t % 2^1
    OBVIOUS
  <2>6. q = p + 1 * c
    BY <2>1, <2>2, <2>5
  <2>7. CASE i = 0
    <3>1. x \div 2^12 = p
      BY <2>4, <2>5, <2>7 DEF Seen
    <3>2. (x \div 2 + 2048 * c) \div 2^11 = q
      BY <2>3, <2>6, <3>1
    <3>3. Seen(x \div 2 + 2048 * c, i, 1, s, t)
      BY <2>5, <2>7, <3>2 DEF Seen
    <3> QED
      BY <1>1, <2>1, <3>3
  <2>8. CASE i # 0
    <3>1. x \div 2^6 = s + 64 * p
      BY <2>4, <2>5, <2>8 DEF Seen
    <3>2. (x \div 2 + 2048 * c) \div 2^5 = s + 64 * q
      BY <2>3, <2>6, <3>1
    <3>3. Seen(x \div 2 + 2048 * c, i, 1, s, t)
      BY <2>5, <2>8, <3>2 DEF Seen
    <3> QED
      BY <1>1, <2>1, <3>3
  <2> QED
    BY <2>7, <2>8
<1>2. CASE b = 1
  <2>1. PICK c \in {0, 1} : c = Bit(t, 1)
    BY BitIsBit
  <2>2. t % 2^2 = (t % 2^1) + 2 * Bit(t, 1)
    BY DEF Bit
  <2>3. /\ (x \div 2 + 2048 * c) \div 2^10 = x \div 2^11 + 2 * c
        /\ (x \div 2 + 2048 * c) \div 2^4 = x \div 2^5 + 128 * c
    BY ShiftedIn
  <2>4. Seen(x, i, 1, s, t)
    BY <1>2
  <2>5. PICK p \in Int, q \in Int : p = t % 2^1 /\ q = t % 2^2
    OBVIOUS
  <2>6. q = p + 2 * c
    BY <2>1, <2>2, <2>5
  <2>7. CASE i = 0
    <3>1. x \div 2^11 = p
      BY <2>4, <2>5, <2>7 DEF Seen
    <3>2. (x \div 2 + 2048 * c) \div 2^10 = q
      BY <2>3, <2>6, <3>1
    <3>3. Seen(x \div 2 + 2048 * c, i, 2, s, t)
      BY <2>5, <2>7, <3>2 DEF Seen
    <3> QED
      BY <1>2, <2>1, <3>3
  <2>8. CASE i # 0
    <3>1. x \div 2^5 = s + 64 * p
      BY <2>4, <2>5, <2>8 DEF Seen
    <3>2. (x \div 2 + 2048 * c) \div 2^4 = s + 64 * q
      BY <2>3, <2>6, <3>1
    <3>3. Seen(x \div 2 + 2048 * c, i, 2, s, t)
      BY <2>5, <2>8, <3>2 DEF Seen
    <3> QED
      BY <1>2, <2>1, <3>3
  <2> QED
    BY <2>7, <2>8
<1>3. CASE b = 2
  <2>1. PICK c \in {0, 1} : c = Bit(t, 2)
    BY BitIsBit
  <2>2. t % 2^3 = (t % 2^2) + 4 * Bit(t, 2)
    BY DEF Bit
  <2>3. /\ (x \div 2 + 2048 * c) \div 2^9 = x \div 2^10 + 4 * c
        /\ (x \div 2 + 2048 * c) \div 2^3 = x \div 2^4 + 256 * c
    BY ShiftedIn
  <2>4. Seen(x, i, 2, s, t)
    BY <1>3
  <2>5. PICK p \in Int, q \in Int : p = t % 2^2 /\ q = t % 2^3
    OBVIOUS
  <2>6. q = p + 4 * c
    BY <2>1, <2>2, <2>5
  <2>7. CASE i = 0
    <3>1. x \div 2^10 = p
      BY <2>4, <2>5, <2>7 DEF Seen
    <3>2. (x \div 2 + 2048 * c) \div 2^9 = q
      BY <2>3, <2>6, <3>1
    <3>3. Seen(x \div 2 + 2048 * c, i, 3, s, t)
      BY <2>5, <2>7, <3>2 DEF Seen
    <3> QED
      BY <1>3, <2>1, <3>3
  <2>8. CASE i # 0
    <3>1. x \div 2^4 = s + 64 * p
      BY <2>4, <2>5, <2>8 DEF Seen
    <3>2. (x \div 2 + 2048 * c) \div 2^3 = s + 64 * q
      BY <2>3, <2>6, <3>1
    <3>3. Seen(x \div 2 + 2048 * c, i, 3, s, t)
      BY <2>5, <2>8, <3>2 DEF Seen
    <3> QED
      BY <1>3, <2>1, <3>3
  <2> QED
    BY <2>7, <2>8
<1>4. CASE b = 3
  <2>1. PICK c \in {0, 1} : c = Bit(t, 3)
    BY BitIsBit
  <2>2. t % 2^4 = (t % 2^3) + 8 * Bit(t, 3)
    BY DEF Bit
  <2>3. /\ (x \div 2 + 2048 * c) \div 2^8 = x \div 2^9 + 8 * c
        /\ (x \div 2 + 2048 * c) \div 2^2 = x \div 2^3 + 512 * c
    BY ShiftedIn
  <2>4. Seen(x, i, 3, s, t)
    BY <1>4
  <2>5. PICK p \in Int, q \in Int : p = t % 2^3 /\ q = t % 2^4
    OBVIOUS
  <2>6. q = p + 8 * c
    BY <2>1, <2>2, <2>5
  <2>7. CASE i = 0
    <3>1. x \div 2^9 = p
      BY <2>4, <2>5, <2>7 DEF Seen
    <3>2. (x \div 2 + 2048 * c) \div 2^8 = q
      BY <2>3, <2>6, <3>1
    <3>3. Seen(x \div 2 + 2048 * c, i, 4, s, t)
      BY <2>5, <2>7, <3>2 DEF Seen
    <3> QED
      BY <1>4, <2>1, <3>3
  <2>8. CASE i # 0
    <3>1. x \div 2^3 = s + 64 * p
      BY <2>4, <2>5, <2>8 DEF Seen
    <3>2. (x \div 2 + 2048 * c) \div 2^2 = s + 64 * q
      BY <2>3, <2>6, <3>1
    <3>3. Seen(x \div 2 + 2048 * c, i, 4, s, t)
      BY <2>5, <2>8, <3>2 DEF Seen
    <3> QED
      BY <1>4, <2>1, <3>3
  <2> QED
    BY <2>7, <2>8
<1>5. CASE b = 4
  <2>1. PICK c \in {0, 1} : c = Bit(t, 4)
    BY BitIsBit
  <2>2. t % 2^5 = (t % 2^4) + 16 * Bit(t, 4)
    BY DEF Bit
  <2>3. /\ (x \div 2 + 2048 * c) \div 2^7 = x \div 2^8 + 16 * c
        /\ (x \div 2 + 2048 * c) \div 2^1 = x \div 2^2 + 1024 * c
    BY ShiftedIn
  <2>4. Seen(x, i, 4, s, t)
    BY <1>5
  <2>5. PICK p \in Int, q \in Int : p = t % 2^4 /\ q = t % 2^5
    OBVIOUS
  <2>6. q = p + 16 * c
    BY <2>1, <2>2, <2>5
  <2>7. CASE i = 0
    <3>1. x \div 2^8 = p
      BY <2>4, <2>5, <2>7 DEF Seen
    <3>2. (x \div 2 + 2048 * c) \div 2^7 = q
      BY <2>3, <2>6, <3>1
    <3>3. Seen(x \div 2 + 2048 * c, i, 5, s, t)
      BY <2>5, <2>7, <3>2 DEF Seen
    <3> QED
      BY <1>5, <2>1, <3>3
  <2>8. CASE i # 0
    <3>1. x \div 2^2 = s + 64 * p
      BY <2>4, <2>5, <2>8 DEF Seen
    <3>2. (x \div 2 + 2048 * c) \div 2^1 = s + 64 * q
      BY <2>3, <2>6, <3>1
    <3>3. Seen(x \div 2 + 2048 * c, i, 5, s, t)
      BY <2>5, <2>8, <3>2 DEF Seen
    <3> QED
      BY <1>5, <2>1, <3>3
  <2> QED
    BY <2>7, <2>8
<1> QED
  BY <1>1, <1>2, <1>3, <1>4, <1>5

\* The last bit of a symbol: the register holds it behind the one before, and
\* is what the next one comes before.
LEMMA SeenPair ==
    ASSUME NEW x \in Int, NEW t \in Int, NEW s \in Int, NEW i \in Nat,
           0 <= x, x <= 4095, 0 <= t, t <= 63, i > 0, Seen(x, i, 5, s, t)
    PROVE  Shift(x, t, 5) = s + 64 * t
<1>1. PICK q \in Int : q = t % 32
  OBVIOUS
<1>2. x \div 2 = s + 64 * q
  BY <1>1 DEF Seen
<1>3. t = q + 32 * Bit(t, 5)
  BY <1>1 DEF Bit
<1>4. PICK c \in {0, 1} : c = Bit(t, 5)
  BY BitIsBit
<1>5. x \div 2 + 2048 * c = s + 64 * t
  BY <1>2, <1>3, <1>4
<1> QED
  BY <1>4, <1>5 DEF Shift

LEMMA SeenSymbol ==
    ASSUME NEW x \in Int, NEW t \in Int, NEW s \in Int, NEW u \in Int,
           NEW i \in Nat, 0 <= x, x <= 4095, 0 <= t, t <= 63, 0 <= s, s <= 63,
           Seen(x, i, 5, s, t)
    PROVE  Seen(Shift(x, t, 5), i + 1, 0, t, u)
<1>1. PICK c \in {0, 1} : c = Bit(t, 5)
  BY BitIsBit
<1> DEFINE y == x \div 2 + 2048 * c
<1>2. y \div 64 = t
  <2>1. CASE i = 0
    <3>1. y \div 2^6 = x \div 2^7 + 32 * c
      BY ShiftedIn
    <3>2. x \div 2^7 = t % 2^5
      BY <2>1 DEF Seen
    <3>3. t = (t % 2^5) + 32 * Bit(t, 5)
      BY DEF Bit
    <3> QED
      BY <1>1, <3>1, <3>2, <3>3
  <2>2. CASE i > 0
    <3>1. Shift(x, t, 5) = s + 64 * t
      BY <2>2, SeenPair
    <3>2. y = s + 64 * t
      BY <1>1, <3>1 DEF Shift
    <3>3. (s + 64 * t) \div 64 = t
      OBVIOUS
    <3> QED
      BY <3>2, <3>3
  <2> QED
    BY <2>1, <2>2
<1>3. u % 2^0 = 0
  OBVIOUS
<1>4. Seen(y, i + 1, 0, t, u)
  BY <1>2, <1>3 DEF Seen
<1> QED
  BY <1>1, <1>4 DEF Shift

-----------------------------------------------------------------------------
\* The header.  Its symbols hold no start symbol, but for the last two, which
\* are one, and for the first two bits behind what noise can have left.
LEMMA FirstSymbol ==
    ASSUME NEW x \in Int, NEW i, NEW b \in 0..5, NEW s, NEW t,
           0 <= x, x <= 4095, i = 0, t = 42,
           Seen(x, i, b, s, t), Shift(x, t, b) = START
    PROVE  b = 1
<1>0. /\ Bit(42, 0) = 0 /\ Bit(42, 1) = 1 /\ Bit(42, 2) = 0
      /\ Bit(42, 3) = 1 /\ Bit(42, 4) = 0 /\ Bit(42, 5) = 1
  BY DEF Bit
<1>1. CASE b = 0
  BY <1>0, <1>1 DEF Shift, Seen, START
<1>2. CASE b = 2
  BY <1>0, <1>2 DEF Shift, Seen, START
<1>3. CASE b = 3
  BY <1>0, <1>3 DEF Shift, Seen, START
<1>4. CASE b = 4
  BY <1>0, <1>4 DEF Shift, Seen, START
<1>5. CASE b = 5
  BY <1>0, <1>5 DEF Shift, Seen, START
<1> QED
  BY <1>1, <1>2, <1>3, <1>4, <1>5

LEMMA LaterSymbols ==
    ASSUME NEW x \in Int, NEW i \in Nat, NEW b \in 0..5,
           NEW s \in Int, NEW t \in Int,
           0 <= x, x <= 4095, i > 0,
           \/ s = 42 /\ t = 42
           \/ s = 42 /\ t = 56
           \/ s = 56 /\ t = 44,
           Seen(x, i, b, s, t), Shift(x, t, b) = START
    PROVE  s = 56 /\ b = 5
<1>1. s \in Int /\ 0 <= s /\ s <= 63 /\ t \in Int /\ 0 <= t /\ t <= 63
  OBVIOUS
<1>2. CASE b = 5
  <2>1. Seen(x, i, 5, s, t)
    BY <1>2
  <2>2. Shift(x, t, 5) = s + 64 * t
    BY <1>1, <2>1, SeenPair
  <2> QED
    BY <1>2, <2>2 DEF START
<1>3. CASE b # 5
  <2>1. b \in 0..4
    BY <1>3
  <2>8. Seen(Shift(x, t, b), i, b + 1, s, t)
    BY <1>1, <2>1, SeenBit
  <2>2. Seen(START, i, b + 1, s, t)
    BY <2>8
  <2>3. CASE b = 0
    <3>1. START \div 2^5 = s + 64 * (t % 2^1)
      BY <2>2, <2>3 DEF Seen
    <3> QED
      BY <3>1 DEF START
  <2>4. CASE b = 1
    <3>1. START \div 2^4 = s + 64 * (t % 2^2)
      BY <2>2, <2>4 DEF Seen
    <3> QED
      BY <3>1 DEF START
  <2>5. CASE b = 2
    <3>1. START \div 2^3 = s + 64 * (t % 2^3)
      BY <2>2, <2>5 DEF Seen
    <3> QED
      BY <3>1 DEF START
  <2>6. CASE b = 3
    <3>1. START \div 2^2 = s + 64 * (t % 2^4)
      BY <2>2, <2>6 DEF Seen
    <3> QED
      BY <3>1 DEF START
  <2>7. CASE b = 4
    <3>1. START \div 2^1 = s + 64 * (t % 2^5)
      BY <2>2, <2>7 DEF Seen
    <3> QED
      BY <3>1 DEF START
  <2> QED
    BY <2>1, <2>3, <2>4, <2>5, <2>6, <2>7
<1> QED
  BY <1>2, <1>3

-----------------------------------------------------------------------------
\* The symbols.  All have six bits, and each is read as the half byte it is for.
LEMMA SymbolIsSixBits ==
    ASSUME NEW h \in 0..15
    PROVE  symbols[1 + h] \in Int /\ 0 <= symbols[1 + h] /\ symbols[1 + h] <= 63
  BY DEF symbols

LEMMA SymbolsDiffer ==
    ASSUME NEW i \in 1..16, NEW j \in 1..16, symbols[i] = symbols[j]
    PROVE  i = j
  BY DEF symbols

LEMMA SymbolIsRead ==
    ASSUME NEW h \in 0..15
    PROVE  vw_symbol_6to4[symbols[1 + h]] = h
<1>1. PICK s \in 0..63 : s = symbols[1 + h]
  <2>1. symbols[1 + h] \in Int /\ 0 <= symbols[1 + h] /\ symbols[1 + h] <= 63
    BY SymbolIsSixBits
  <2> QED
    BY <2>1
<1>2. \E i \in 1..16 : symbols[i] = s
  BY <1>1
<1>3. PICK c : c = CHOOSE i \in 1..16 : symbols[i] = s
  OBVIOUS
<1>4. c \in 1..16 /\ symbols[c] = s
  BY <1>2, <1>3, Zenon
<1>5. vw_symbol_6to4[s] = c - 1
  BY <1>2, <1>3 DEF vw_symbol_6to4
<1>6. c = 1 + h
  <2>1. 1 + h \in 1..16
    OBVIOUS
  <2> QED
    BY <1>1, <1>4, <2>1, SymbolsDiffer
<1> QED
  BY <1>1, <1>5, <1>6

LEMMA PairIsRead ==
    ASSUME NEW h \in 0..15, NEW l \in 0..15
    PROVE  Byte(symbols[1 + h] + 64 * symbols[1 + l]) = 16 * h + l
<1>1. PICK s \in 0..63 : s = symbols[1 + h]
  <2>1. symbols[1 + h] \in Int /\ 0 <= symbols[1 + h] /\ symbols[1 + h] <= 63
    BY SymbolIsSixBits
  <2> QED
    BY <2>1
<1>2. PICK t \in 0..63 : t = symbols[1 + l]
  <2>1. symbols[1 + l] \in Int /\ 0 <= symbols[1 + l] /\ symbols[1 + l] <= 63
    BY SymbolIsSixBits
  <2> QED
    BY <2>1
<1>3. (s + 64 * t) % 64 = s /\ (s + 64 * t) \div 64 = t
  OBVIOUS
<1>4. vw_symbol_6to4[s] = h /\ vw_symbol_6to4[t] = l
  BY <1>1, <1>2, SymbolIsRead
<1>5. Byte(s + 64 * t) = 16 * h + l
  BY <1>3, <1>4 DEF Byte
<1> QED
  BY <1>1, <1>2, <1>5


-----------------------------------------------------------------------------
\* The check sequence.  First the exclusive or of half bytes.
HalfByte == 0..15

LEMMA NybbleBits ==
    ASSUME NEW a \in HalfByte, NEW b \in HalfByte
    PROVE  Nybble[a][b] = (IF Bit(a, 0) # Bit(b, 0) THEN 1 ELSE 0)
                          + (IF Bit(a, 1) # Bit(b, 1) THEN 2 ELSE 0)
                          + (IF Bit(a, 2) # Bit(b, 2) THEN 4 ELSE 0)
                          + (IF Bit(a, 3) # Bit(b, 3) THEN 8 ELSE 0)
  BY DEF Nybble, HalfByte

LEMMA NybbleIsHalfByte ==
    ASSUME NEW a \in HalfByte, NEW b \in HalfByte
    PROVE  Nybble[a][b] \in HalfByte
<1>1. Nybble[a][b] = (IF Bit(a, 0) # Bit(b, 0) THEN 1 ELSE 0)
                     + (IF Bit(a, 1) # Bit(b, 1) THEN 2 ELSE 0)
                     + (IF Bit(a, 2) # Bit(b, 2) THEN 4 ELSE 0)
                     + (IF Bit(a, 3) # Bit(b, 3) THEN 8 ELSE 0)
  BY NybbleBits
<1> QED
  BY <1>1 DEF HalfByte

LEMMA NybbleZero ==
    ASSUME NEW a \in HalfByte
    PROVE  Nybble[a][0] = a /\ Nybble[0][a] = a
  BY NybbleBits DEF Bit, HalfByte

LEMMA NybbleInverse ==
    ASSUME NEW a \in HalfByte
    PROVE  Nybble[a][15 - a] = 15
  BY NybbleBits DEF Bit, HalfByte

LEMMA NybbleTwice ==
    ASSUME NEW a \in HalfByte
    PROVE  Nybble[Nybble[a][8]][15 - a] = 7 /\ Nybble[Nybble[a][7]][15 - a] = 8
  BY NybbleBits DEF Bit, HalfByte

\* Of words it is that of their half bytes.
IsWord(w) == w \in Int /\ 0 <= w /\ w <= 65535

LEMMA HalfBytes ==
    ASSUME NEW p \in HalfByte, NEW q \in HalfByte
    PROVE  /\ ((p + 16 * q) \div 16^0) % 16 = p
           /\ ((p + 16 * q) \div 16^1) % 16 = q
           /\ ((p + 16 * q) \div 16^2) % 16 = 0
           /\ ((p + 16 * q) \div 16^3) % 16 = 0
<1>1. p \in Int /\ 0 <= p /\ p < 16 /\ q \in Int /\ 0 <= q /\ q < 16
  BY DEF HalfByte
<1>2. ((p + 16 * q) \div 16^0) % 16 = p
  BY <1>1
<1>3. ((p + 16 * q) \div 16^1) % 16 = q
  BY <1>1
<1>4. ((p + 16 * q) \div 16^2) % 16 = 0
  BY <1>1
<1>5. ((p + 16 * q) \div 16^3) % 16 = 0
  BY <1>1
<1> QED
  BY <1>2, <1>3, <1>4, <1>5

LEMMA XorIsWord ==
    ASSUME NEW a \in Int, NEW b \in Int
    PROVE  IsWord(Xor(a, b))
<1> DEFINE n(i) == Nybble[(a \div 16^i) % 16][(b \div 16^i) % 16]
<1>1. \A z \in Int : z % 16 \in HalfByte
  BY DEF HalfByte
<1>2. /\ a \div 16^0 \in Int /\ a \div 16^1 \in Int
      /\ a \div 16^2 \in Int /\ a \div 16^3 \in Int
  OBVIOUS
<1>3. /\ b \div 16^0 \in Int /\ b \div 16^1 \in Int
      /\ b \div 16^2 \in Int /\ b \div 16^3 \in Int
  OBVIOUS
<1>4. /\ n(0) \in HalfByte /\ n(1) \in HalfByte
      /\ n(2) \in HalfByte /\ n(3) \in HalfByte
  BY <1>1, <1>2, <1>3, NybbleIsHalfByte
<1>5. Xor(a, b) = n(0) * 16^0 + n(1) * 16^1 + n(2) * 16^2 + n(3) * 16^3
  BY DEF Xor
<1> HIDE DEF n
<1>6. /\ n(0) \in Int /\ 0 <= n(0) /\ n(0) <= 15
      /\ n(1) \in Int /\ 0 <= n(1) /\ n(1) <= 15
      /\ n(2) \in Int /\ 0 <= n(2) /\ n(2) <= 15
      /\ n(3) \in Int /\ 0 <= n(3) /\ n(3) <= 15
  BY <1>4 DEF HalfByte
<1> QED
  BY <1>5, <1>6 DEF IsWord

LEMMA XorOfBytes ==
    ASSUME NEW p \in HalfByte, NEW q \in HalfByte,
           NEW r \in HalfByte, NEW s \in HalfByte
    PROVE  Xor(p + 16 * q, r + 16 * s) = Nybble[p][r] + 16 * Nybble[q][s]
<1> DEFINE a == p + 16 * q
           b == r + 16 * s
<1>1. /\ (a \div 16^0) % 16 = p /\ (a \div 16^1) % 16 = q
      /\ (a \div 16^2) % 16 = 0 /\ (a \div 16^3) % 16 = 0
  BY HalfBytes
<1>2. /\ (b \div 16^0) % 16 = r /\ (b \div 16^1) % 16 = s
      /\ (b \div 16^2) % 16 = 0 /\ (b \div 16^3) % 16 = 0
  BY HalfBytes
<1> HIDE DEF a, b
<1>3. Xor(a, b) = Nybble[p][r] * 16^0 + Nybble[q][s] * 16^1
                  + Nybble[0][0] * 16^2 + Nybble[0][0] * 16^3
  BY <1>1, <1>2 DEF Xor
<1>4. Nybble[0][0] = 0
  <2>1. 0 \in HalfByte
    BY DEF HalfByte
  <2> QED
    BY <2>1, NybbleZero
<1>5. Nybble[p][r] \in HalfByte /\ Nybble[q][s] \in HalfByte
  BY NybbleIsHalfByte
<1>6. Xor(a, b) = Nybble[p][r] + 16 * Nybble[q][s]
  BY <1>3, <1>4, <1>5 DEF HalfByte
<1> QED
  BY <1>6 DEF a, b


LEMMA InBytes ==
    ASSUME NEW b \in Int, 0 <= b, b <= 255 PROVE b \in Bytes
  BY DEF Bytes

LEMMA UpdateIsWord ==
    ASSUME NEW c, NEW byte \in Bytes, IsWord(c)
    PROVE  IsWord(Update(c, byte))
<1>1. PICK p \in HalfByte, q \in HalfByte : c % 256 = p + 16 * q
  <2>1. PICK d \in Int : d = c % 256 /\ 0 <= d /\ d <= 255
    BY DEF IsWord
  <2>2. d % 16 \in HalfByte
    BY DEF HalfByte
  <2>3. d \div 16 \in HalfByte
    BY <2>1 DEF HalfByte
  <2>4. d = (d % 16) + 16 * (d \div 16)
    OBVIOUS
  <2> QED
    BY <2>1, <2>2, <2>3, <2>4
<1>2. PICK r \in HalfByte, s \in HalfByte : byte = r + 16 * s
  <2>1. /\ byte % 16 \in HalfByte /\ byte \div 16 \in HalfByte
        /\ byte = (byte % 16) + 16 * (byte \div 16)
    BY DEF HalfByte, Bytes
  <2> QED
    BY <2>1
<1>3. PICK low \in Bytes : low = Xor(c % 256, byte)
  <2>1. Xor(c % 256, byte) = Xor(p + 16 * q, r + 16 * s)
    BY <1>1, <1>2
  <2>2. Xor(p + 16 * q, r + 16 * s) = Nybble[p][r] + 16 * Nybble[q][s]
    BY XorOfBytes
  <2>3. Nybble[p][r] \in HalfByte /\ Nybble[q][s] \in HalfByte
    BY NybbleIsHalfByte
  <2> QED
    BY <2>1, <2>2, <2>3 DEF HalfByte, Bytes
<1>4. IsWord(Table[low])
  <2> DEFINE data == Xor(low, (low * 16) % 256)
  <2>1. Table[low] = Xor(Xor(data * 256, data \div 16), data * 8)
    BY DEF Table, Bytes
  <2>2. low \in Int /\ (low * 16) % 256 \in Int
    BY DEF Bytes
  <2>3. IsWord(data)
    BY <2>2, XorIsWord
  <2> HIDE DEF data
  <2>4. data * 256 \in Int /\ data \div 16 \in Int /\ data * 8 \in Int
    BY <2>3 DEF IsWord
  <2>5. IsWord(Xor(data * 256, data \div 16))
    BY <2>4, XorIsWord
  <2>6. Xor(data * 256, data \div 16) \in Int
    BY <2>5 DEF IsWord
  <2> QED
    BY <2>1, <2>4, <2>6, XorIsWord
<1>5. c \div 256 \in Int /\ Table[low] \in Int
  BY <1>4 DEF IsWord
<1>6. Update(c, byte) = Xor(c \div 256, Table[low])
  BY <1>3 DEF Update
<1> QED
  BY <1>5, <1>6, XorIsWord

\* The two values of the table that the complement of a check sequence meets.
LEMMA Nybbles ==
    /\ Nybble[15][0] = 15 /\ Nybble[0][15] = 15 /\ Nybble[0][0] = 0
    /\ Nybble[15][15] = 0 /\ Nybble[7][0] = 7 /\ Nybble[8][7] = 15
    /\ Nybble[0][7] = 7 /\ Nybble[8][0] = 8 /\ Nybble[0][8] = 8
    /\ Nybble[15][8] = 7 /\ Nybble[7][7] = 0 /\ Nybble[15][7] = 8
    /\ Nybble[0][11] = 11
  BY NybbleBits DEF Bit, HalfByte


LEMMA TableOfAllOnes == Table[255] = 3960
<1>1. Table[255] = LET data == Xor(255, 240)
                   IN  Xor(Xor(data * 256, data \div 16), data * 8)
  <2>1. Table[255] = LET data == Xor(255, (255 * 16) % 256)
                     IN  Xor(Xor(data * 256, data \div 16), data * 8)
    <3>1. 255 \in Bytes
      BY DEF Bytes
    <3> QED
      BY <3>1 DEF Table, Bytes
  <2>2. (255 * 16) % 256 = 240
    OBVIOUS
  <2> QED
    BY <2>1, <2>2
<1>2. Xor(255, 240) = 15
  BY Nybbles DEF Xor
<1>3. Xor(3840, 0) = 3840
  BY Nybbles DEF Xor
<1>4. Xor(3840, 120) = 3960
  BY Nybbles DEF Xor
<1> QED
  BY <1>1, <1>2, <1>3, <1>4

LEMMA TableOfMiddle == Table[135] = 61623
<1>1. Table[135] = LET data == Xor(135, 112)
                   IN  Xor(Xor(data * 256, data \div 16), data * 8)
  <2>1. Table[135] = LET data == Xor(135, (135 * 16) % 256)
                     IN  Xor(Xor(data * 256, data \div 16), data * 8)
    <3>1. 135 \in Bytes
      BY DEF Bytes
    <3> QED
      BY <3>1 DEF Table, Bytes
  <2>2. (135 * 16) % 256 = 112
    OBVIOUS
  <2> QED
    BY <2>1, <2>2
<1>2. Xor(135, 112) = 247
  BY Nybbles DEF Xor
<1>3. Xor(63232, 15) = 63247
  BY Nybbles DEF Xor
<1>4. Xor(63247, 1976) = 61623
  BY Nybbles DEF Xor
<1> QED
  BY <1>1, <1>2, <1>3, <1>4

\* A check sequence that its own complement follows ends in the good one.
LEMMA ComplementIsGood ==
    ASSUME NEW c, IsWord(c)
    PROVE  LET fcs == 65535 - c
           IN  /\ fcs % 256 \in Bytes /\ fcs \div 256 \in Bytes
               /\ Update(Update(c, fcs % 256), fcs \div 256) = GOOD
<1> DEFINE fcs == 65535 - c
<1>1. PICK h \in Int, l \in Int : /\ h = c \div 256 /\ l = c % 256
                                  /\ 0 <= h /\ h <= 255 /\ 0 <= l /\ l <= 255
  BY DEF IsWord
<1>2. c = 256 * h + l
  BY <1>1 DEF IsWord
<1>3. fcs % 256 = 255 - l /\ fcs \div 256 = 255 - h
  BY <1>1, <1>2
<1>4. PICK p \in HalfByte, q \in HalfByte : h = p + 16 * q
  <2>1. h % 16 \in HalfByte
    BY DEF HalfByte
  <2>2. h \div 16 \in HalfByte
    BY <1>1 DEF HalfByte
  <2>3. h = (h % 16) + 16 * (h \div 16)
    OBVIOUS
  <2> QED
    BY <2>1, <2>2, <2>3
<1>5. PICK r \in HalfByte, s \in HalfByte : l = r + 16 * s
  <2>1. l % 16 \in HalfByte
    BY DEF HalfByte
  <2>2. l \div 16 \in HalfByte
    BY <1>1 DEF HalfByte
  <2>3. l = (l % 16) + 16 * (l \div 16)
    OBVIOUS
  <2> QED
    BY <2>1, <2>2, <2>3
<1>6. Xor(l, 255 - l) = 255
  <2>1. 15 - r \in HalfByte /\ 15 - s \in HalfByte
    BY DEF HalfByte
  <2>2. 255 - l = (15 - r) + 16 * (15 - s)
    BY <1>5 DEF HalfByte
  <2>3. Xor(r + 16 * s, (15 - r) + 16 * (15 - s))
            = Nybble[r][15 - r] + 16 * Nybble[s][15 - s]
    BY <2>1, XorOfBytes
  <2>4. Nybble[r][15 - r] = 15 /\ Nybble[s][15 - s] = 15
    BY NybbleInverse
  <2> QED
    BY <1>5, <2>2, <2>3, <2>4
<1>7. PICK u \in HalfByte, v \in HalfByte :
          u = Nybble[p][8] /\ v = Nybble[q][7]
  <2>1. 8 \in HalfByte /\ 7 \in HalfByte
    BY DEF HalfByte
  <2> QED
    BY <2>1, NybbleIsHalfByte
<1>8. Update(c, 255 - l) = u + 16 * v + 3840
  <2>1. Update(c, 255 - l) = Xor(h, 3960)
    BY <1>1, <1>6, TableOfAllOnes DEF Update
  <2>2. /\ (h \div 16^0) % 16 = p /\ (h \div 16^1) % 16 = q
        /\ (h \div 16^2) % 16 = 0 /\ (h \div 16^3) % 16 = 0
    BY <1>4, HalfBytes
  <2>3. /\ (3960 \div 16^0) % 16 = 8 /\ (3960 \div 16^1) % 16 = 7
        /\ (3960 \div 16^2) % 16 = 15 /\ (3960 \div 16^3) % 16 = 0
    OBVIOUS
  <2>4. Xor(h, 3960) = Nybble[p][8] * 16^0 + Nybble[q][7] * 16^1
                       + Nybble[0][15] * 16^2 + Nybble[0][0] * 16^3
    BY <2>2, <2>3 DEF Xor
  <2> QED
    BY <1>7, <2>1, <2>4, Nybbles DEF HalfByte
<1>9. Xor(u + 16 * v, 255 - h) = 135
  <2>1. 15 - p \in HalfByte /\ 15 - q \in HalfByte
    BY DEF HalfByte
  <2>2. 255 - h = (15 - p) + 16 * (15 - q)
    BY <1>4 DEF HalfByte
  <2>3. Xor(u + 16 * v, (15 - p) + 16 * (15 - q))
            = Nybble[u][15 - p] + 16 * Nybble[v][15 - q]
    BY <2>1, XorOfBytes
  <2>4. Nybble[Nybble[p][8]][15 - p] = 7 /\ Nybble[Nybble[q][7]][15 - q] = 8
    BY NybbleTwice
  <2> QED
    BY <1>7, <2>2, <2>3, <2>4
<1>10. Update(u + 16 * v + 3840, 255 - h) = GOOD
  <2>1. /\ (u + 16 * v + 3840) \div 256 = 15
        /\ (u + 16 * v + 3840) % 256 = u + 16 * v
    BY DEF HalfByte
  <2>2. Update(u + 16 * v + 3840, 255 - h) = Xor(15, 61623)
    BY <1>9, <2>1, TableOfMiddle DEF Update
  <2>3. Xor(15, 61623) = 61624
    BY Nybbles DEF Xor
  <2> QED
    BY <2>2, <2>3 DEF GOOD
<1>11. 255 - l \in Bytes /\ 255 - h \in Bytes
  BY <1>1, InBytes
<1> QED
  BY <1>3, <1>8, <1>10, <1>11


\* Every set of natural numbers with a member has a least one.
LEMMA Least ==
    ASSUME NEW S, S \subseteq Nat, S # {}
    PROVE  \E n \in S : \A k \in S : n <= k
<1>1. PICK R : R = OpToRel(<, Nat)
  OBVIOUS
<1>2. IsWellFoundedOn(R, Nat)
  BY <1>1, NatLessThanWellFounded
<1>3. PICK n \in S : \A k \in S : ~(<<k, n>> \in R)
  BY <1>2, WFMin
<1>4. \A k \in S : ~(k < n)
  <2> TAKE k \in S
  <2>1. k < n => <<k, n>> \in R
    BY <1>1 DEF OpToRel
  <2> QED
    BY <1>3, <2>1
<1> QED
  BY <1>4

\* A check sequence is computed from the first byte to the last: up to every
\* place there is a function that does, and no other.
Checks(g, l, first, bytes) ==
    g = [n \in 0..l |-> IF n = 0 THEN first ELSE Update(g[n - 1], bytes[n])]

LEMMA ChecksByOne ==
    ASSUME NEW g, NEW l \in Nat, NEW first, NEW bytes,
           Checks(g, l, first, bytes)
    PROVE  /\ g[0] = first
           /\ \A n \in 1..l : g[n] = Update(g[n - 1], bytes[n])
  BY DEF Checks

LEMMA ChecksOn ==
    ASSUME NEW l \in Nat, NEW first, NEW bytes, NEW g,
           Checks(g, l, first, bytes)
    PROVE  \E h : Checks(h, l + 1, first, bytes)
<1>1. /\ DOMAIN g = 0..l /\ g[0] = first
      /\ \A n \in 1..l : g[n] = Update(g[n - 1], bytes[n])
  BY DEF Checks
<1> DEFINE h == [n \in 0..(l + 1) |->
                    IF n <= l THEN g[n] ELSE Update(g[l], bytes[n])]
<1>2. h[0] = first /\ h[l] = g[l]
  BY <1>1
<1>3. ASSUME NEW n \in 1..l
      PROVE  h[n] = Update(h[n - 1], bytes[n])
  <2>1. n - 1 \in 0..(l + 1) /\ n - 1 <= l /\ n \in 0..(l + 1) /\ n <= l
    OBVIOUS
  <2>2. h[n] = g[n] /\ h[n - 1] = g[n - 1]
    BY <2>1
  <2> QED
    BY <1>1, <2>2
<1>4. h[l + 1] = Update(h[l + 1 - 1], bytes[l + 1])
  <2>1. l + 1 - 1 = l /\ ~(l + 1 <= l) /\ l + 1 \in 0..(l + 1)
    OBVIOUS
  <2> QED
    BY <1>2, <2>1
<1>5. h = [n \in 0..(l + 1) |-> h[n]]
  OBVIOUS
<1> HIDE DEF h
<1>6. ASSUME NEW n \in 0..(l + 1)
      PROVE  h[n] = IF n = 0 THEN first ELSE Update(h[n - 1], bytes[n])
  <2>1. CASE n = 0
    BY <1>2, <2>1
  <2>2. CASE n \in 1..l
    <3>1. n # 0
      BY <2>2
    <3> QED
      BY <1>3, <2>2, <3>1
  <2>3. CASE n = l + 1
    <3>1. n # 0
      BY <2>3
    <3> QED
      BY <1>4, <2>3, <3>1
  <2>4. n = 0 \/ n \in 1..l \/ n = l + 1
    OBVIOUS
  <2> QED
    BY <2>1, <2>2, <2>3, <2>4
<1>7. Checks(h, l + 1, first, bytes)
  BY <1>5, <1>6 DEF Checks
<1> QED
  BY <1>7

LEMMA ChecksAll ==
    ASSUME NEW n \in Nat, NEW first, NEW bytes
    PROVE  \E g : Checks(g, n, first, bytes)
<1> DEFINE Fails == {l \in Nat : ~ \E g : Checks(g, l, first, bytes)}
<1>1. Checks([i \in 0..0 |-> first], 0, first, bytes)
  BY DEF Checks
<1>2. CASE Fails # {}
  <2>1. PICK l \in Fails : \A k \in Fails : l <= k
    BY <1>2, Least
  <2>2. l # 0
    BY <1>1, <2>1
  <2>3. l - 1 \in Nat /\ l - 1 \notin Fails
    BY <2>1, <2>2
  <2>4. PICK g : Checks(g, l - 1, first, bytes)
    BY <2>3
  <2>5. \E h : Checks(h, l - 1 + 1, first, bytes)
    BY <2>3, <2>4, ChecksOn
  <2>6. l - 1 + 1 = l
    BY <2>1
  <2> QED
    BY <2>1, <2>5, <2>6
<1>3. CASE Fails = {}
  BY <1>3
<1> QED
  BY <1>2, <1>3

\* Two of them agree where both are.
LEMMA ChecksAgree ==
    ASSUME NEW f, NEW g, NEW l \in Nat, NEW m \in Nat, l <= m,
           NEW first, NEW b, NEW c,
           Checks(f, l, first, b), Checks(g, m, first, c),
           \A n \in 1..l : b[n] = c[n]
    PROVE  f[l] = g[l]
<1> DEFINE Fails == {n \in Nat : n <= l /\ f[n] # g[n]}
<1>1. f[0] = first /\ \A n \in 1..l : f[n] = Update(f[n - 1], b[n])
  BY ChecksByOne
<1>2. g[0] = first /\ \A n \in 1..m : g[n] = Update(g[n - 1], c[n])
  BY ChecksByOne
<1>3. CASE Fails # {}
  <2>1. PICK n \in Fails : \A k \in Fails : n <= k
    BY <1>3, Least
  <2>2. n # 0 /\ n \in Nat /\ n <= l /\ f[n] # g[n]
    BY <1>1, <1>2, <2>1
  <2>3. n - 1 \in Nat /\ n - 1 <= l /\ n - 1 \notin Fails
    BY <2>1, <2>2
  <2>4. f[n - 1] = g[n - 1]
    BY <2>3
  <2>5. n \in 1..l /\ n \in 1..m
    BY <2>2
  <2>6. f[n] = Update(f[n - 1], b[n]) /\ g[n] = Update(g[n - 1], c[n])
    BY <1>1, <1>2, <2>5
  <2> QED
    BY <2>2, <2>4, <2>5, <2>6
<1>4. CASE Fails = {}
  BY <1>4
<1> QED
  BY <1>3, <1>4

\* Of bytes they are words.
LEMMA ChecksAreWords ==
    ASSUME NEW g, NEW l \in Nat, NEW first, NEW bytes,
           Checks(g, l, first, bytes), IsWord(first),
           \A n \in 1..l : bytes[n] \in Bytes
    PROVE  IsWord(g[l])
<1> DEFINE Fails == {n \in Nat : n <= l /\ ~IsWord(g[n])}
<1>1. g[0] = first /\ \A n \in 1..l : g[n] = Update(g[n - 1], bytes[n])
  BY ChecksByOne
<1>2. CASE Fails # {}
  <2>1. PICK n \in Fails : \A k \in Fails : n <= k
    BY <1>2, Least
  <2>2. IsWord(g[0])
    BY <1>1
  <2>3. n # 0 /\ n \in Nat /\ n <= l /\ ~IsWord(g[n])
    BY <2>1, <2>2
  <2>4. n - 1 \in Nat /\ n - 1 <= l /\ n - 1 \notin Fails
    BY <2>1, <2>3
  <2>5. IsWord(g[n - 1])
    BY <2>4
  <2>6. n \in 1..l
    BY <2>3
  <2>7. g[n] = Update(g[n - 1], bytes[n]) /\ bytes[n] \in Bytes
    BY <1>1, <2>6
  <2> QED
    BY <2>3, <2>5, <2>7, UpdateIsWord
<1>3. CASE Fails = {}
  BY <1>3
<1> QED
  BY <1>2, <1>3

LEMMA CheckOf ==
    ASSUME NEW bytes, NEW l \in Nat, Len(bytes) = l
    PROVE  \E g : Checks(g, l, 65535, bytes) /\ vw_crc(bytes) = g[l]
<1>1. PICK first : first = 65535
  OBVIOUS
<1>2. PICK f : Checks(f, l, first, bytes)
  BY ChecksAll
<1>3. PICK g : g = CHOOSE crc : crc =
          [n \in 0..l |-> IF n = 0 THEN first
                          ELSE Update(crc[n - 1], bytes[n])]
  OBVIOUS
<1>4. Checks(g, l, first, bytes)
  BY <1>2, <1>3 DEF Checks
<1>5. vw_crc(bytes) = g[l]
  BY <1>1, <1>3 DEF vw_crc
<1> QED
  BY <1>1, <1>4, <1>5


Alike(b, c, l) == \A n \in 1..l : b[n] = c[n]

LEMMA AlikeAgree ==
    ASSUME NEW f, NEW g, NEW l \in Nat, NEW m \in Nat, NEW first,
           NEW b, NEW c, l <= m, Alike(b, c, l),
           Checks(f, l, first, b), Checks(g, m, first, c)
    PROVE  f[l] = g[l]
<1>1. \A n \in 1..l : b[n] = c[n]
  BY DEF Alike
<1> QED
  BY <1>1, ChecksAgree

\* Two sequences in a row, by their lengths.
Row(u, S, s, t, a, b) ==
    /\ u \in Seq(S) /\ Len(u) = a + b
    /\ \A i \in 1..a : u[i] = s[i]
    /\ \A i \in 1..b : u[a + i] = t[i]

LEMMA Joined ==
    ASSUME NEW S, NEW s \in Seq(S), NEW t \in Seq(S), NEW a \in Nat,
           NEW b \in Nat, Len(s) = a, Len(t) = b
    PROVE  Row(s \o t, S, s, t, a, b)
<1>1. /\ s \o t \in Seq(S) /\ Len(s \o t) = Len(s) + Len(t)
      /\ \A i \in 1..(Len(s) + Len(t)) :
            (s \o t)[i] = IF i <= Len(s) THEN s[i] ELSE t[i - Len(s)]
  BY ConcatProperties
<1>2. \A i \in 1..(a + b) :
          (s \o t)[i] = IF i <= a THEN s[i] ELSE t[i - a]
  BY <1>1
<1>3. ASSUME NEW i \in 1..b PROVE (s \o t)[a + i] = t[i]
  <2>1. a + i \in 1..(a + b) /\ ~(a + i <= a) /\ a + i - a = i
    OBVIOUS
  <2> QED
    BY <1>2, <2>1
<1>4. ASSUME NEW i \in 1..a PROVE (s \o t)[i] = s[i]
  <2>1. i \in 1..(a + b) /\ i <= a
    OBVIOUS
  <2> QED
    BY <1>2, <2>1
<1> QED
  BY <1>1, <1>3, <1>4 DEF Row

\* A body that its complement follows checks well.
Complemented(b, c, l) ==
    /\ Len(b) = l /\ Len(c) = l + 2
    /\ \A n \in 1..l : b[n] \in Bytes /\ c[n] = b[n]
    /\ c[l + 1] = (65535 - vw_crc(b)) % 256
    /\ c[l + 2] = (65535 - vw_crc(b)) \div 256

LEMMA CheckAfter ==
    ASSUME NEW l \in Nat, NEW b, NEW c, Complemented(b, c, l)
    PROVE  vw_crc(c) = GOOD /\ c[l + 1] \in Bytes /\ c[l + 2] \in Bytes
<1>0. /\ Len(b) = l /\ Len(c) = l + 2
      /\ \A n \in 1..l : b[n] \in Bytes /\ c[n] = b[n]
  BY DEF Complemented
<1>1. PICK first : first = 65535
  OBVIOUS
<1>2. PICK f : Checks(f, l, first, b) /\ vw_crc(b) = f[l]
  BY <1>0, <1>1, CheckOf
<1>3. /\ l + 2 \in Nat /\ l <= l + 2
      /\ l + 1 \in 1..(l + 2) /\ l + 2 \in 1..(l + 2)
      /\ l + 1 - 1 = l /\ l + 2 - 1 = l + 1
  OBVIOUS
<1>4. PICK g : Checks(g, l + 2, first, c) /\ vw_crc(c) = g[l + 2]
  <2>1. PICK m \in Nat : m = l + 2
    OBVIOUS
  <2>2. Len(c) = m
    BY <1>0, <2>1
  <2>3. PICK g : Checks(g, m, first, c) /\ vw_crc(c) = g[m]
    BY <1>1, <2>2, CheckOf
  <2> QED
    BY <2>1, <2>3
<1>5. f[l] = g[l]
  <2>1. PICK m \in Nat : m = l + 2
    OBVIOUS
  <2>2. l <= m /\ Checks(f, l, first, b) /\ Checks(g, m, first, c)
    BY <1>2, <1>4, <2>1
  <2>3. Alike(b, c, l)
    BY <1>0 DEF Alike
  <2>4. l \in Nat /\ m \in Nat
    BY <2>1
  <2> QED
    BY <2>2, <2>3, <2>4, AlikeAgree
<1>6. IsWord(f[l])
  <2>1. IsWord(first)
    BY <1>1 DEF IsWord
  <2> QED
    BY <1>0, <1>2, <2>1, ChecksAreWords
<1>7. \A n \in 1..(l + 2) : g[n] = Update(g[n - 1], c[n])
  BY <1>3, <1>4, ChecksByOne
<1>8. g[l + 1] = Update(f[l], c[l + 1]) /\ g[l + 2] = Update(g[l + 1], c[l + 2])
  BY <1>3, <1>5, <1>7
<1>9. PICK w : w = f[l]
  OBVIOUS
<1>10. /\ (65535 - w) % 256 \in Bytes /\ (65535 - w) \div 256 \in Bytes
       /\ Update(Update(w, (65535 - w) % 256), (65535 - w) \div 256) = GOOD
  BY <1>6, <1>9, ComplementIsGood
<1>11. c[l + 1] = (65535 - w) % 256 /\ c[l + 2] = (65535 - w) \div 256
  BY <1>2, <1>9 DEF Complemented
<1> QED
  BY <1>4, <1>8, <1>9, <1>10, <1>11

\* What goes on the air for a message: its count, its payload and its check
\* sequence.
LEMMA FrameHolds ==
    ASSUME NEW i \in 1..Len(Messages)
    PROVE  \E l \in Nat :
              /\ Len(Messages[i]) = l
              /\ l + 3 \in 4..VW_MAX_MESSAGE_LEN
              /\ Messages[i] \in Seq(Bytes)
              /\ Frame(Messages[i]) \in Seq(Bytes)
              /\ Len(Frame(Messages[i])) = l + 3
              /\ Frame(Messages[i])[1] = l + 3
              /\ \A k \in 1..l : Frame(Messages[i])[k + 1] = Messages[i][k]
              /\ vw_crc(Frame(Messages[i])) = GOOD
<1>1. PICK m : m = Messages[i]
  OBVIOUS
<1>2. m \in Seq(Bytes)
  BY <1>1, LengthAssumption, ElementOfSeq DEF Bytes
<1>3. PICK l \in Nat : l = Len(m)
  BY <1>2, LenProperties
<1>4. l >= 1 /\ l + 3 \in 4..VW_MAX_MESSAGE_LEN /\ l + 3 \in Bytes
  <2>1. Len(Messages[i]) \in 1..VW_MAX_MESSAGE_LEN - 3
    BY LengthAssumption
  <2>2. l \in 1..VW_MAX_MESSAGE_LEN - 3
    BY <1>1, <1>3, <2>1
  <2>3. VW_MAX_MESSAGE_LEN \in Nat /\ VW_MAX_MESSAGE_LEN <= 255
    BY LengthAssumption
  <2>4. l + 3 \in Int /\ 0 <= l + 3 /\ l + 3 <= 255
    BY <2>2, <2>3
  <2>5. l + 3 \in Bytes
    BY <2>4, InBytes
  <2> QED
    BY <2>2, <2>3, <2>5
<1>5. PICK one : one = <<l + 3>>
  OBVIOUS
<1>6. one \in Seq(Bytes) /\ Len(one) = 1 /\ one[1] = l + 3
  BY <1>4, <1>5
<1>7. PICK body : body = one \o m
  OBVIOUS
<1>8. /\ body \in Seq(Bytes) /\ Len(body) = l + 1 /\ body[1] = l + 3
      /\ \A k \in 1..l : body[k + 1] = m[k]
  <2>1. PICK x \in Nat : x = 1
    OBVIOUS
  <2>2. Len(one) = x /\ Len(m) = l
    BY <1>3, <1>6, <2>1
  <2>3. /\ one \o m \in Seq(Bytes) /\ Len(one \o m) = x + l
        /\ \A k \in 1..x : (one \o m)[k] = one[k]
        /\ \A k \in 1..l : (one \o m)[x + k] = m[k]
    <3>1. Row(one \o m, Bytes, one, m, x, l)
      BY <1>2, <1>6, <2>1, <2>2, Joined
    <3> QED
      BY <3>1 DEF Row
  <2>4. x \in 1..x /\ \A k \in 1..l : k + 1 = x + k
    BY <2>1
  <2>5. (one \o m)[1] = l + 3
    BY <1>6, <2>1, <2>3, <2>4
  <2> QED
    BY <1>6, <1>7, <2>1, <2>3, <2>4, <2>5
<1>9. PICK lo, hi : /\ lo = (65535 - vw_crc(body)) % 256
                    /\ hi = (65535 - vw_crc(body)) \div 256
  OBVIOUS
<1>10. Frame(m) = body \o <<lo, hi>>
  BY <1>3, <1>5, <1>7, <1>9 DEF Frame
<1>11. /\ Len(Frame(m)) = l + 3
       /\ \A k \in 1..(l + 1) : Frame(m)[k] = body[k]
       /\ Frame(m)[l + 2] = lo /\ Frame(m)[l + 3] = hi
  <2>1. PICK S : S = Bytes \cup {lo, hi}
    OBVIOUS
  <2>2. PICK two : two = <<lo, hi>>
    OBVIOUS
  <2>3. two \in Seq(S) /\ Len(two) = 2 /\ two[1] = lo /\ two[2] = hi
    BY <2>1, <2>2
  <2>4. body \in Seq(S)
    BY <1>8, <2>1
  <2>5. PICK n \in Nat : n = l + 1
    OBVIOUS
  <2>6. /\ Len(body \o two) = n + 2
        /\ \A k \in 1..n : (body \o two)[k] = body[k]
        /\ \A k \in 1..2 : (body \o two)[n + k] = two[k]
    <3>1. PICK x \in Nat : x = 2
      OBVIOUS
    <3>2. Len(body) = n /\ Len(two) = x
      BY <1>8, <2>3, <2>5, <3>1
    <3>3. /\ Len(body \o two) = n + x
          /\ \A k \in 1..n : (body \o two)[k] = body[k]
          /\ \A k \in 1..x : (body \o two)[n + k] = two[k]
      <4>1. Row(body \o two, S, body, two, n, x)
        BY <2>3, <2>4, <2>5, <3>1, <3>2, Joined
      <4> QED
        BY <4>1 DEF Row
    <3> QED
      BY <3>1, <3>3
  <2>7. (body \o two)[n + 1] = lo /\ (body \o two)[n + 2] = hi
    BY <2>3, <2>6
  <2>8. Frame(m) = body \o two
    BY <1>10, <2>2
  <2>9. n + 1 = l + 2 /\ n + 2 = l + 3
    BY <2>5
  <2> QED
    BY <2>5, <2>6, <2>7, <2>8, <2>9
<1>12. PICK frame : frame = Frame(m)
  OBVIOUS
<1>13. vw_crc(frame) = GOOD /\ lo \in Bytes /\ hi \in Bytes
  <2>1. PICK n \in Nat : n = l + 1
    OBVIOUS
  <2>2. n + 1 = l + 2 /\ n + 2 = l + 3
    BY <2>1
  <2>3. \A k \in 1..n : body[k] \in Bytes /\ frame[k] = body[k]
    BY <1>8, <1>11, <1>12, <2>1, ElementOfSeq
  <2>4. /\ Len(body) = n /\ Len(frame) = n + 2
        /\ frame[n + 1] = (65535 - vw_crc(body)) % 256
        /\ frame[n + 2] = (65535 - vw_crc(body)) \div 256
    BY <1>8, <1>9, <1>11, <1>12, <2>1, <2>2
  <2>5. vw_crc(frame) = GOOD /\ frame[n + 1] \in Bytes /\ frame[n + 2] \in Bytes
    <3>1. Complemented(body, frame, n)
      BY <2>3, <2>4 DEF Complemented
    <3> QED
      BY <3>1, CheckAfter
  <2> QED
    BY <1>9, <2>4, <2>5
<1>14. Frame(m) \in Seq(Bytes)
  <2>1. <<lo, hi>> \in Seq(Bytes)
    BY <1>13
  <2> QED
    BY <1>8, <1>10, <2>1, ConcatProperties
<1>15. Frame(m)[1] = l + 3 /\ \A k \in 1..l : Frame(m)[k + 1] = m[k]
  <2>1. 1 \in 1..(l + 1) /\ \A k \in 1..l : k + 1 \in 1..(l + 1)
    OBVIOUS
  <2> QED
    BY <1>8, <1>11, <2>1
<1> QED
  BY <1>1, <1>2, <1>3, <1>4, <1>11, <1>12, <1>13, <1>14, <1>15


-----------------------------------------------------------------------------
\* What the transmitter is given: the header, then two symbols a byte, from
\* which the byte is read.
IsSymbol(s) == s \in Int /\ 0 <= s /\ s <= 63

CodeOf(code, frame, l) ==
    /\ Len(code) = 8 + 2 * l
    /\ \A k \in 1..8 : code[k] = Header[k]
    /\ \A k \in 1..(8 + 2 * l) : IsSymbol(code[k])
    /\ \A j \in 1..l : Byte(code[7 + 2 * j] + 64 * code[8 + 2 * j]) = frame[j]

LEMMA HeaderHolds ==
    /\ Header \in Seq(Int) /\ Len(Header) = 8
    /\ \A k \in 1..8 : IsSymbol(Header[k])
    /\ Header[1] = 42 /\ Header[2] = 42 /\ Header[3] = 42 /\ Header[4] = 42
    /\ Header[5] = 42 /\ Header[6] = 42 /\ Header[7] = 56 /\ Header[8] = 44
<1>1. \A k \in 1..8 : IsSymbol(Header[k])
  BY DEF Header, IsSymbol
<1> QED
  BY <1>1 DEF Header

LEMMA HalvesOfByte ==
    ASSUME NEW byte \in Bytes
    PROVE  /\ byte \div 16 \in HalfByte /\ byte % 16 \in HalfByte
           /\ IsSymbol(symbols[1 + byte \div 16])
           /\ IsSymbol(symbols[1 + (byte % 16)])
           /\ Byte(symbols[1 + byte \div 16]
                   + 64 * symbols[1 + (byte % 16)]) = byte
<1>1. PICK h \in HalfByte, l \in HalfByte :
          h = byte \div 16 /\ l = byte % 16 /\ byte = 16 * h + l
  BY DEF Bytes, HalfByte
<1>2. h \in 0..15 /\ l \in 0..15
  BY DEF HalfByte
<1>3. IsSymbol(symbols[1 + h]) /\ IsSymbol(symbols[1 + l])
  BY <1>2, SymbolIsSixBits DEF IsSymbol
<1>4. Byte(symbols[1 + h] + 64 * symbols[1 + l]) = 16 * h + l
  BY <1>2, PairIsRead
<1>5. PICK a, b : a = symbols[1 + h] /\ b = symbols[1 + l]
  OBVIOUS
<1>6. a = symbols[1 + byte \div 16] /\ b = symbols[1 + (byte % 16)]
  BY <1>1, <1>5
<1>7. IsSymbol(a) /\ IsSymbol(b) /\ Byte(a + 64 * b) = byte
  BY <1>1, <1>3, <1>4, <1>5
<1>8. byte \div 16 \in HalfByte /\ byte % 16 \in HalfByte
  BY <1>1
<1> QED
  BY <1>6, <1>7, <1>8

LEMMA EncodedHolds ==
    ASSUME NEW frame, NEW l \in Nat, Len(frame) = l,
           \A j \in 1..l : frame[j] \in Bytes
    PROVE  /\ Encoded(frame) \in Seq(Int) /\ Len(Encoded(frame)) = 2 * l
           /\ \A k \in 1..(2 * l) : IsSymbol(Encoded(frame)[k])
           /\ \A j \in 1..l : Byte(Encoded(frame)[2 * j - 1]
                                   + 64 * Encoded(frame)[2 * j]) = frame[j]
<1> DEFINE symbol(k) == LET byte == frame[(k + 1) \div 2]
                        IN  symbols[1 + IF k % 2 = 1 THEN byte \div 16
                                                     ELSE byte % 16]
<1>1. PICK n \in Nat : n = 2 * l
  OBVIOUS
<1>2. PICK code : code = Encoded(frame)
  OBVIOUS
<1>3. code = [k \in 1..n |-> symbol(k)]
  BY <1>1, <1>2 DEF Encoded
<1>4. ASSUME NEW k \in 1..n PROVE IsSymbol(symbol(k))
  <2>1. PICK j \in 1..l : j = (k + 1) \div 2
    BY <1>1
  <2>2. PICK byte \in Bytes : byte = frame[j]
    OBVIOUS
  <2>3. \/ symbol(k) = symbols[1 + byte \div 16]
        \/ symbol(k) = symbols[1 + (byte % 16)]
    <3>1. CASE k % 2 = 1
      BY <2>1, <2>2, <3>1
    <3>2. CASE ~(k % 2 = 1)
      BY <2>1, <2>2, <3>2
    <3> QED
      BY <3>1, <3>2
  <2> HIDE DEF symbol
  <2> QED
    BY <2>3, HalvesOfByte
<1>5. ASSUME NEW j \in 1..l
      PROVE  /\ symbol(2 * j - 1) = symbols[1 + frame[j] \div 16]
             /\ symbol(2 * j) = symbols[1 + (frame[j] % 16)]
  <2>1. /\ (2 * j - 1 + 1) \div 2 = j /\ (2 * j + 1) \div 2 = j
        /\ (2 * j - 1) % 2 = 1 /\ (2 * j) % 2 = 0
    OBVIOUS
  <2>2. symbol(2 * j - 1) = symbols[1 + frame[j] \div 16]
    <3>1. PICK k : k = 2 * j - 1 /\ (k + 1) \div 2 = j /\ k % 2 = 1
      BY <2>1
    <3>2. symbol(k) = symbols[1 + frame[j] \div 16]
      BY <3>1
    <3> QED
      BY <3>1, <3>2
  <2>3. symbol(2 * j) = symbols[1 + (frame[j] % 16)]
    <3>1. PICK k : k = 2 * j /\ (k + 1) \div 2 = j /\ ~(k % 2 = 1)
      BY <2>1
    <3>2. symbol(k) = symbols[1 + (frame[j] % 16)]
      BY <3>1
    <3> QED
      BY <3>1, <3>2
  <2> QED
    BY <2>2, <2>3
<1> HIDE DEF symbol
<1>6. \A k \in 1..n : symbol(k) \in Int
  BY <1>4 DEF IsSymbol
<1>7. code \in Seq(Int) /\ Len(code) = n
  <2>1. code \in [1..n -> Int]
    BY <1>3, <1>6
  <2> QED
    BY <1>1, <2>1, IsASeq
<1>8. ASSUME NEW j \in 1..l
      PROVE  Byte(code[2 * j - 1] + 64 * code[2 * j]) = frame[j]
  <2>1. PICK byte \in Bytes : byte = frame[j]
    OBVIOUS
  <2>2. 2 * j - 1 \in 1..n /\ 2 * j \in 1..n
    BY <1>1
  <2>3. /\ code[2 * j - 1] = symbols[1 + byte \div 16]
        /\ code[2 * j] = symbols[1 + (byte % 16)]
    BY <1>3, <1>5, <2>1, <2>2
  <2>4. Byte(symbols[1 + byte \div 16] + 64 * symbols[1 + (byte % 16)]) = byte
    BY HalvesOfByte
  <2> QED
    BY <2>1, <2>3, <2>4
<1>9. \A k \in 1..n : IsSymbol(code[k])
  BY <1>3, <1>4
<1> QED
  BY <1>1, <1>2, <1>7, <1>8, <1>9

LEMMA CodedHolds ==
    ASSUME NEW i \in 1..Len(Messages), NEW l \in Nat,
           Len(Frame(Messages[i])) = l,
           \A j \in 1..l : Frame(Messages[i])[j] \in Bytes
    PROVE  CodeOf(Coded[i], Frame(Messages[i]), l)
<1>1. PICK frame : frame = Frame(Messages[i])
  OBVIOUS
<1>2. PICK tail : tail = Encoded(frame)
  OBVIOUS
<1>3. PICK n \in Nat : n = 2 * l
  OBVIOUS
<1>4. /\ tail \in Seq(Int) /\ Len(tail) = n
      /\ \A k \in 1..n : IsSymbol(tail[k])
      /\ \A j \in 1..l : Byte(tail[2 * j - 1] + 64 * tail[2 * j]) = frame[j]
  BY <1>1, <1>2, <1>3, EncodedHolds
<1>5. PICK x \in Nat : x = 8
  OBVIOUS
<1>6. Header \in Seq(Int) /\ Len(Header) = x
  BY <1>5, HeaderHolds
<1>7. Row(Header \o tail, Int, Header, tail, x, n)
  BY <1>4, <1>6, Joined
<1>8. PICK code : code = Coded[i]
  OBVIOUS
<1>9. code = Header \o tail
  <2>1. i \in DOMAIN Messages
    BY LengthAssumption
  <2> QED
    BY <1>1, <1>2, <1>8, <2>1 DEF Coded
<1>10. /\ Len(code) = 8 + n
       /\ \A k \in 1..8 : code[k] = Header[k]
       /\ \A k \in 1..n : code[8 + k] = tail[k]
  BY <1>5, <1>7, <1>9 DEF Row
<1>11. \A k \in 1..(8 + n) : IsSymbol(code[k])
  <2> TAKE k \in 1..(8 + n)
  <2>1. CASE k \in 1..8
    BY <1>10, <2>1, HeaderHolds
  <2>2. CASE k \notin 1..8
    <3>1. PICK m \in 1..n : k = 8 + m
      <4>1. k - 8 \in 1..n /\ k = 8 + (k - 8)
        BY <2>2
      <4> QED
        BY <4>1
    <3> QED
      BY <1>4, <1>10, <3>1
  <2> QED
    BY <2>1, <2>2
<1>12. ASSUME NEW j \in 1..l
       PROVE  Byte(code[7 + 2 * j] + 64 * code[8 + 2 * j]) = frame[j]
  <2>1. PICK p \in 1..n, q \in 1..n : p = 2 * j - 1 /\ q = 2 * j
    BY <1>3
  <2>2. code[8 + p] = tail[p] /\ code[8 + q] = tail[q]
    BY <1>10
  <2>3. 7 + 2 * j = 8 + p /\ 8 + 2 * j = 8 + q
    BY <2>1
  <2>4. Byte(tail[p] + 64 * tail[q]) = frame[j]
    BY <1>4, <2>1
  <2> QED
    BY <2>2, <2>3, <2>4
<1> QED
  BY <1>1, <1>3, <1>8, <1>10, <1>11, <1>12 DEF CodeOf


\* What the register holds while bit b of symbol i (from 0) is next.  The third
\* symbol finds two equal ones there, which a false start symbol can still take
\* for a byte.
OnAir(code, i, b, x) ==
    /\ Seen(x, i, b, IF i = 0 THEN 0 ELSE code[i], code[i + 1])
    /\ i = 2 /\ b = 0 => x = 2730
    /\ i = 2 /\ b = 1 => x = 1365

Shifted(code, i, b, x) == Shift(x, code[i + 1], b)

LEMMA OnAirHolds ==
    ASSUME NEW code, NEW frame, NEW l \in Nat, NEW i \in Nat, NEW b \in 0..5,
           NEW x \in Int, CodeOf(code, frame, l), i < 8 + 2 * l,
           0 <= x, x <= 4095, OnAir(code, i, b, x)
    PROVE  \E s \in Int, t \in Int :
              /\ 0 <= s /\ s <= 63 /\ 0 <= t /\ t <= 63
              /\ t = code[i + 1] /\ (i = 0 => s = 0) /\ (i > 0 => s = code[i])
              /\ Seen(x, i, b, s, t)
              /\ Shifted(code, i, b, x) = Shift(x, t, b)
<1>1. \A k \in 1..(8 + 2 * l) : IsSymbol(code[k])
  BY DEF CodeOf
<1>2. PICK t : t = code[i + 1] /\ IsSymbol(t)
  <2>1. i + 1 \in 1..(8 + 2 * l)
    OBVIOUS
  <2> QED
    BY <1>1, <2>1
<1>3. PICK s : (s = IF i = 0 THEN 0 ELSE code[i]) /\ IsSymbol(s)
  <2>1. CASE i = 0
    BY <2>1 DEF IsSymbol
  <2>2. CASE i > 0
    <3>1. i \in 1..(8 + 2 * l)
      BY <2>2
    <3> QED
      BY <1>1, <2>2, <3>1
  <2> QED
    BY <2>1, <2>2
<1>4. Seen(x, i, b, s, t)
  BY <1>2, <1>3 DEF OnAir
<1>5. Shifted(code, i, b, x) = Shift(x, t, b)
  BY <1>2 DEF Shifted
<1>6. (i = 0 => s = 0) /\ (i > 0 => s = code[i])
  BY <1>3
<1>7. s \in Int /\ 0 <= s /\ s <= 63 /\ t \in Int /\ 0 <= t /\ t <= 63
  BY <1>2, <1>3 DEF IsSymbol
<1> QED
  BY <1>2, <1>4, <1>5, <1>6, <1>7


LEMMA ShiftedIsTwelveBits ==
    ASSUME NEW code, NEW i, NEW b, NEW x \in Int, 0 <= x, x <= 4095
    PROVE  /\ Shifted(code, i, b, x) \in Int
           /\ 0 <= Shifted(code, i, b, x) /\ Shifted(code, i, b, x) <= 4095
<1>1. PICK c \in {0, 1} : c = Bit(code[i + 1], b)
  BY BitIsBit
<1>2. Shifted(code, i, b, x) = x \div 2 + 2048 * c
  BY <1>1 DEF Shifted, Shift
<1>3. x \div 2 \in Int /\ 0 <= x \div 2 /\ x \div 2 <= 2047
  OBVIOUS
<1> QED
  BY <1>2, <1>3

\* One bit more of the symbol, and the first of the next.
LEMMA OnAirBit ==
    ASSUME NEW code, NEW frame, NEW l \in Nat, NEW i \in Nat, NEW b \in 0..4,
           NEW x \in Int, CodeOf(code, frame, l), i < 8 + 2 * l,
           0 <= x, x <= 4095, OnAir(code, i, b, x)
    PROVE  OnAir(code, i, b + 1, Shifted(code, i, b, x))
<1>0. b \in 0..5
  OBVIOUS
<1>1. PICK s \in Int, t \in Int :
          /\ 0 <= s /\ s <= 63 /\ 0 <= t /\ t <= 63
          /\ t = code[i + 1] /\ (i = 0 => s = 0) /\ (i > 0 => s = code[i])
          /\ Seen(x, i, b, s, t)
          /\ Shifted(code, i, b, x) = Shift(x, t, b)
  BY <1>0, OnAirHolds
<1>2. PICK y : y = Shift(x, t, b)
  OBVIOUS
<1>3. Seen(y, i, b + 1, s, t)
  <2>1. s \in Int /\ t \in Int /\ 0 <= t /\ t <= 63 /\ Seen(x, i, b, s, t)
    BY <1>1
  <2>2. Seen(Shift(x, t, b), i, b + 1, s, t)
    BY <2>1, SeenBit
  <2> QED
    BY <1>2, <2>2
<1>4. s = IF i = 0 THEN 0 ELSE code[i]
  BY <1>1
<1>5. i = 2 /\ b + 1 = 1 => y = 1365
  <2>1. HAVE i = 2 /\ b + 1 = 1
  <2>2. t = 42 /\ x = 2730 /\ b = 0
    <3>1. 3 \in 1..8 /\ i + 1 = 3 /\ b = 0
      BY <2>1
    <3>2. code[3] = Header[3]
      BY <3>1 DEF CodeOf
    <3> QED
      BY <1>1, <2>1, <3>1, <3>2, HeaderHolds DEF OnAir
  <2>3. Bit(42, 0) = 0
    BY DEF Bit
  <2> QED
    BY <1>2, <2>2, <2>3 DEF Shift
<1>6. ~(b + 1 = 0)
  OBVIOUS
<1>7. OnAir(code, i, b + 1, y)
  BY <1>1, <1>3, <1>4, <1>5, <1>6 DEF OnAir
<1> QED
  BY <1>1, <1>2, <1>7

LEMMA OnAirSymbol ==
    ASSUME NEW code, NEW frame, NEW l \in Nat, NEW i \in Nat, NEW x \in Int,
           CodeOf(code, frame, l), i + 1 < 8 + 2 * l,
           0 <= x, x <= 4095, OnAir(code, i, 5, x)
    PROVE  OnAir(code, i + 1, 0, Shifted(code, i, 5, x))
<1>0. PICK b \in 0..5 : b = 5
  OBVIOUS
<1>1. PICK s \in Int, t \in Int :
          /\ 0 <= s /\ s <= 63 /\ 0 <= t /\ t <= 63
          /\ t = code[i + 1] /\ (i = 0 => s = 0) /\ (i > 0 => s = code[i])
          /\ Seen(x, i, b, s, t)
          /\ Shifted(code, i, b, x) = Shift(x, t, b)
  <2>1. OnAir(code, i, b, x) /\ i < 8 + 2 * l
    BY <1>0
  <2> QED
    BY <2>1, OnAirHolds
<1>2. PICK y : y = Shift(x, t, 5)
  OBVIOUS
<1>3. PICK j \in Nat : j = i + 1
  OBVIOUS
<1>4. PICK u \in Int : u = code[j + 1]
  <2>1. j + 1 \in 1..(8 + 2 * l)
    BY <1>3
  <2>2. IsSymbol(code[j + 1])
    BY <2>1 DEF CodeOf
  <2> QED
    BY <2>2 DEF IsSymbol
<1>5. Seen(x, i, 5, s, t)
  BY <1>0, <1>1
<1>6. Seen(y, j, 0, t, u)
  <2>1. Seen(Shift(x, t, 5), i + 1, 0, t, u)
    BY <1>1, <1>5, SeenSymbol
  <2> QED
    BY <1>2, <1>3, <2>1
<1>7. t = IF j = 0 THEN 0 ELSE code[j]
  BY <1>1, <1>3
<1>8. j = 2 => y = 2730
  <2>1. HAVE j = 2
  <2>2. i = 1 /\ i > 0
    BY <1>3, <2>1
  <2>3. s = 42 /\ t = 42
    <3>1. code[1] = Header[1] /\ code[2] = Header[2]
      BY DEF CodeOf
    <3> QED
      BY <1>1, <2>2, <3>1, HeaderHolds
  <2>4. Shift(x, t, 5) = s + 64 * t
    BY <1>1, <1>5, <2>2, SeenPair
  <2> QED
    BY <1>2, <2>3, <2>4
<1>9. OnAir(code, j, 0, y)
  BY <1>4, <1>6, <1>7, <1>8 DEF OnAir
<1> QED
  BY <1>0, <1>1, <1>2, <1>3, <1>9

\* Where a start symbol can be found before the frame, and where it is.
LEMMA NoFalseStart ==
    ASSUME NEW code, NEW frame, NEW l \in Nat, NEW i \in Nat, NEW b \in 0..5,
           NEW x \in Int, CodeOf(code, frame, l), i < 8,
           0 <= x, x <= 4095, OnAir(code, i, b, x),
           Shifted(code, i, b, x) = START
    PROVE  (i = 0 /\ b = 1) \/ (i = 7 /\ b = 5)
<1>1. PICK s \in Int, t \in Int :
          /\ 0 <= s /\ s <= 63 /\ 0 <= t /\ t <= 63
          /\ t = code[i + 1] /\ (i = 0 => s = 0) /\ (i > 0 => s = code[i])
          /\ Seen(x, i, b, s, t)
          /\ Shifted(code, i, b, x) = Shift(x, t, b)
  <2>1. i < 8 + 2 * l
    OBVIOUS
  <2> QED
    BY <2>1, OnAirHolds
<1>2. /\ code[1] = 42 /\ code[2] = 42 /\ code[3] = 42 /\ code[4] = 42
      /\ code[5] = 42 /\ code[6] = 42 /\ code[7] = 56 /\ code[8] = 44
  <2>1. \A k \in 1..8 : code[k] = Header[k]
    BY DEF CodeOf
  <2> QED
    BY <2>1, HeaderHolds
<1>3. CASE i = 0
  <2>1. t = 42
    BY <1>1, <1>2, <1>3
  <2>2. Seen(x, i, b, s, t) /\ Shift(x, t, b) = START
    BY <1>1
  <2>3. b = 1
    BY <1>3, <2>1, <2>2, FirstSymbol
  <2> QED
    BY <1>3, <2>3
<1>4. CASE i > 0
  <2>1. /\ \/ s = 42 /\ t = 42
           \/ s = 42 /\ t = 56
           \/ s = 56 /\ t = 44
        /\ s = 56 => i = 7
    <3>1. i \in {1, 2, 3, 4, 5, 6, 7}
      BY <1>4
    <3> QED
      BY <1>1, <1>2, <3>1
  <2>2. s = 56 /\ b = 5
    BY <1>1, <1>4, <2>1, LaterSymbols
  <2> QED
    BY <2>1, <2>2
<1> QED
  BY <1>3, <1>4

LEMMA StartFound ==
    ASSUME NEW code, NEW frame, NEW l \in Nat, NEW x \in Int,
           CodeOf(code, frame, l), 0 <= x, x <= 4095, OnAir(code, 7, 5, x)
    PROVE  Shifted(code, 7, 5, x) = START
<1>0. PICK i \in Nat, b \in 0..5 : i = 7 /\ b = 5
  OBVIOUS
<1>1. PICK s \in Int, t \in Int :
          /\ 0 <= s /\ s <= 63 /\ 0 <= t /\ t <= 63
          /\ t = code[i + 1] /\ (i = 0 => s = 0) /\ (i > 0 => s = code[i])
          /\ Seen(x, i, b, s, t)
          /\ Shifted(code, i, b, x) = Shift(x, t, b)
  <2>1. OnAir(code, i, b, x) /\ i < 8 + 2 * l
    BY <1>0
  <2> QED
    BY <2>1, OnAirHolds
<1>2. code[7] = Header[7] /\ code[8] = Header[8]
  BY DEF CodeOf
<1>3. s = 56 /\ t = 44
  BY <1>0, <1>1, <1>2, HeaderHolds
<1>4. Shift(x, t, 5) = s + 64 * t
  <2>1. i > 0 /\ Seen(x, i, 5, s, t)
    BY <1>0, <1>1
  <2> QED
    BY <1>1, <2>1, SeenPair
<1> QED
  BY <1>0, <1>1, <1>3, <1>4 DEF START


\* What is read in the frame, and what a false start symbol makes of the header.
LEMMA ByteRead ==
    ASSUME NEW code, NEW frame, NEW l \in Nat, NEW i \in Nat, NEW j \in Nat,
           NEW x \in Int, CodeOf(code, frame, l), j < l, i = 9 + 2 * j,
           0 <= x, x <= 4095, OnAir(code, i, 5, x)
    PROVE  Byte(Shifted(code, i, 5, x)) = frame[j + 1]
<1>0. PICK b \in 0..5 : b = 5
  OBVIOUS
<1>1. PICK s \in Int, t \in Int :
          /\ 0 <= s /\ s <= 63 /\ 0 <= t /\ t <= 63
          /\ t = code[i + 1] /\ (i = 0 => s = 0) /\ (i > 0 => s = code[i])
          /\ Seen(x, i, b, s, t)
          /\ Shifted(code, i, b, x) = Shift(x, t, b)
  <2>1. OnAir(code, i, b, x) /\ i < 8 + 2 * l
    BY <1>0
  <2> QED
    BY <2>1, OnAirHolds
<1>2. Shift(x, t, 5) = s + 64 * t
  <2>1. i > 0 /\ Seen(x, i, 5, s, t)
    BY <1>0, <1>1
  <2> QED
    BY <1>1, <2>1, SeenPair
<1>3. PICK k \in 1..l : k = j + 1
  OBVIOUS
<1>4. Byte(code[7 + 2 * k] + 64 * code[8 + 2 * k]) = frame[k]
  BY DEF CodeOf
<1>5. 7 + 2 * k = i /\ 8 + 2 * k = i + 1
  BY <1>3
<1>6. s = code[7 + 2 * k] /\ t = code[8 + 2 * k]
  BY <1>1, <1>5
<1>7. Byte(s + 64 * t) = frame[k]
  BY <1>4, <1>6
<1>8. Byte(Shift(x, t, 5)) = Byte(s + 64 * t)
  BY <1>2
<1> QED
  BY <1>0, <1>1, <1>3, <1>7, <1>8

LEMMA FalseByte ==
    ASSUME NEW code, NEW frame, NEW l \in Nat, NEW x,
           CodeOf(code, frame, l), OnAir(code, 2, 1, x)
    PROVE  Byte(Shifted(code, 2, 1, x)) = 204
<1>1. x = 1365
  BY DEF OnAir
<1>2. code[3] = Header[3]
  BY DEF CodeOf
<1>3. code[2 + 1] = 42
  BY <1>2, HeaderHolds
<1>4. Bit(42, 1) = 1
  BY DEF Bit
<1>5. Shifted(code, 2, 1, x) = 2730
  BY <1>1, <1>3, <1>4 DEF Shifted, Shift
<1>6. PICK h \in 0..15 : h = 12
  OBVIOUS
<1>7. symbols[1 + h] = 42
  BY <1>6 DEF symbols
<1>8. Byte(symbols[1 + h] + 64 * symbols[1 + h]) = 16 * h + h
  BY PairIsRead
<1>9. symbols[1 + h] + 64 * symbols[1 + h] = 2730 /\ 16 * h + h = 204
  BY <1>6, <1>7
<1> QED
  BY <1>5, <1>8, <1>9


-----------------------------------------------------------------------------
\* The transmitter and the decoder together.  While code is on the air, what
\* the register holds is known, a receiver that took the first bits for a start
\* symbol counts from there and has stored nothing, and in the frame the bytes
\* stored and the bits of the next one are as many as have been sent.
Sending == vw_tx_enabled /\ vw_tx_index < Len(vw_tx_buf)

InHeader ==
    vw_rx_active /\ vw_tx_index < 8 =>
        /\ vw_rx_len = 0 /\ vw_rx_bit_count = 6 * vw_tx_index + vw_tx_bit - 2
        /\ 2 <= 6 * vw_tx_index + vw_tx_bit /\ 6 * vw_tx_index + vw_tx_bit <= 13

InFrame(l) ==
    vw_tx_index >= 8 =>
        /\ vw_rx_active
        /\ 12 * vw_rx_len + vw_rx_bit_count = 6 * vw_tx_index + vw_tx_bit - 48
        /\ vw_rx_len > 0 => vw_rx_count = l

Tracked(code, l) ==
    /\ vw_tx_enabled /\ vw_tx_buf = code /\ vw_tx_index < 8 + 2 * l
    /\ OnAir(code, vw_tx_index, vw_tx_bit, vw_rx_bits)
    /\ InHeader /\ InFrame(l)

IsFrame(frame, l) ==
    l \in 4..VW_MAX_MESSAGE_LEN /\ l \in Nat /\ frame[1] = l

\* A bit of the transmitter's.
LEMMA TransmitBit ==
    ASSUME Types, NEW code, NEW frame, NEW l \in Nat, CodeOf(code, frame, l),
           Tracked(code, l), Transmit
    PROVE  /\ vw_tx_enabled' = TRUE
           /\ vw_tx_buf' = code /\ nsent' = nsent
           /\ Air = Bit(code[vw_tx_index + 1], vw_tx_bit)
           /\ vw_tx_index \in Nat /\ vw_tx_bit \in 0..5
           /\ \/ /\ vw_tx_bit = 5 /\ vw_tx_bit' = 0
                 /\ vw_tx_index' = vw_tx_index + 1
              \/ /\ vw_tx_bit \in 0..4 /\ vw_tx_bit' = vw_tx_bit + 1
                 /\ vw_tx_index' = vw_tx_index
<1>1. PICK n \in Nat : n = Len(vw_tx_buf) /\ n = 8 + 2 * l
  BY DEF Tracked, CodeOf
<1>2. vw_tx_index \in Nat /\ vw_tx_bit \in 0..5
  BY <1>1 DEF Types, TypeOK
<1>3. vw_tx_enabled /\ vw_tx_index < n
  BY <1>1 DEF Tracked
<1>4. vw_tx_enabled' = (vw_tx_enabled /\ vw_tx_index < n)
  BY <1>1 DEF Transmit
<1>5. vw_tx_enabled' = TRUE
  BY <1>3, <1>4, Zenon
<1>6. vw_tx_buf' = code /\ nsent' = nsent
  BY DEF Transmit, Tracked
<1>7. Air = Bit(code[vw_tx_index + 1], vw_tx_bit)
  BY <1>1, <1>3 DEF Air, Tracked
<1>8. CASE vw_tx_bit = 5
  BY <1>2, <1>5, <1>6, <1>7, <1>8 DEF Transmit
<1>9. CASE vw_tx_bit # 5
  <2>1. vw_tx_bit \in 0..4
    BY <1>2, <1>9
  <2>2. vw_tx_bit' = vw_tx_bit + 1 /\ vw_tx_index' = vw_tx_index
    BY <1>5, <1>9 DEF Transmit
  <2> QED
    BY <1>2, <1>5, <1>6, <1>7, <2>1, <2>2
<1> QED
  BY <1>8, <1>9

\* The register's next value, and that it is right for what comes next.
LEMMA RegisterBit ==
    ASSUME Types, NEW code, NEW frame, NEW l \in Nat, CodeOf(code, frame, l),
           Tracked(code, l), Transmit, vw_pll(Air)
    PROVE  /\ vw_rx_bits \in Int /\ 0 <= vw_rx_bits /\ vw_rx_bits <= 4095
           /\ OnAir(code, vw_tx_index, vw_tx_bit, vw_rx_bits)
           /\ vw_rx_bits' = Shifted(code, vw_tx_index, vw_tx_bit, vw_rx_bits)
           /\ vw_tx_index' < 8 + 2 * l =>
                  OnAir(code, vw_tx_index', vw_tx_bit', vw_rx_bits')
<1>1. PICK i, b, x : i = vw_tx_index /\ b = vw_tx_bit /\ x = vw_rx_bits
  OBVIOUS
<1>2. x \in Int /\ 0 <= x /\ x <= 4095
  BY <1>1 DEF Types, TypeOK
<1>3. OnAir(code, i, b, x) /\ i < 8 + 2 * l
  BY <1>1 DEF Tracked
<1>4. /\ Air = Bit(code[i + 1], b) /\ i \in Nat /\ b \in 0..5
      /\ \/ b = 5 /\ vw_tx_bit' = 0 /\ vw_tx_index' = i + 1
         \/ b \in 0..4 /\ vw_tx_bit' = b + 1 /\ vw_tx_index' = i
  BY <1>1, TransmitBit
<1>5. vw_rx_bits' = Shifted(code, i, b, x)
  BY <1>1, <1>4 DEF vw_pll, Shifted, Shift
<1>6. CASE b = 5 /\ vw_tx_bit' = 0 /\ vw_tx_index' = i + 1
  <2>1. ASSUME i + 1 < 8 + 2 * l
        PROVE  OnAir(code, i + 1, 0, Shifted(code, i, 5, x))
    <3>1. OnAir(code, i, 5, x)
      BY <1>3, <1>6
    <3> QED
      BY <1>2, <1>4, <2>1, <3>1, OnAirSymbol
  <2> QED
    BY <1>1, <1>2, <1>3, <1>5, <1>6, <2>1
<1>7. CASE b \in 0..4 /\ vw_tx_bit' = b + 1 /\ vw_tx_index' = i
  <2>1. OnAir(code, i, b + 1, Shifted(code, i, b, x))
    BY <1>2, <1>3, <1>4, <1>7, OnAirBit
  <2> QED
    BY <1>1, <1>2, <1>3, <1>5, <1>7, <2>1
<1> QED
  BY <1>4, <1>6, <1>7


\* The byte that the receiver takes in the header makes no sense as a count.
LEMMA HeaderByte ==
    ASSUME Types, NEW code, NEW frame, NEW l \in Nat, CodeOf(code, frame, l),
           Tracked(code, l), Transmit, vw_pll(Air), vw_tx_index < 8,
           vw_rx_active, vw_rx_bit_count = 11, VW_MAX_MESSAGE_LEN <= 203
    PROVE  vw_rx_active' = FALSE /\ heard' = heard
<1>1. vw_tx_index \in Nat /\ vw_tx_bit \in 0..5
  BY TransmitBit
<1>2. vw_rx_len = 0 /\ 11 = 6 * vw_tx_index + vw_tx_bit - 2
  BY DEF Tracked, InHeader
<1>3. vw_tx_index = 2 /\ vw_tx_bit = 1
  BY <1>1, <1>2
<1>4. PICK x : x = vw_rx_bits
  OBVIOUS
<1>5. OnAir(code, 2, 1, x) /\ vw_rx_bits' = Shifted(code, 2, 1, x)
  BY <1>3, <1>4, RegisterBit
<1>6. Byte(Shifted(code, 2, 1, x)) = 204
  BY <1>5, FalseByte
<1>7. PICK byte : byte = Byte(vw_rx_bits')
  OBVIOUS
<1>8. byte = 204
  BY <1>5, <1>6, <1>7 DEF Byte
<1>9. Senseless(byte)
  BY <1>2, <1>8, LengthAssumption DEF Senseless
<1> QED
  BY <1>7, <1>9 DEF vw_pll, Collect, Drop

\* The byte that it takes in the frame is the frame's next.
LEMMA FrameByte ==
    ASSUME Types, NEW code, NEW frame, NEW l \in Nat, CodeOf(code, frame, l),
           IsFrame(frame, l), Tracked(code, l), Transmit, vw_pll(Air),
           vw_tx_index >= 8, vw_rx_bit_count = 11
    PROVE  /\ vw_rx_len \in Nat /\ vw_rx_len < l
           /\ vw_tx_index' = 10 + 2 * vw_rx_len /\ vw_tx_bit' = 0
           /\ Store(frame[vw_rx_len + 1]) /\ vw_rx_active /\ missed' = missed
           /\ vw_rx_len > 0 => vw_rx_count = l
<1>0. PICK i, b, x, j : /\ i = vw_tx_index /\ b = vw_tx_bit /\ x = vw_rx_bits
                        /\ j = vw_rx_len
  OBVIOUS
<1>1. i \in Nat /\ b \in 0..5 /\ i < 8 + 2 * l
  BY <1>0, TransmitBit DEF Tracked
<1>2. j \in Nat
  <2>1. VW_MAX_MESSAGE_LEN \in Nat
    BY LengthAssumption
  <2> QED
    BY <1>0, <2>1 DEF Types, TypeOK
<1>3. /\ vw_rx_active /\ 12 * j + 11 = 6 * i + b - 48
      /\ j > 0 => vw_rx_count = l
  BY <1>0 DEF Tracked, InFrame
<1>4. b = 5 /\ i = 9 + 2 * j
  BY <1>1, <1>2, <1>3
<1>5. j < l
  BY <1>1, <1>2, <1>4
<1>6. /\ x \in Int /\ 0 <= x /\ x <= 4095 /\ OnAir(code, i, 5, x)
      /\ vw_rx_bits' = Shifted(code, i, 5, x)
  BY <1>0, <1>4, RegisterBit
<1>7. Byte(Shifted(code, i, 5, x)) = frame[j + 1]
  BY <1>1, <1>2, <1>4, <1>5, <1>6, ByteRead
<1>8. PICK byte : byte = Byte(vw_rx_bits')
  OBVIOUS
<1>9. byte = frame[j + 1]
  BY <1>6, <1>7, <1>8 DEF Byte
<1>10. ~Senseless(byte)
  BY <1>0, <1>9 DEF Senseless, IsFrame
<1>11. Store(byte) /\ missed' = missed
  BY <1>3, <1>8, <1>10 DEF vw_pll, Collect
<1>12. vw_tx_index' = i + 1 /\ vw_tx_bit' = 0
  <2>1. \/ /\ vw_tx_bit = 5 /\ vw_tx_bit' = 0
           /\ vw_tx_index' = vw_tx_index + 1
        \/ /\ vw_tx_bit \in 0..4 /\ vw_tx_bit' = vw_tx_bit + 1
           /\ vw_tx_index' = vw_tx_index
    BY TransmitBit
  <2> QED
    BY <1>0, <1>4, <2>1
<1>13. vw_tx_index' = 10 + 2 * j
  BY <1>1, <1>2, <1>4, <1>12
<1> QED
  BY <1>0, <1>2, <1>3, <1>5, <1>9, <1>11, <1>12, <1>13

\* A bit before the last of a byte.
LEMMA BitOfByte ==
    ASSUME vw_rx_active, vw_rx_bit_count < 11, NEW bit, vw_pll(bit)
    PROVE  /\ vw_rx_bit_count' = vw_rx_bit_count + 1
           /\ vw_rx_active' = vw_rx_active /\ missed' = missed
           /\ UNCHANGED <<vw_rx_buf, vw_rx_count, vw_rx_len, vw_rx_done, heard>>
  BY DEF vw_pll, Collect

\* One bit period, of a message that was on the air from the start: it still is
\* as it should be, or it is over and heard.
LEMMA TrackStep ==
    ASSUME Types, IInv, NEW code, NEW frame, NEW l \in Nat,
           CodeOf(code, frame, l), IsFrame(frame, l), Tracked(code, l),
           Transmit, vw_pll(Air),
           vw_rx_active /\ vw_tx_index < 8 => VW_MAX_MESSAGE_LEN <= 203
    PROVE  \/ Tracked(code, l)' /\ heard' = heard
           \/ /\ ~Sending' /\ heard' = heard + 1
              /\ vw_rx_active' = FALSE /\ vw_rx_done' = TRUE
              /\ vw_rx_len' = l
<1>1. /\ vw_tx_enabled' = TRUE /\ vw_tx_buf' = code
      /\ vw_tx_index \in Nat /\ vw_tx_bit \in 0..5
      /\ \/ vw_tx_bit = 5 /\ vw_tx_bit' = 0 /\ vw_tx_index' = vw_tx_index + 1
         \/ /\ vw_tx_bit \in 0..4 /\ vw_tx_bit' = vw_tx_bit + 1
            /\ vw_tx_index' = vw_tx_index
  BY TransmitBit
<1>2. /\ vw_tx_index' < 8 + 2 * l =>
             OnAir(code, vw_tx_index', vw_tx_bit', vw_rx_bits')
  BY RegisterBit
<1>3. 6 * vw_tx_index' + vw_tx_bit' = 6 * vw_tx_index + vw_tx_bit + 1
  BY <1>1
<1>4. vw_tx_index < 8 + 2 * l /\ l >= 4
  BY DEF Tracked, IsFrame
<1>0. vw_tx_index' \in Nat /\ (vw_tx_index < 8 \/ vw_tx_index >= 8)
  BY <1>1
<1>5. CASE vw_tx_index < 8 /\ vw_rx_active /\ vw_rx_bit_count < 11
  <2>1. /\ vw_rx_len = 0 /\ vw_rx_bit_count = 6 * vw_tx_index + vw_tx_bit - 2
        /\ 2 <= 6 * vw_tx_index + vw_tx_bit
    BY <1>5 DEF Tracked, InHeader
  <2>2. /\ vw_rx_bit_count' = vw_rx_bit_count + 1
        /\ UNCHANGED <<vw_rx_active, vw_rx_len, heard>>
    BY <1>5, BitOfByte
  <2>3. vw_tx_index' < 8 /\ vw_tx_index' < 8 + 2 * l
    BY <1>1, <1>4, <1>5, <2>1
  <2>4. InHeader' /\ InFrame(l)'
    BY <1>1, <1>3, <1>5, <2>1, <2>2, <2>3 DEF InHeader, InFrame
  <2> QED
    BY <1>1, <1>2, <2>2, <2>3, <2>4 DEF Tracked
<1>6. CASE vw_tx_index < 8 /\ vw_rx_active /\ ~(vw_rx_bit_count < 11)
  <2>1. vw_rx_bit_count = 11
    BY <1>6 DEF IInv, Collecting
  <2>2. vw_rx_active' = FALSE /\ heard' = heard
    BY <1>6, <2>1, HeaderByte
  <2>3. 11 = 6 * vw_tx_index + vw_tx_bit - 2
    BY <1>6, <2>1 DEF Tracked, InHeader
  <2>4. vw_tx_index' < 8 /\ vw_tx_index' < 8 + 2 * l
    BY <1>1, <1>4, <2>3
  <2>5. InHeader' /\ InFrame(l)'
    BY <1>0, <2>2, <2>4 DEF InHeader, InFrame
  <2> QED
    BY <1>1, <1>2, <2>2, <2>4, <2>5 DEF Tracked
<1>7. CASE vw_tx_index < 8 /\ ~vw_rx_active /\ vw_rx_bits' # START
  <2>1. UNCHANGED <<vw_rx_active, heard>>
    BY <1>7 DEF vw_pll
  <2>2. ~(vw_tx_index = 7 /\ vw_tx_bit = 5)
    <3>1. PICK x : x = vw_rx_bits
      OBVIOUS
    <3>2. ASSUME vw_tx_index = 7, vw_tx_bit = 5 PROVE FALSE
      <4>1. /\ x \in Int /\ 0 <= x /\ x <= 4095 /\ OnAir(code, 7, 5, x)
            /\ vw_rx_bits' = Shifted(code, 7, 5, x)
        BY <3>1, <3>2, RegisterBit
      <4>2. Shifted(code, 7, 5, x) = START
        BY <4>1, StartFound
      <4> QED
        BY <1>7, <4>1, <4>2
    <3> QED
      BY <3>2
  <2>3. vw_tx_index' < 8 /\ vw_tx_index' < 8 + 2 * l
    BY <1>1, <1>4, <1>7, <2>2
  <2>4. InHeader' /\ InFrame(l)'
    BY <1>0, <1>7, <2>1, <2>3 DEF InHeader, InFrame
  <2> QED
    BY <1>1, <1>2, <2>1, <2>3, <2>4 DEF Tracked
<1>8. CASE vw_tx_index < 8 /\ ~vw_rx_active /\ vw_rx_bits' = START
  <2>1. /\ vw_rx_active' = TRUE /\ vw_rx_bit_count' = 0 /\ vw_rx_len' = 0
        /\ heard' = heard
    BY <1>8 DEF vw_pll, StartSymbol
  <2>2. (vw_tx_index = 0 /\ vw_tx_bit = 1) \/ (vw_tx_index = 7 /\ vw_tx_bit = 5)
    <3>1. PICK i, b, x : i = vw_tx_index /\ b = vw_tx_bit /\ x = vw_rx_bits
      OBVIOUS
    <3>2. /\ x \in Int /\ 0 <= x /\ x <= 4095 /\ OnAir(code, i, b, x)
          /\ Shifted(code, i, b, x) = START /\ i \in Nat /\ b \in 0..5 /\ i < 8
      BY <1>1, <1>8, <3>1, RegisterBit
    <3>3. (i = 0 /\ b = 1) \/ (i = 7 /\ b = 5)
      BY <3>2, NoFalseStart
    <3> QED
      BY <3>1, <3>3
  <2>3. CASE vw_tx_index = 0 /\ vw_tx_bit = 1
    <3>1. vw_tx_index' = 0 /\ vw_tx_bit' = 2 /\ vw_tx_index' < 8 + 2 * l
      BY <1>1, <1>4, <2>3
    <3>2. InHeader' /\ InFrame(l)'
      BY <2>1, <3>1 DEF InHeader, InFrame
    <3> QED
      BY <1>1, <1>2, <2>1, <3>1, <3>2 DEF Tracked
  <2>4. CASE vw_tx_index = 7 /\ vw_tx_bit = 5
    <3>1. vw_tx_index' = 8 /\ vw_tx_bit' = 0 /\ vw_tx_index' < 8 + 2 * l
      BY <1>1, <1>4, <2>4
    <3>2. InHeader' /\ InFrame(l)'
      BY <2>1, <3>1 DEF InHeader, InFrame
    <3> QED
      BY <1>1, <1>2, <2>1, <3>1, <3>2 DEF Tracked
  <2> QED
    BY <2>2, <2>3, <2>4
<1>9. CASE vw_tx_index >= 8 /\ vw_rx_bit_count < 11
  <2>1. /\ vw_rx_active
        /\ 12 * vw_rx_len + vw_rx_bit_count = 6 * vw_tx_index + vw_tx_bit - 48
        /\ vw_rx_len > 0 => vw_rx_count = l
    BY <1>9 DEF Tracked, InFrame
  <2>2. /\ vw_rx_bit_count' = vw_rx_bit_count + 1 /\ vw_rx_active'
        /\ UNCHANGED <<vw_rx_count, vw_rx_len, heard>>
    BY <1>9, <2>1, BitOfByte
  <2>3. PICK j \in Nat, c \in Nat : j = vw_rx_len /\ c = vw_rx_bit_count
    BY <2>1 DEF IInv, Collecting
  <2>4. vw_tx_index' >= 8
    BY <1>1, <1>9
  <2>5. vw_tx_index' < 8 + 2 * l
    <3>1. 12 * j + c = 6 * vw_tx_index + vw_tx_bit - 48 /\ c < 11
      BY <1>9, <2>1, <2>3
    <3> QED
      BY <1>1, <1>4, <3>1
  <2>6. InHeader' /\ InFrame(l)'
    <3>1. 12 * j + c + 1 = 6 * vw_tx_index' + vw_tx_bit' - 48
      BY <1>1, <1>3, <2>1, <2>3
    <3>2. 12 * vw_rx_len' + vw_rx_bit_count' = 12 * j + c + 1
      BY <2>2, <2>3
    <3> QED
      BY <1>0, <2>1, <2>2, <2>4, <3>1, <3>2 DEF InHeader, InFrame
  <2> QED
    BY <1>1, <1>2, <2>2, <2>5, <2>6 DEF Tracked
<1>10. CASE vw_tx_index >= 8 /\ ~(vw_rx_bit_count < 11)
  <2>1. vw_rx_bit_count = 11
    <3>1. vw_rx_active
      BY <1>10 DEF Tracked, InFrame
    <3> QED
      BY <1>10, <3>1 DEF IInv, Collecting
  <2>2. /\ vw_rx_len \in Nat /\ vw_rx_len < l
        /\ vw_tx_index' = 10 + 2 * vw_rx_len /\ vw_tx_bit' = 0
        /\ Store(frame[vw_rx_len + 1]) /\ vw_rx_active
        /\ vw_rx_len > 0 => vw_rx_count = l
    BY <1>10, <2>1, FrameByte
  <2>3. PICK j \in Nat : j = vw_rx_len /\ j < l
    BY <2>2
  <2>4. vw_rx_len' = j + 1 /\ vw_rx_bit_count' = 0 /\ vw_rx_count' = l
    <3>1. CASE j = 0
      <4>1. frame[j + 1] = l
        BY <3>1 DEF IsFrame
      <4> QED
        BY <2>2, <2>3, <3>1, <4>1 DEF Store
    <3>2. CASE j # 0
      BY <2>2, <2>3, <3>2 DEF Store
    <3> QED
      BY <3>1, <3>2
  <2>5. CASE j + 1 < l
    <3>0. ~(vw_rx_len' >= vw_rx_count')
      BY <2>3, <2>4, <2>5
    <3>1. vw_rx_active' = vw_rx_active /\ heard' = heard
      BY <2>2, <3>0 DEF Store
    <3>2. vw_tx_index' = 10 + 2 * j /\ vw_tx_bit' = 0
      BY <2>2, <2>3
    <3>3. vw_tx_index' >= 8 /\ vw_tx_index' < 8 + 2 * l
      BY <2>5, <3>2
    <3>4. 12 * (j + 1) + 0 = 6 * (10 + 2 * j) + 0 - 48
      OBVIOUS
    <3>5. InHeader' /\ InFrame(l)'
      BY <2>2, <2>4, <3>1, <3>2, <3>3, <3>4 DEF InHeader, InFrame
    <3> QED
      BY <1>1, <1>2, <3>1, <3>3, <3>5 DEF Tracked
  <2>6. CASE ~(j + 1 < l)
    <3>0. vw_rx_len' >= vw_rx_count'
      BY <2>3, <2>4, <2>6
    <3>1. vw_rx_active' = FALSE /\ vw_rx_done' = TRUE /\ heard' = heard + 1
      BY <2>2, <3>0 DEF Store
    <3>2. j + 1 = l
      BY <2>3, <2>6
    <3>3. vw_tx_index' = 8 + 2 * l
      BY <2>2, <2>3, <3>2
    <3>4. Len(vw_tx_buf') = 8 + 2 * l
      BY <1>1 DEF CodeOf
    <3>5. ~Sending'
      BY <3>3, <3>4 DEF Sending
    <3> QED
      BY <2>4, <3>1, <3>2, <3>5
  <2> QED
    BY <2>5, <2>6
<1> QED
  BY <1>0, <1>5, <1>6, <1>7, <1>8, <1>9, <1>10


-----------------------------------------------------------------------------
\* What due promises while heard has not reached it: the last message sent is
\* on the air, and the decoder follows it.
Size(n) == Len(Frame(Messages[n]))

Counted == heard \in Nat /\ due \in Nat

Awaited ==
    due > heard => /\ due = heard + 1 /\ nsent \in 1..Len(Messages)
                   /\ Tracked(Coded[nsent], Size(nsent))

LEMMA CodeHolds ==
    ASSUME NEW n \in 1..Len(Messages)
    PROVE  /\ Size(n) \in Nat /\ IsFrame(Frame(Messages[n]), Size(n))
           /\ CodeOf(Coded[n], Frame(Messages[n]), Size(n))
<1>1. PICK m \in Nat : /\ m + 3 \in 4..VW_MAX_MESSAGE_LEN
                       /\ Frame(Messages[n]) \in Seq(Bytes)
                       /\ Len(Frame(Messages[n])) = m + 3
                       /\ Frame(Messages[n])[1] = m + 3
  BY FrameHolds
<1>2. PICK l \in Nat : l = m + 3
  OBVIOUS
<1>3. PICK frame : frame = Frame(Messages[n])
  OBVIOUS
<1>4. frame \in Seq(Bytes) /\ Len(frame) = l /\ frame[1] = l
  BY <1>1, <1>2, <1>3
<1>5. \A j \in 1..l : frame[j] \in Bytes
  BY <1>4, ElementOfSeq
<1>6. CodeOf(Coded[n], Frame(Messages[n]), l)
  <2>1. /\ Len(Frame(Messages[n])) = l
        /\ \A j \in 1..l : Frame(Messages[n])[j] \in Bytes
    BY <1>3, <1>4, <1>5
  <2> QED
    BY <2>1, CodedHolds
<1>7. IsFrame(frame, l)
  BY <1>1, <1>2, <1>4 DEF IsFrame
<1>8. Size(n) = l
  BY <1>3, <1>4 DEF Size
<1> QED
  BY <1>3, <1>6, <1>7, <1>8

\* Before its first bit nothing of a message has been seen.
LEMMA NothingSeen ==
    ASSUME NEW code, NEW frame, NEW l \in Nat, NEW x \in Int,
           CodeOf(code, frame, l), 0 <= x, x <= 4095
    PROVE  OnAir(code, 0, 0, x)
<1>1. code[0 + 1] = 42
  <2>1. code[1] = Header[1]
    BY DEF CodeOf
  <2> QED
    BY <2>1, HeaderHolds
<1>2. x \div 2^12 = 0 /\ 42 % 2^0 = 0
  OBVIOUS
<1>3. Seen(x, 0, 0, 0, 42)
  BY <1>2 DEF Seen
<1> QED
  BY <1>1, <1>3 DEF OnAir

LEMMA SentIsTracked ==
    ASSUME Types, vw_send, ~vw_rx_active
    PROVE  \E n \in 1..Len(Messages) : \E code, l :
              /\ nsent' = n /\ n = nsent + 1 /\ code = Coded[n] /\ l = Size(n)
              /\ Tracked(code, l)'
<1>1. nsent \in 0..Len(Messages) /\ nsent < Len(Messages)
  BY DEF vw_send, Types, TypeOK
<1>2. PICK n \in 1..Len(Messages) : n = nsent + 1
  <2>1. Len(Messages) \in Nat
    BY LengthAssumption, LenProperties
  <2> QED
    BY <1>1, <2>1
<1>3. PICK code, frame : code = Coded[n] /\ frame = Frame(Messages[n])
  OBVIOUS
<1>4. PICK l \in Nat : l = Size(n) /\ CodeOf(code, frame, l)
  BY <1>3, CodeHolds
<1>5. /\ nsent' = n /\ vw_tx_buf' = code /\ vw_tx_index' = 0 /\ vw_tx_bit' = 0
      /\ vw_tx_enabled' = TRUE /\ vw_rx_bits' = vw_rx_bits
      /\ vw_rx_active' = vw_rx_active
  BY <1>2, <1>3 DEF vw_send, decoder
<1>6. OnAir(code, 0, 0, vw_rx_bits)
  <2>1. PICK x \in Int : x = vw_rx_bits /\ 0 <= x /\ x <= 4095
    BY DEF Types, TypeOK
  <2>2. OnAir(code, 0, 0, x)
    BY <1>4, <2>1, NothingSeen
  <2> QED
    BY <2>1, <2>2
<1>7. InHeader' /\ InFrame(l)'
  BY <1>5 DEF InHeader, InFrame
<1>8. Tracked(code, l)'
  BY <1>4, <1>5, <1>6, <1>7 DEF Tracked
<1> QED
  BY <1>2, <1>3, <1>4, <1>5, <1>8

LEMMA BitCounts ==
    ASSUME Counted, NEW bit, vw_pll(bit) PROVE heard' \in Nat /\ heard <= heard'
<1>1. heard' = heard \/ heard' = heard + 1
  BY DEF vw_pll, Collect, Store, StartSymbol
<1> QED
  BY <1>1 DEF Counted

\* Insula's main program disturbs neither the transmitter nor the decoder.
LEMMA FetchDisturbsNot ==
    ASSUME vw_get_message
    PROVE  UNCHANGED <<nsent, vw_tx_buf, vw_tx_index, vw_tx_bit, vw_tx_enabled,
                       vw_rx_bits, vw_rx_bit_count, vw_rx_active, vw_rx_buf,
                       vw_rx_count, vw_rx_len, heard, missed, due, faults>>
  BY DEF vw_get_message, Test, Length, Copy, Clear, Check, CheckIf, decoder,
         transmitter

LEMMA TrackedStays ==
    ASSUME NEW code, NEW l, Tracked(code, l),
           UNCHANGED <<vw_tx_buf, vw_tx_index, vw_tx_bit, vw_tx_enabled,
                       vw_rx_bits, vw_rx_bit_count, vw_rx_active, vw_rx_count,
                       vw_rx_len>>
    PROVE  Tracked(code, l)'
  BY DEF Tracked, InHeader, InFrame

LEMMA StepKeepsAwaited ==
    ASSUME Types, IInv, Counted, Awaited, [Next]_vars, VW_MAX_MESSAGE_LEN <= 203
    PROVE  Counted' /\ Awaited'
<1>1. CASE vw_send
  <2>1. heard' = heard /\ due' = IF vw_rx_active THEN 0 ELSE heard + 1
    BY <1>1 DEF vw_send, decoder
  <2>2. CASE vw_rx_active
    BY <2>1, <2>2 DEF Counted, Awaited
  <2>3. CASE ~vw_rx_active
    <3>0. PICK n \in 1..Len(Messages) : \E code, l :
              /\ nsent' = n /\ n = nsent + 1 /\ code = Coded[n] /\ l = Size(n)
              /\ Tracked(code, l)'
      BY <1>1, <2>3, SentIsTracked
    <3>1. PICK code, l :
              /\ nsent' = n /\ code = Coded[n] /\ l = Size(n)
              /\ Tracked(code, l)'
      BY <3>0
    <3>2. Tracked(Coded[n], Size(n))'
      BY <3>1
    <3> QED
      BY <2>1, <2>3, <3>1, <3>2 DEF Counted, Awaited
  <2> QED
    BY <2>2, <2>3
<1>2. CASE BitPeriod
  <2>1. Transmit /\ vw_pll(Air) /\ due' = due /\ nsent' = nsent
    BY <1>2 DEF BitPeriod, Transmit
  <2>2. heard' \in Nat /\ heard <= heard'
    BY <2>1, BitCounts
  <2>3. CASE due <= heard
    <3>1. ~(due' > heard') /\ due' \in Nat
      BY <2>1, <2>2, <2>3 DEF Counted
    <3> QED
      BY <2>2, <3>1 DEF Counted, Awaited
  <2>4. CASE due > heard
    <3>0. PICK n \in 1..Len(Messages) : n = nsent
      BY <2>4 DEF Awaited
    <3>1. PICK code, frame :
              n = nsent /\ code = Coded[n] /\ frame = Frame(Messages[n])
      BY <3>0
    <3>2. PICK l \in Nat :
              l = Size(n) /\ CodeOf(code, frame, l) /\ IsFrame(frame, l)
      BY <3>1, CodeHolds
    <3>3. Tracked(code, l) /\ due = heard + 1
      BY <2>4, <3>1, <3>2 DEF Awaited
    <3>4. (Tracked(code, l)' /\ heard' = heard) \/ heard' = heard + 1
      BY <2>1, <3>2, <3>3, TrackStep
    <3>5. CASE Tracked(code, l)' /\ heard' = heard
      <4>1. nsent' = n /\ due' = heard' + 1 /\ due' \in Nat
        BY <2>1, <3>1, <3>3, <3>5 DEF Counted
      <4>2. Tracked(Coded[n], Size(n))'
        BY <3>1, <3>2, <3>5
      <4> QED
        BY <2>2, <4>1, <4>2 DEF Counted, Awaited
    <3>6. CASE heard' = heard + 1
      BY <2>1, <2>2, <3>3, <3>6 DEF Counted, Awaited
    <3> QED
      BY <3>4, <3>5, <3>6
  <2> QED
    BY <2>3, <2>4 DEF Counted
<1>3. CASE Fault
  <2>1. due' = 0
    BY <1>3 DEF Fault
  <2>2. heard' \in Nat
    <3>1. heard' = heard \/ vw_pll(1 - Air) \/ vw_pll(Air)
      BY <1>3 DEF Fault, decoder
    <3> QED
      BY <3>1, BitCounts DEF Counted
  <2>3. ~(due' > heard') /\ due' \in Nat
    BY <2>1, <2>2
  <2> QED
    BY <2>2, <2>3 DEF Counted, Awaited
<1>4. CASE UNCHANGED <<nsent, vw_tx_buf, vw_tx_index, vw_tx_bit, vw_tx_enabled,
                       vw_rx_bits, vw_rx_bit_count, vw_rx_active, vw_rx_count,
                       vw_rx_len, heard, due>>
  <2>1. CASE due <= heard
    BY <1>4, <2>1 DEF Counted, Awaited
  <2>2. CASE due > heard
    <3>0. PICK n \in 1..Len(Messages) : n = nsent
      BY <2>2 DEF Awaited
    <3>1. PICK code, l : n = nsent /\ code = Coded[n] /\ l = Size(n)
      BY <3>0
    <3>2. Tracked(code, l) /\ due = heard + 1
      BY <2>2, <3>1 DEF Awaited
    <3>3. Tracked(code, l)'
      BY <1>4, <3>2, TrackedStays
    <3>4. Tracked(Coded[n], Size(n))'
      BY <3>1, <3>3
    <3> QED
      BY <1>4, <3>1, <3>2, <3>4 DEF Counted, Awaited
  <2> QED
    BY <2>1, <2>2 DEF Counted
<1>5. CASE vw_get_message
  BY <1>4, <1>5, FetchDisturbsNot
<1>6. CASE UNCHANGED vars
  BY <1>4, <1>6 DEF vars, transmitter, decoder
<1> QED
  BY <1>1, <1>2, <1>3, <1>5, <1>6 DEF Next

\* A message that finds the receiver free and meets no fault is heard when its
\* transmission ends, wherever the noise of an earlier one has left the decoder.
\* The buffer is not so large (of the code it is 30) that 204 makes sense as a
\* count: it is what the header's own bits say after a false start symbol.
THEOREM FreeHears ==
    ASSUME VW_MAX_MESSAGE_LEN <= 203 PROVE Spec => []HeardWhenFree
<1>1. Init => Types /\ IInv /\ Counted /\ Awaited
  <2>1. Init => Types /\ IInv
    BY InitTypes DEF Init, IInv, Collecting
  <2>2. Init => Counted /\ Awaited
    BY DEF Init, Counted, Awaited
  <2> QED
    BY <2>1, <2>2
<1>2. /\ Types /\ IInv /\ Counted /\ Awaited /\ [Next]_vars
      => Types' /\ IInv' /\ Counted' /\ Awaited'
  BY StepKeepsTypes, StepKeepsInvariant, StepKeepsAwaited
<1>3. Counted /\ Awaited => HeardWhenFree
  <2>1. ASSUME Awaited, due > heard PROVE vw_tx_enabled
    <3>1. PICK code, l : Tracked(code, l)
      BY <2>1 DEF Awaited
    <3> QED
      BY <3>1 DEF Tracked
  <2>2. Counted => due <= heard \/ due > heard
    BY DEF Counted
  <2> QED
    BY <2>1, <2>2 DEF HeardWhenFree
<1> QED
  BY <1>1, <1>2, <1>3, PTL DEF Spec


-----------------------------------------------------------------------------
\* Without faults the register is too empty, when a message begins, for a false
\* start symbol, so the receiver is free until the frame and has by its end
\* stored all of it.
Right(buf, frame, l) == \A k \in 1..l : buf[k] = frame[k]

SentRight(n) ==
    /\ n \in 1..Len(Messages) /\ heard = n - 1
    /\ Tracked(Coded[n], Size(n))
    /\ vw_tx_index < 8 => ~vw_rx_active
    /\ vw_tx_index >= 8 => Right(vw_rx_buf, Frame(Messages[n]), vw_rx_len)
    /\ vw_tx_index = 0 /\ vw_tx_bit = 0 => vw_rx_bits < 2048
    /\ vw_tx_index = 0 /\ vw_tx_bit = 1 => vw_rx_bits < 1024

Following ==
    /\ Sending => SentRight(nsent)
    /\ ~Sending => ~vw_rx_active /\ heard = nsent
    /\ ~vw_tx_enabled => vw_rx_bits < 2048

\* What a bit period does to the receiver then: nothing, or a message starts,
\* goes on, or is over.
Idles ==
    /\ ~vw_rx_active /\ ~vw_rx_active'
    /\ UNCHANGED <<vw_rx_buf, vw_rx_len, vw_rx_done, heard, missed>>

Starts ==
    /\ ~vw_rx_active /\ vw_rx_active' /\ vw_rx_len' = 0 /\ vw_rx_done' = FALSE
    /\ missed' = IF vw_rx_done \/ pc # "away" THEN missed + 1 ELSE missed
    /\ heard' = heard

GoesOn ==
    vw_rx_active /\ vw_rx_active' /\ UNCHANGED <<vw_rx_done, heard, missed>>

Completes(n) ==
    /\ vw_rx_active /\ ~vw_rx_active' /\ vw_rx_done' = TRUE /\ missed' = missed
    /\ heard = n - 1 /\ heard' = n /\ vw_rx_len' = Size(n)
    /\ Right(vw_rx_buf', Frame(Messages[n]), vw_rx_len')

\* Nothing on the air: the register empties.
LEMMA SilenceIsIdle ==
    ASSUME Types, Following, ~Sending, Transmit, vw_pll(Air)
    PROVE  Following' /\ Idles
<1>1. ~vw_rx_active /\ heard = nsent
  BY DEF Following
<1>2. Air = 0
  BY DEF Air, Sending
<1>3. PICK x \in Int : x = vw_rx_bits /\ 0 <= x /\ x <= 4095
  BY DEF Types, TypeOK
<1>4. vw_rx_bits' = x \div 2
  BY <1>2, <1>3 DEF vw_pll
<1>5. vw_rx_bits' < 2048 /\ vw_rx_bits' # START
  BY <1>3, <1>4 DEF START
<1>6. Idles /\ UNCHANGED <<vw_rx_active, heard>>
  BY <1>1, <1>5 DEF vw_pll, Idles
<1>7. nsent' = nsent /\ vw_tx_enabled' = FALSE
  <2>1. vw_tx_enabled' = Sending /\ nsent' = nsent
    BY DEF Transmit, Sending
  <2> QED
    BY <2>1
<1>8. ~Sending'
  BY <1>7 DEF Sending
<1> QED
  BY <1>1, <1>5, <1>6, <1>7, <1>8 DEF Following


\* A bit of the header.
LEMMA HeaderGoesOut ==
    ASSUME Types, IInv, NEW n, SentRight(n), Transmit, vw_pll(Air),
           vw_tx_index < 8
    PROVE  SentRight(n)' /\ vw_tx_enabled' = TRUE /\ (Idles \/ Starts)
<1>1. n \in 1..Len(Messages) /\ heard = n - 1 /\ n \in Int
  BY LengthAssumption, LenProperties DEF SentRight
<1>2. PICK code, frame : code = Coded[n] /\ frame = Frame(Messages[n])
  OBVIOUS
<1>3. PICK l \in Nat : /\ l = Size(n)
                       /\ CodeOf(code, frame, l) /\ IsFrame(frame, l)
  BY <1>1, <1>2, CodeHolds
<1>4. Tracked(code, l) /\ ~vw_rx_active
  BY <1>2, <1>3 DEF SentRight
<1>5. heard' = heard
  BY <1>4 DEF vw_pll, StartSymbol
<1>6. Tracked(code, l)'
  <2>1. (Tracked(code, l)' /\ heard' = heard) \/ heard' = heard + 1
    BY <1>3, <1>4, TrackStep
  <2> QED
    BY <1>1, <1>5, <2>1
<1>7. Tracked(Coded[n], Size(n))'
  BY <1>2, <1>3, <1>6
<1>8. /\ vw_tx_enabled' = TRUE
      /\ vw_tx_index \in Nat /\ vw_tx_bit \in 0..5
      /\ \/ vw_tx_bit = 5 /\ vw_tx_bit' = 0 /\ vw_tx_index' = vw_tx_index + 1
         \/ /\ vw_tx_bit \in 0..4 /\ vw_tx_bit' = vw_tx_bit + 1
            /\ vw_tx_index' = vw_tx_index
  BY <1>3, <1>4, TransmitBit
<1>9. PICK i, b, x : i = vw_tx_index /\ b = vw_tx_bit /\ x = vw_rx_bits
  OBVIOUS
<1>10. /\ x \in Int /\ 0 <= x /\ x <= 4095 /\ OnAir(code, i, b, x)
       /\ vw_rx_bits' = Shifted(code, i, b, x) /\ i \in Nat /\ b \in 0..5
  BY <1>3, <1>4, <1>8, <1>9, RegisterBit
<1>11. /\ i = 0 /\ b = 0 => x < 2048 /\ vw_rx_bits' < 1024
       /\ i = 0 /\ b = 1 => x < 1024 /\ vw_rx_bits' < 2560
  <2>1. code[1] = 42
    <3>1. code[1] = Header[1]
      BY <1>3 DEF CodeOf
    <3> QED
      BY <3>1, HeaderHolds
  <2>2. Bit(42, 0) = 0 /\ Bit(42, 1) = 1
    BY DEF Bit
  <2>3. CASE i = 0 /\ b = 0
    <3>1. x < 2048 /\ Bit(code[i + 1], b) = 0
      BY <1>9, <2>1, <2>2, <2>3 DEF SentRight
    <3>2. vw_rx_bits' = x \div 2
      BY <1>10, <3>1 DEF Shifted, Shift
    <3> QED
      BY <1>10, <2>3, <3>1, <3>2
  <2>4. CASE i = 0 /\ b = 1
    <3>1. x < 1024 /\ Bit(code[i + 1], b) = 1
      BY <1>9, <2>1, <2>2, <2>4 DEF SentRight
    <3>2. vw_rx_bits' = x \div 2 + 2048
      BY <1>10, <3>1 DEF Shifted, Shift
    <3> QED
      BY <1>10, <2>4, <3>1, <3>2
  <2> QED
    BY <2>3, <2>4
<1>12. /\ ~(vw_tx_index' = 0 /\ vw_tx_bit' = 0)
       /\ vw_tx_index' = 0 /\ vw_tx_bit' = 1 => vw_rx_bits' < 1024
  BY <1>8, <1>9, <1>11
<1>13. CASE vw_rx_bits' # START
  <2>1. Idles /\ vw_rx_active' = vw_rx_active
    BY <1>4, <1>13 DEF vw_pll, Idles
  <2>2. ~(vw_tx_index' >= 8)
    BY <1>4, <1>6, <2>1 DEF Tracked, InFrame
  <2> QED
    BY <1>1, <1>4, <1>5, <1>7, <1>8, <1>12, <2>1, <2>2 DEF SentRight
<1>14. CASE vw_rx_bits' = START
  <2>1. Shifted(code, i, b, x) = START /\ i < 8
    BY <1>9, <1>10, <1>14
  <2>2. (i = 0 /\ b = 1) \/ (i = 7 /\ b = 5)
    BY <1>3, <1>10, <2>1, NoFalseStart
  <2>3. i = 7 /\ b = 5
    BY <1>11, <1>14, <2>2 DEF START
  <2>4. vw_tx_index' = 8
    BY <1>8, <1>9, <2>3
  <2>5. StartSymbol
    BY <1>4, <1>14 DEF vw_pll
  <2>6. Starts /\ vw_rx_len' = 0
    <3>1. vw_rx_active' = TRUE
      BY <2>5 DEF StartSymbol
    <3> QED
      BY <1>4, <2>5, <3>1 DEF StartSymbol, Starts
  <2>7. Right(vw_rx_buf, Frame(Messages[n]), vw_rx_len)'
    BY <2>6 DEF Right
  <2> QED
    BY <1>1, <1>5, <1>7, <1>8, <2>4, <2>6, <2>7 DEF SentRight
<1> QED
  BY <1>13, <1>14

\* A bit of the frame.
LEMMA FrameGoesOut ==
    ASSUME Types, IInv, NEW n, SentRight(n), Transmit, vw_pll(Air),
           vw_tx_index >= 8
    PROVE  /\ vw_tx_enabled' = TRUE
           /\ \/ SentRight(n)' /\ GoesOn
              \/ ~Sending' /\ Completes(n)
<1>1. n \in 1..Len(Messages) /\ heard = n - 1 /\ n \in Int
  BY LengthAssumption, LenProperties DEF SentRight
<1>2. PICK code, frame : code = Coded[n] /\ frame = Frame(Messages[n])
  OBVIOUS
<1>3. PICK l \in Nat : /\ l = Size(n)
                       /\ CodeOf(code, frame, l) /\ IsFrame(frame, l)
  BY <1>1, <1>2, CodeHolds
<1>4. Tracked(code, l) /\ vw_rx_active /\ Right(vw_rx_buf, frame, vw_rx_len)
  BY <1>2, <1>3 DEF SentRight, Tracked, InFrame
<1>5. \/ Tracked(code, l)' /\ heard' = heard
      \/ /\ ~Sending' /\ heard' = heard + 1
         /\ vw_rx_active' = FALSE /\ vw_rx_done' = TRUE
         /\ vw_rx_len' = l
  <2>1. vw_tx_index \in Nat
    BY <1>3, <1>4, TransmitBit
  <2>2. ~(vw_rx_active /\ vw_tx_index < 8)
    BY <2>1
  <2> QED
    BY <1>3, <1>4, <2>2, TrackStep
<1>6. /\ vw_tx_enabled' = TRUE
      /\ vw_tx_index \in Nat /\ vw_tx_bit \in 0..5
      /\ \/ vw_tx_bit = 5 /\ vw_tx_bit' = 0 /\ vw_tx_index' = vw_tx_index + 1
         \/ /\ vw_tx_bit \in 0..4 /\ vw_tx_bit' = vw_tx_bit + 1
            /\ vw_tx_index' = vw_tx_index
  BY <1>3, <1>4, TransmitBit
<1>7. vw_tx_index' >= 8 /\ ~(vw_tx_index' < 8) /\ ~(vw_tx_index' = 0)
  BY <1>6
<1>8. /\ Right(vw_rx_buf, frame, vw_rx_len)' /\ missed' = missed
      /\ heard' = heard => vw_rx_done' = vw_rx_done
  <2>1. CASE vw_rx_bit_count < 11
    <3>1. missed' = missed /\ UNCHANGED <<vw_rx_buf, vw_rx_len, vw_rx_done>>
      BY <1>4, <2>1, BitOfByte
    <3> QED
      BY <1>4, <3>1 DEF Right
  <2>2. CASE ~(vw_rx_bit_count < 11)
    <3>1. vw_rx_bit_count = 11
      BY <1>4, <2>2 DEF IInv, Collecting
    <3>2. /\ vw_rx_len \in Nat /\ vw_rx_len < l
          /\ Store(frame[vw_rx_len + 1]) /\ missed' = missed
      BY <1>3, <1>4, <3>1, FrameByte
    <3>3. PICK j \in Nat : j = vw_rx_len
      BY <3>2
    <3>4. /\ vw_rx_buf' = [vw_rx_buf EXCEPT ![j + 1] = frame[j + 1]]
          /\ vw_rx_len' = j + 1
      BY <3>2, <3>3 DEF Store
    <3>5. PICK v \in Nat : v = VW_MAX_MESSAGE_LEN /\ j + 1 <= v
      BY <1>3, <3>2, <3>3, LengthAssumption DEF IsFrame
    <3>6. vw_rx_buf \in [1..v -> Bytes]
      BY <3>5 DEF Types, TypeOK
    <3>7. ASSUME NEW k \in 1..(j + 1) PROVE vw_rx_buf'[k] = frame[k]
      <4>1. k \in 1..v
        BY <3>5
      <4>2. CASE k = j + 1
        BY <3>4, <3>6, <4>1, <4>2
      <4>3. CASE k # j + 1
        <5>1. k \in 1..j
          BY <4>3
        <5>2. vw_rx_buf'[k] = vw_rx_buf[k]
          BY <3>4, <3>6, <4>1, <4>3
        <5> QED
          BY <1>4, <3>3, <5>1, <5>2 DEF Right
      <4> QED
        BY <4>2, <4>3
    <3>8. Right(vw_rx_buf, frame, vw_rx_len)'
      BY <3>4, <3>7 DEF Right
    <3>9. heard' = heard => vw_rx_done' = vw_rx_done
      <4>1. heard' = heard + 1 \/ vw_rx_done' = vw_rx_done
        BY <3>2 DEF Store
      <4> QED
        BY <1>1, <4>1
    <3> QED
      BY <3>2, <3>8, <3>9
  <2> QED
    BY <2>1, <2>2
<1>9. Right(vw_rx_buf, Frame(Messages[n]), vw_rx_len)'
  BY <1>2, <1>8
<1>10. CASE Tracked(code, l)' /\ heard' = heard
  <2>1. Tracked(Coded[n], Size(n))'
    BY <1>2, <1>3, <1>10
  <2>2. vw_rx_active'
    BY <1>7, <1>10 DEF Tracked, InFrame
  <2>3. SentRight(n)'
    BY <1>1, <1>7, <1>9, <1>10, <2>1 DEF SentRight
  <2>4. GoesOn
    BY <1>4, <1>8, <1>10, <2>2 DEF GoesOn
  <2> QED
    BY <1>6, <2>3, <2>4
<1>11. CASE /\ ~Sending' /\ heard' = heard + 1
            /\ vw_rx_active' = FALSE /\ vw_rx_done' = TRUE
            /\ vw_rx_len' = l
  <2>1. heard' = n
    BY <1>1, <1>11
  <2>2. Right(vw_rx_buf', Frame(Messages[n]), vw_rx_len')
    BY <1>9
  <2>3. Completes(n)
    BY <1>1, <1>3, <1>4, <1>8, <1>11, <2>1, <2>2 DEF Completes
  <2> QED
    BY <1>6, <1>11, <2>3
<1> QED
  BY <1>5, <1>10, <1>11


\* A bit period without a fault.
LEMMA BitFollows ==
    ASSUME Types, IInv, Following, Transmit, vw_pll(Air)
    PROVE  /\ Following'
           /\ \/ Idles \/ Starts \/ GoesOn
              \/ \E n \in 1..Len(Messages) : Completes(n)
<1>1. CASE ~Sending
  BY <1>1, SilenceIsIdle
<1>2. CASE Sending
  <2>1. PICK n : n = nsent
    OBVIOUS
  <2>2. SentRight(n) /\ nsent' = n
    BY <1>2, <2>1 DEF Following, Transmit
  <2>3. n \in 1..Len(Messages) /\ n \in Int /\ heard = n - 1
    BY <2>2, LengthAssumption, LenProperties DEF SentRight
  <2>4. vw_tx_index < 8 \/ vw_tx_index >= 8
    <3>1. Len(vw_tx_buf) \in Nat
      BY DEF Types
    <3> QED
      BY <3>1 DEF Types, TypeOK
  <2>5. vw_tx_enabled' = TRUE
    <3>1. CASE vw_tx_index < 8
      BY <2>2, <3>1, HeaderGoesOut
    <3>2. CASE vw_tx_index >= 8
      BY <2>2, <3>2, FrameGoesOut
    <3> QED
      BY <2>4, <3>1, <3>2
  <2>6. SentRight(n)' => Sending'
    <3>1. PICK code, frame : code = Coded[n] /\ frame = Frame(Messages[n])
      OBVIOUS
    <3>2. PICK l \in Nat : l = Size(n) /\ CodeOf(code, frame, l)
      BY <2>3, <3>1, CodeHolds
    <3>3. SentRight(n)' => Tracked(code, l)'
      BY <3>1, <3>2 DEF SentRight
    <3>4. Tracked(code, l)' => Sending'
      BY <3>2 DEF Tracked, Sending, CodeOf
    <3> QED
      BY <3>3, <3>4
  <2>7. ASSUME SentRight(n)' PROVE Following'
    BY <2>2, <2>5, <2>6, <2>7 DEF Following
  <2>8. CASE vw_tx_index < 8
    BY <2>2, <2>7, <2>8, HeaderGoesOut
  <2>9. CASE vw_tx_index >= 8
    <3>1. (SentRight(n)' /\ GoesOn) \/ (~Sending' /\ Completes(n))
      BY <2>2, <2>9, FrameGoesOut
    <3>2. ASSUME ~Sending', Completes(n) PROVE Following'
      BY <2>2, <2>5, <3>2 DEF Following, Completes
    <3> QED
      BY <2>3, <2>7, <3>1, <3>2
  <2> QED
    BY <2>4, <2>8, <2>9
<1> QED
  BY <1>1, <1>2

-----------------------------------------------------------------------------
\* vw_get_message and the interrupt.  A start symbol comes in the one bit
\* period that a fetch lasts, if at all, and has then emptied the buffer;
\* without one the fetch has what was heard last.
Whole(n) ==
    /\ n \in 1..Len(Messages) /\ vw_rx_len = Size(n)
    /\ Right(vw_rx_buf, Frame(Messages[n]), vw_rx_len)

Fetching ==
    /\ slow = 0 => ~vw_rx_active
    /\ vw_rx_active => vw_rx_len = 0
    /\ pc = "check" => ~vw_rx_done
    /\ ~vw_rx_active /\ pc \in {"copy", "clear", "check"} =>
           rxlen = Len(Messages[heard])
    /\ ~vw_rx_active /\ pc \in {"clear", "check"} => copy = Messages[heard]

Fetched ==
    /\ vw_rx_done => ~vw_rx_active
    /\ Waiting => Whole(heard)
    /\ pc # "away" => Fetching

\* What is returned, missed or waiting adds up to what was heard, and what is
\* returned are messages in their order.
Balanced ==
    /\ received \in Seq(Seq(Bytes)) /\ missed \in Nat
    /\ Len(received) + missed + (IF Waiting THEN 1 ELSE 0) = heard

Picks(f, r, h) ==
    /\ f \in [1..Len(r) -> 1..h]
    /\ \A i, j \in 1..Len(r) : i < j => f[i] < f[j]
    /\ \A i \in 1..Len(r) : r[i] = Messages[f[i]]

Ordered ==
    \E f : /\ Picks(f, received, heard)
           /\ Waiting => \A i \in 1..Len(received) : f[i] < heard

LEMMA BitIsFetched ==
    ASSUME Types, Fetched, Balanced, Counted, InTime, Passes, UNCHANGED fetch,
           \/ Idles \/ Starts \/ GoesOn
           \/ \E n \in 1..Len(Messages) : Completes(n)
    PROVE  Fetched' /\ Balanced'
<1>1. UNCHANGED <<pc, rxlen, copy, received>>
  BY DEF fetch
<1>2. pc # "away" => slow = 0 /\ slow' = 1 /\ ~vw_rx_active
  BY DEF InTime, Passes, Fetched, Fetching
<1>3. vw_rx_done => ~vw_rx_active
  BY DEF Fetched
<1>4. /\ received \in Seq(Seq(Bytes)) /\ missed \in Nat /\ heard \in Nat
      /\ Len(received) \in Nat
      /\ Len(received) + missed + (IF Waiting THEN 1 ELSE 0) = heard
  BY LenProperties DEF Balanced, Counted
<1>5. CASE Idles
  <2>1. /\ ~vw_rx_active /\ ~vw_rx_active'
        /\ UNCHANGED <<vw_rx_buf, vw_rx_len, vw_rx_done, heard, missed>>
    BY <1>5 DEF Idles
  <2>2. Waiting' = Waiting
    BY <1>1, <2>1 DEF Waiting
  <2>3. Waiting' => Whole(heard)'
    BY <2>1, <2>2 DEF Fetched, Whole
  <2>4. pc' # "away" => Fetching'
    BY <1>1, <2>1 DEF Fetched, Fetching
  <2>5. Fetched'
    BY <2>1, <2>3, <2>4 DEF Fetched
  <2>6. Balanced'
    BY <1>1, <1>4, <2>1, <2>2 DEF Balanced
  <2> QED
    BY <2>5, <2>6
<1>6. CASE Starts
  <2>1. /\ ~vw_rx_active /\ vw_rx_active' /\ vw_rx_len' = 0
        /\ vw_rx_done' = FALSE /\ heard' = heard
        /\ missed' = IF vw_rx_done \/ pc # "away" THEN missed + 1 ELSE missed
    BY <1>6 DEF Starts
  <2>2. ~Waiting'
    BY <2>1 DEF Waiting
  <2>3. pc' # "away" => Fetching'
    BY <1>1, <1>2, <2>1 DEF Fetching
  <2>4. Fetched'
    BY <2>1, <2>2, <2>3 DEF Fetched
  <2>5. Len(received) + missed' = heard /\ missed' \in Nat
    <3>1. CASE vw_rx_done \/ pc # "away"
      <4>1. Waiting
        BY <2>1, <3>1 DEF Waiting
      <4> QED
        BY <1>4, <2>1, <3>1, <4>1
    <3>2. CASE ~(vw_rx_done \/ pc # "away")
      <4>1. ~Waiting
        BY <3>2 DEF Waiting
      <4> QED
        BY <1>4, <2>1, <3>2, <4>1
    <3> QED
      BY <3>1, <3>2
  <2>6. Balanced'
    BY <1>1, <1>4, <2>1, <2>2, <2>5 DEF Balanced
  <2> QED
    BY <2>4, <2>6
<1>7. CASE GoesOn
  <2>1. /\ vw_rx_active /\ vw_rx_active'
        /\ UNCHANGED <<vw_rx_done, heard, missed>>
    BY <1>7 DEF GoesOn
  <2>2. ~Waiting /\ ~Waiting' /\ ~vw_rx_done' /\ pc' = "away"
    BY <1>1, <1>2, <1>3, <2>1 DEF Waiting
  <2>3. Fetched'
    BY <2>2 DEF Fetched
  <2>4. Balanced'
    BY <1>1, <1>4, <2>1, <2>2 DEF Balanced
  <2> QED
    BY <2>3, <2>4
<1>8. ASSUME NEW n \in 1..Len(Messages), Completes(n)
      PROVE  Fetched' /\ Balanced'
  <2>1. /\ vw_rx_active /\ ~vw_rx_active' /\ missed' = missed
        /\ heard = n - 1 /\ heard' = n /\ vw_rx_len' = Size(n)
        /\ Right(vw_rx_buf', Frame(Messages[n]), vw_rx_len')
        /\ vw_rx_done'
    BY <1>8 DEF Completes
  <2>2. ~Waiting /\ Waiting' /\ pc' = "away"
    BY <1>1, <1>2, <2>1 DEF Waiting
  <2>3. Whole(n)'
    BY <2>1 DEF Whole
  <2>4. Whole(heard)'
    BY <2>1, <2>3 DEF Whole
  <2>5. Fetched'
    BY <2>1, <2>2, <2>4 DEF Fetched
  <2>6. Balanced'
    BY <1>1, <1>4, <2>1, <2>2 DEF Balanced
  <2> QED
    BY <2>5, <2>6
<1> QED
  BY <1>5, <1>6, <1>7, <1>8


\* A part of a sequence, by what it holds.
LEMMA PartIs ==
    ASSUME NEW S, NEW s, NEW t \in Seq(S), NEW m \in Nat, NEW n \in Nat,
           NEW k \in Nat, Len(t) = k, n = m + k - 1,
           \A i \in 1..k : s[m + i - 1] = t[i]
    PROVE  SubSeq(s, m, n) = t
<1>1. ASSUME NEW i \in m..n PROVE s[i] \in S
  <2>1. PICK j \in 1..k : i = m + j - 1
    <3>1. i - m + 1 \in 1..k /\ i = m + (i - m + 1) - 1
      OBVIOUS
    <3> QED
      BY <3>1
  <2>2. t[j] \in S
    BY ElementOfSeq
  <2> QED
    BY <2>1, <2>2
<1>2. PICK u : u = SubSeq(s, m, n)
  OBVIOUS
<1>3. /\ u \in Seq(S) /\ Len(u) = IF m <= n THEN n - m + 1 ELSE 0
      /\ \A i \in 1..(n - m + 1) : u[i] = s[m + i - 1]
  <2>1. m \in Int /\ n \in Int
    OBVIOUS
  <2> QED
    BY <1>1, <1>2, <2>1, SubSeqProperties
<1>4. n - m + 1 = k
  OBVIOUS
<1>5. Len(u) = k /\ \A i \in 1..k : u[i] = t[i]
  <2>1. \A i \in 1..k : u[i] = t[i]
    BY <1>3, <1>4
  <2>2. CASE k = 0
    BY <1>3, <1>4, <2>2
  <2>3. CASE k # 0
    <3>1. m <= n
      BY <2>3
    <3> QED
      BY <1>3, <1>4, <3>1
  <2> QED
    BY <2>1, <2>2, <2>3
<1>6. Len(u) = Len(t) /\ \A i \in 1..Len(u) : u[i] = t[i]
  BY <1>5
<1>7. u = t
  BY <1>3, <1>6, SeqEqual
<1> QED
  BY <1>2, <1>7

\* What the fetch reads from a buffer that holds a frame.
LEMMA FrameIsRead ==
    ASSUME NEW n \in 1..Len(Messages), Types, Whole(n)
    PROVE  /\ (vw_rx_len - 3) % 256 = Len(Messages[n])
           /\ Len(Messages[n]) < VW_MAX_MESSAGE_LEN
           /\ SubSeq(vw_rx_buf \o <<0>>, 2, 1 + Len(Messages[n])) = Messages[n]
           /\ vw_crc(SubSeq(vw_rx_buf, 1, vw_rx_len)) = GOOD
<1>1. PICK l \in Nat : /\ Len(Messages[n]) = l
                       /\ l + 3 \in 4..VW_MAX_MESSAGE_LEN
                       /\ Messages[n] \in Seq(Bytes)
                       /\ Frame(Messages[n]) \in Seq(Bytes)
                       /\ Len(Frame(Messages[n])) = l + 3
                       /\ \A k \in 1..l :
                             Frame(Messages[n])[k + 1] = Messages[n][k]
                       /\ vw_crc(Frame(Messages[n])) = GOOD
  BY FrameHolds
<1>2. PICK m, frame : m = Messages[n] /\ frame = Frame(Messages[n])
  OBVIOUS
<1>3. PICK v \in Nat : v = VW_MAX_MESSAGE_LEN /\ v <= 255
  BY LengthAssumption
<1>4. /\ Len(m) = l /\ l + 3 <= v /\ l >= 1 /\ m \in Seq(Bytes)
      /\ frame \in Seq(Bytes) /\ Len(frame) = l + 3
      /\ \A k \in 1..l : frame[k + 1] = m[k]
      /\ vw_crc(frame) = GOOD
  BY <1>1, <1>2, <1>3
<1>5. vw_rx_len = l + 3 /\ \A k \in 1..(l + 3) : vw_rx_buf[k] = frame[k]
  BY <1>2, <1>4 DEF Whole, Size, Right
<1>6. vw_rx_buf \in Seq(Bytes) /\ Len(vw_rx_buf) = v
  <2>1. vw_rx_buf \in [1..v -> Bytes]
    BY <1>3 DEF Types, TypeOK
  <2> QED
    BY <2>1
<1>7. (vw_rx_len - 3) % 256 = l
  BY <1>3, <1>4, <1>5
<1>8. SubSeq(vw_rx_buf, 1, vw_rx_len) = frame
  <2>1. PICK p \in Nat, k \in Nat : p = 1 /\ k = l + 3 /\ k = p + k - 1
    OBVIOUS
  <2>2. \A i \in 1..k : p + i - 1 = i
    BY <2>1
  <2>3. \A i \in 1..k : vw_rx_buf[p + i - 1] = frame[i]
    BY <1>5, <2>1, <2>2
  <2>4. SubSeq(vw_rx_buf, p, k) = frame
    BY <1>4, <2>1, <2>3, PartIs
  <2> QED
    BY <1>5, <2>1, <2>4
<1>9. SubSeq(vw_rx_buf \o <<0>>, 2, 1 + l) = m
  <2>0. PICK x \in Nat : x = 1
    OBVIOUS
  <2>1. PICK one : one = <<0>>
    OBVIOUS
  <2>2. one \in Seq(Bytes) /\ Len(one) = x
    <3>1. 0 \in Bytes
      BY DEF Bytes
    <3> QED
      BY <2>0, <2>1, <3>1
  <2>3. Row(vw_rx_buf \o one, Bytes, vw_rx_buf, one, v, x)
    BY <1>6, <2>2, Joined
  <2>4. PICK all : all = vw_rx_buf \o one
    OBVIOUS
  <2>5. \A i \in 1..v : all[i] = vw_rx_buf[i]
    BY <2>3, <2>4 DEF Row
  <2>6. PICK p \in Nat, q \in Nat : p = 2 /\ q = 1 + l /\ q = p + l - 1
    OBVIOUS
  <2>7. ASSUME NEW i \in 1..l PROVE all[p + i - 1] = m[i]
    <3>1. i + 1 \in 1..v /\ i + 1 \in 1..(l + 3) /\ p + i - 1 = i + 1
      BY <1>4, <2>6
    <3>2. all[i + 1] = vw_rx_buf[i + 1]
      BY <2>5, <3>1
    <3>3. vw_rx_buf[i + 1] = frame[i + 1]
      BY <1>5, <3>1
    <3>4. frame[i + 1] = m[i]
      BY <1>4
    <3> QED
      BY <3>1, <3>2, <3>3, <3>4
  <2>8. SubSeq(all, p, q) = m
    BY <1>4, <2>6, <2>7, PartIs
  <2> QED
    BY <2>1, <2>4, <2>6, <2>8
<1>10. /\ (vw_rx_len - 3) % 256 = Len(m) /\ Len(m) < VW_MAX_MESSAGE_LEN
       /\ SubSeq(vw_rx_buf \o <<0>>, 2, 1 + Len(m)) = m
  <2>1. Len(m) = l
    BY <1>4
  <2>2. SubSeq(vw_rx_buf \o <<0>>, 2, 1 + Len(m)) = m
    BY <1>9, <2>1, Zenon
  <2>3. l < v
    BY <1>4
  <2>4. (vw_rx_len - 3) % 256 = Len(m)
    BY <1>7, <2>1
  <2>5. Len(m) < VW_MAX_MESSAGE_LEN
    BY <1>3, <2>1, <2>3
  <2> QED
    BY <2>2, <2>4, <2>5
<1>11. vw_crc(SubSeq(vw_rx_buf, 1, vw_rx_len)) = GOOD
  BY <1>4, <1>8
<1> QED
  BY <1>2, <1>10, <1>11

LEMMA NothingIsNotGood ==
    ASSUME vw_rx_len = 0
    PROVE  vw_crc(SubSeq(vw_rx_buf, 1, vw_rx_len)) # GOOD
<1>1. PICK bytes : bytes = SubSeq(vw_rx_buf, 1, 0)
  OBVIOUS
<1>2. bytes = <<>>
  BY <1>1, SubSeqEmpty
<1>3. PICK l \in Nat, first \in Nat : l = 0 /\ first = 65535
  OBVIOUS
<1>4. Len(bytes) = l
  BY <1>2, <1>3
<1>5. PICK g : Checks(g, l, first, bytes) /\ vw_crc(bytes) = g[l]
  BY <1>3, <1>4, CheckOf
<1>6. g[0] = first
  BY <1>5, ChecksByOne
<1>7. vw_crc(bytes) = 65535
  BY <1>3, <1>5, <1>6
<1>8. vw_crc(bytes) # GOOD
  BY <1>7 DEF GOOD
<1> QED
  BY <1>1, <1>8


\* A step of vw_get_message before the last.
LEMMA FetchStays ==
    ASSUME Fetched, Balanced, pc' # "away",
           UNCHANGED <<vw_rx_buf, vw_rx_len, vw_rx_active, heard, missed,
                       received>>,
           vw_rx_done' => vw_rx_done, Waiting' = Waiting, Fetching'
    PROVE  Fetched' /\ Balanced'
<1>1. Waiting' => Whole(heard)'
  BY DEF Fetched, Whole
<1>2. vw_rx_done' => ~vw_rx_active'
  BY DEF Fetched
<1> QED
  BY <1>1, <1>2 DEF Fetched, Balanced

\* The last step returns what was heard last or, after a start symbol, nothing.
LEMMA CheckReturns ==
    ASSUME Types, Fetched, Check
    PROVE  /\ pc = "check" /\ pc' = "away" /\ ~vw_rx_done' /\ ~Waiting'
           /\ \/ ~Waiting /\ received' = received
              \/ /\ Waiting /\ heard \in 1..Len(Messages)
                 /\ received' = Append(received, Messages[heard])
<1>1. /\ pc = "check" /\ pc' = "away" /\ vw_rx_done' = vw_rx_done
      /\ received' = IF vw_crc(SubSeq(vw_rx_buf, 1, vw_rx_len)) = GOOD
                     THEN Append(received, copy) ELSE received
  BY DEF Check, CheckIf, decoder
<1>2. Fetching /\ ~vw_rx_done
  BY <1>1 DEF Fetched, Fetching
<1>3. ~Waiting' /\ ~vw_rx_done'
  BY <1>1, <1>2 DEF Waiting
<1>4. CASE vw_rx_active
  <2>1. received' = received
    BY <1>1, <1>2, <1>4, NothingIsNotGood DEF Fetching
  <2>2. ~Waiting
    BY <1>4 DEF Waiting
  <2> QED
    BY <1>1, <1>3, <2>1, <2>2
<1>5. CASE ~vw_rx_active
  <2>1. Waiting /\ Whole(heard)
    BY <1>1, <1>5 DEF Fetched, Waiting
  <2>2. PICK n \in 1..Len(Messages) : n = heard
    BY <2>1 DEF Whole
  <2>3. copy = Messages[n]
    BY <1>1, <1>2, <1>5, <2>2 DEF Fetching
  <2>4. received' = Append(received, copy)
    BY <1>1, <2>1, <2>2, FrameIsRead
  <2> QED
    BY <1>1, <1>3, <2>1, <2>2, <2>3, <2>4
<1> QED
  BY <1>4, <1>5

LEMMA FetchIsFetched ==
    ASSUME Types, Counted, Fetched, Balanced, vw_get_message
    PROVE  Fetched' /\ Balanced'
<1>0. UNCHANGED <<vw_rx_buf, vw_rx_len, vw_rx_active, heard, missed>>
  BY FetchDisturbsNot
<1>1. CASE Test
  <2>1. /\ pc = "away" /\ vw_rx_done /\ pc' = "length" /\ slow' = 0
        /\ vw_rx_done' = vw_rx_done /\ received' = received
    BY <1>1 DEF Test, decoder
  <2>2. ~vw_rx_active
    BY <2>1 DEF Fetched
  <2>3. Waiting' = Waiting
    BY <1>0, <2>1 DEF Waiting
  <2>4. Fetching'
    BY <1>0, <2>1, <2>2 DEF Fetching
  <2> QED
    BY <1>0, <2>1, <2>3, <2>4, FetchStays
<1>2. CASE Length
  <2>1. /\ pc = "length" /\ pc' = "copy" /\ slow' = slow
        /\ rxlen' = (vw_rx_len - 3) % 256
        /\ vw_rx_done' = vw_rx_done /\ received' = received
    BY <1>2 DEF Length, decoder
  <2>2. Fetching
    BY <2>1 DEF Fetched
  <2>3. Waiting' = Waiting
    BY <1>0, <2>1 DEF Waiting
  <2>4. ASSUME ~vw_rx_active PROVE rxlen' = Len(Messages[heard])
    <3>1. Whole(heard)
      BY <2>1, <2>4 DEF Fetched, Waiting
    <3>2. heard \in 1..Len(Messages)
      BY <3>1 DEF Whole
    <3> QED
      BY <2>1, <3>1, <3>2, FrameIsRead
  <2>5. Fetching'
    BY <1>0, <2>1, <2>2, <2>4 DEF Fetching
  <2> QED
    BY <1>0, <2>1, <2>3, <2>5, FetchStays
<1>3. CASE Copy
  <2>1. /\ pc = "copy" /\ pc' = "clear" /\ slow' = slow /\ rxlen' = rxlen
        /\ copy' = SubSeq(vw_rx_buf \o <<0>>, 2,
                          1 + (IF rxlen < VW_MAX_MESSAGE_LEN THEN rxlen
                               ELSE VW_MAX_MESSAGE_LEN))
        /\ vw_rx_done' = vw_rx_done /\ received' = received
    BY <1>3 DEF Copy, decoder
  <2>2. Fetching
    BY <2>1 DEF Fetched
  <2>3. Waiting' = Waiting
    BY <1>0, <2>1 DEF Waiting
  <2>4. ASSUME ~vw_rx_active
        PROVE  rxlen = Len(Messages[heard]) /\ copy' = Messages[heard]
    <3>1. Whole(heard)
      BY <2>1, <2>4 DEF Fetched, Waiting
    <3>2. PICK n \in 1..Len(Messages) : n = heard
      BY <3>1 DEF Whole
    <3>3. rxlen = Len(Messages[n])
      BY <2>1, <2>2, <2>4, <3>2 DEF Fetching
    <3>4. /\ Len(Messages[n]) < VW_MAX_MESSAGE_LEN
          /\ SubSeq(vw_rx_buf \o <<0>>, 2, 1 + Len(Messages[n])) = Messages[n]
      BY <3>1, <3>2, FrameIsRead
    <3>5. copy' = SubSeq(vw_rx_buf \o <<0>>, 2, 1 + rxlen)
      BY <2>1, <3>3, <3>4, Zenon
    <3>6. copy' = Messages[n]
      BY <3>3, <3>4, <3>5, Zenon
    <3> QED
      BY <3>2, <3>3, <3>6
  <2>5. Fetching'
    BY <1>0, <2>1, <2>2, <2>4 DEF Fetching
  <2> QED
    BY <1>0, <2>1, <2>3, <2>5, FetchStays
<1>4. CASE Clear
  <2>1. /\ pc = "clear" /\ pc' = "check" /\ slow' = slow /\ rxlen' = rxlen
        /\ copy' = copy /\ vw_rx_done' = FALSE /\ received' = received
    BY <1>4 DEF Clear
  <2>2. Fetching
    BY <2>1 DEF Fetched
  <2>3. Waiting' = Waiting
    BY <1>0, <2>1 DEF Waiting
  <2>4. Fetching'
    BY <1>0, <2>1, <2>2 DEF Fetching
  <2> QED
    BY <1>0, <2>1, <2>3, <2>4, FetchStays
<1>5. CASE Check
  <2>1. /\ pc' = "away" /\ ~vw_rx_done' /\ ~Waiting'
        /\ \/ ~Waiting /\ received' = received
           \/ /\ Waiting /\ heard \in 1..Len(Messages)
              /\ received' = Append(received, Messages[heard])
    BY <1>5, CheckReturns
  <2>2. Fetched'
    BY <2>1 DEF Fetched
  <2>3. /\ received \in Seq(Seq(Bytes)) /\ missed \in Nat /\ heard \in Nat
        /\ Len(received) \in Nat
        /\ Len(received) + missed + (IF Waiting THEN 1 ELSE 0) = heard
    BY LenProperties DEF Balanced, Counted
  <2>4. CASE ~Waiting /\ received' = received
    <3>1. Balanced'
      BY <1>0, <2>1, <2>3, <2>4 DEF Balanced
    <3> QED
      BY <2>2, <3>1
  <2>5. CASE /\ Waiting /\ heard \in 1..Len(Messages)
             /\ received' = Append(received, Messages[heard])
    <3>1. PICK m : m = Messages[heard] /\ m \in Seq(Bytes)
      BY <2>5, FrameHolds
    <3>2. received' \in Seq(Seq(Bytes)) /\ Len(received') = Len(received) + 1
      BY <2>3, <2>5, <3>1, AppendProperties
    <3>3. Balanced'
      BY <1>0, <2>1, <2>3, <2>5, <3>2 DEF Balanced
    <3> QED
      BY <2>2, <3>3
  <2> QED
    BY <2>1, <2>4, <2>5
<1> QED
  BY <1>1, <1>2, <1>3, <1>4, <1>5 DEF vw_get_message


\* All of it, as long as no fault has come.
Calm == Following /\ Fetched /\ Balanced

Faultless == faults = 0 => Calm

FollowingOf ==
    <<nsent, vw_tx_buf, vw_tx_index, vw_tx_bit, vw_tx_enabled, vw_rx_bits,
      vw_rx_bit_count, vw_rx_active, vw_rx_buf, vw_rx_count, vw_rx_len, heard>>

LEMMA FollowingStays ==
    ASSUME Following, UNCHANGED FollowingOf PROVE Following'
  BY DEF Following, FollowingOf, Sending, SentRight, Tracked, InHeader, InFrame,
         Right

LEMMA SendFollows ==
    ASSUME Types, Following, vw_send PROVE Following'
<1>1. ~Sending /\ ~vw_tx_enabled
  BY DEF vw_send, Sending
<1>2. ~vw_rx_active /\ heard = nsent /\ vw_rx_bits < 2048
  BY <1>1 DEF Following
<1>3. PICK n \in 1..Len(Messages) : \E code, l :
          /\ nsent' = n /\ n = nsent + 1 /\ code = Coded[n] /\ l = Size(n)
          /\ Tracked(code, l)'
  BY <1>2, SentIsTracked
<1>4. Tracked(Coded[n], Size(n))'
  BY <1>3
<1>5. /\ vw_tx_index' = 0 /\ vw_tx_bit' = 0 /\ vw_tx_enabled' = TRUE
      /\ UNCHANGED <<vw_rx_bits, vw_rx_active, heard>>
  BY DEF vw_send, decoder
<1>6. heard' = n - 1
  <2>1. nsent \in Int
    BY LengthAssumption, LenProperties DEF Types, TypeOK
  <2> QED
    BY <1>2, <1>3, <1>5, <2>1
<1>7. SentRight(n)'
  BY <1>2, <1>4, <1>5, <1>6 DEF SentRight
<1>8. Sending'
  <2>1. PICK code, frame : code = Coded[n] /\ frame = Frame(Messages[n])
    OBVIOUS
  <2>2. PICK l \in Nat : l = Size(n) /\ CodeOf(code, frame, l)
    BY <2>1, CodeHolds
  <2>3. Tracked(code, l)'
    BY <1>4, <2>1, <2>2
  <2> QED
    BY <2>2, <2>3 DEF Tracked, Sending, CodeOf
<1> QED
  BY <1>3, <1>5, <1>7, <1>8 DEF Following

LEMMA StepKeepsCalm ==
    ASSUME Types, IInv, Counted, Faultless, [Next]_vars PROVE Faultless'
<1> SUFFICES faults' = 0 => Calm'
  BY DEF Faultless
<1>0. faults = 0 => Calm
  BY DEF Faultless
<1>1. CASE Fault
  <2>1. faults \in Nat /\ faults' = faults + 1
    BY <1>1, LengthAssumption DEF Types, TypeOK, Fault
  <2> QED
    BY <2>1
<1>2. CASE faults # 0 /\ faults' = faults
  BY <1>2
<1>3. CASE faults = 0 /\ vw_send
  <2>1. Following'
    BY <1>0, <1>3, SendFollows DEF Calm
  <2>2. UNCHANGED <<decoder, fetch, slow>>
    BY <1>3 DEF vw_send
  <2>3. Fetched' /\ Balanced'
    BY <1>0, <1>3, <2>2
    DEF Calm, decoder, fetch, Fetched, Balanced, Waiting, Whole, Fetching, Right
  <2> QED
    BY <2>1, <2>3 DEF Calm
<1>4. CASE faults = 0 /\ BitPeriod
  <2>1. Transmit /\ vw_pll(Air) /\ InTime /\ Passes /\ UNCHANGED fetch
    BY <1>4 DEF BitPeriod
  <2>2. Following /\ Fetched /\ Balanced
    BY <1>0, <1>4 DEF Calm
  <2>3. /\ Following'
        /\ \/ Idles \/ Starts \/ GoesOn
           \/ \E n \in 1..Len(Messages) : Completes(n)
    BY <2>1, <2>2, BitFollows
  <2>4. Fetched' /\ Balanced'
    BY <2>1, <2>2, <2>3, BitIsFetched
  <2> QED
    BY <2>3, <2>4 DEF Calm
<1>5. CASE faults = 0 /\ vw_get_message
  <2>1. Following'
    BY <1>0, <1>5, FetchDisturbsNot, FollowingStays DEF Calm, FollowingOf
  <2>2. Fetched' /\ Balanced'
    BY <1>0, <1>5, FetchIsFetched DEF Calm
  <2> QED
    BY <2>1, <2>2 DEF Calm
<1>6. CASE faults = 0 /\ UNCHANGED vars
  <2>1. Following'
    BY <1>0, <1>6, FollowingStays
    DEF Calm, FollowingOf, vars, transmitter, decoder
  <2>2. Fetched' /\ Balanced'
    BY <1>0, <1>6
    DEF Calm, vars, decoder, fetch, Fetched, Balanced, Waiting, Whole,
        Fetching, Right
  <2> QED
    BY <2>1, <2>2 DEF Calm
<1>7. Fault \/ faults' = faults
  BY FetchDisturbsNot DEF Next, vw_send, BitPeriod, vars
<1> QED
  BY <1>1, <1>2, <1>3, <1>4, <1>5, <1>6, <1>7 DEF Next

LEMMA InitIsCalm == ASSUME Init PROVE Counted /\ Calm
<1>1. /\ ~Sending /\ ~vw_rx_active /\ ~vw_tx_enabled /\ ~vw_rx_done
      /\ pc = "away"
  BY DEF Init, Sending
<1>2. ~Waiting
  BY <1>1 DEF Waiting
<1>3. Following
  BY <1>1 DEF Init, Following
<1>4. Fetched
  BY <1>1, <1>2 DEF Fetched
<1>5. Balanced
  <2>1. received = <<>> /\ missed = 0 /\ heard = 0
    BY DEF Init
  <2>2. received \in Seq(Seq(Bytes)) /\ Len(received) = 0
    BY <2>1, EmptySeq
  <2> QED
    BY <1>2, <2>1, <2>2 DEF Balanced
<1> QED
  BY <1>3, <1>4, <1>5 DEF Init, Counted, Calm

LEMMA StepKeepsCounted ==
    ASSUME Counted, [Next]_vars PROVE Counted'
<1>1. heard' \in Nat
  <2>1. CASE vw_get_message
    BY <2>1, FetchDisturbsNot DEF Counted
  <2>2. CASE vw_pll(Air) \/ vw_pll(1 - Air)
    BY <2>2, BitCounts
  <2>3. CASE heard' = heard
    BY <2>3 DEF Counted
  <2>4. \/ vw_get_message \/ vw_pll(Air) \/ vw_pll(1 - Air) \/ heard' = heard
    BY DEF Next, vw_send, BitPeriod, Fault, vars, decoder
  <2> QED
    BY <2>1, <2>2, <2>3, <2>4
<1>2. due' \in {due, 0, heard + 1}
  <2>1. CASE vw_get_message
    BY <2>1, FetchDisturbsNot
  <2> QED
    BY <2>1 DEF Next, vw_send, BitPeriod, Fault, vars
<1> QED
  BY <1>1, <1>2 DEF Counted

\* Without faults no message vanishes: what was heard has been returned, or
\* waits to be fetched, or its successor's start symbol came before the fetch
\* was done; and what was sent has been heard or is on the air.
THEOREM NothingVanishes == Spec => []NoneVanishes
<1>1. Init => Types /\ IInv /\ Counted /\ Faultless
  BY InitTypes, InitIsCalm DEF Init, IInv, Collecting, Faultless
<1>2. /\ Types /\ IInv /\ Counted /\ Faultless /\ [Next]_vars
      => Types' /\ IInv' /\ Counted' /\ Faultless'
  BY StepKeepsTypes, StepKeepsInvariant, StepKeepsCounted, StepKeepsCalm
<1>3. Faultless => NoneVanishes
  BY DEF Faultless, Calm, Balanced, NoneVanishes
<1> QED
  BY <1>1, <1>2, <1>3, PTL DEF Spec


-----------------------------------------------------------------------------
\* The promise.  Without faults the places in Messages of what was returned go
\* up, and stay below that of a message that waits.
LEMMA OrderedStays ==
    ASSUME Ordered, received' = received, heard' = heard, Waiting' => Waiting
    PROVE  Ordered'
<1>1. PICK f : /\ Picks(f, received, heard)
               /\ Waiting => \A i \in 1..Len(received) : f[i] < heard
  BY DEF Ordered
<1>2. Picks(f, received', heard')
  BY <1>1
<1>3. Waiting' => \A i \in 1..Len(received') : f[i] < heard'
  BY <1>1
<1> QED
  BY <1>2, <1>3 DEF Ordered

LEMMA OrderedHears ==
    ASSUME Ordered, NEW n \in Nat, heard = n - 1, heard' = n,
           received' = received
    PROVE  Ordered'
<1>1. PICK f : Picks(f, received, heard)
  BY DEF Ordered
<1>2. /\ f \in [1..Len(received) -> 1..(n - 1)]
      /\ \A i, j \in 1..Len(received) : i < j => f[i] < f[j]
      /\ \A i \in 1..Len(received) : received[i] = Messages[f[i]]
  BY <1>1 DEF Picks
<1>3. \A k \in 1..(n - 1) : k \in 1..n /\ k < n
  OBVIOUS
<1>4. f \in [1..Len(received) -> 1..n]
  BY <1>2, <1>3
<1>5. \A i \in 1..Len(received) : f[i] < n
  BY <1>2, <1>3
<1>6. Picks(f, received', heard')
  BY <1>2, <1>4 DEF Picks
<1>7. \A i \in 1..Len(received') : f[i] < heard'
  BY <1>5
<1> QED
  BY <1>6, <1>7 DEF Ordered

LEMMA OrderedReturns ==
    ASSUME Ordered, Balanced, Counted, Waiting, heard \in 1..Len(Messages),
           received' = Append(received, Messages[heard]), heard' = heard,
           ~Waiting'
    PROVE  Ordered'
<1>1. PICK f : /\ Picks(f, received, heard)
               /\ \A i \in 1..Len(received) : f[i] < heard
  BY DEF Ordered
<1>2. PICK h \in Nat : h = heard /\ h >= 1
  BY DEF Counted
<1>3. PICK l \in Nat : l = Len(received) /\ received \in Seq(Seq(Bytes))
  BY LenProperties DEF Balanced
<1>4. PICK m, r : /\ m = Messages[h] /\ m \in Seq(Bytes)
                  /\ r = Append(received, m)
  BY <1>2, FrameHolds
<1>5. /\ Len(r) = l + 1 /\ \A i \in 1..l : r[i] = received[i]
      /\ r[l + 1] = m
  BY <1>3, <1>4, AppendProperties
<1>6. /\ f \in [1..l -> 1..h]
      /\ \A i, j \in 1..l : i < j => f[i] < f[j]
      /\ \A i \in 1..l : received[i] = Messages[f[i]] /\ f[i] < h
  BY <1>1, <1>2, <1>3 DEF Picks
<1> DEFINE e == [i \in 1..(l + 1) |-> IF i <= l THEN f[i] ELSE h]
<1>7. /\ \A i \in 1..l : e[i] = f[i]
      /\ e[l + 1] = h
  OBVIOUS
<1>8. e \in [1..(l + 1) -> 1..h]
  <2>1. \A i \in 1..(l + 1) : (IF i <= l THEN f[i] ELSE h) \in 1..h
    <3> TAKE i \in 1..(l + 1)
    <3>1. CASE i <= l
      <4>1. i \in 1..l
        BY <3>1
      <4> QED
        BY <1>6, <3>1, <4>1
    <3>2. CASE ~(i <= l)
      BY <1>2, <3>2
    <3> QED
      BY <3>1, <3>2
  <2> QED
    BY <2>1
<1> HIDE DEF e
<1>9. ASSUME NEW i \in 1..(l + 1), NEW j \in 1..(l + 1), i < j
      PROVE  e[i] < e[j]
  <2>1. i \in 1..l /\ (j \in 1..l \/ j = l + 1)
    BY <1>9
  <2> QED
    BY <1>6, <1>7, <1>9, <2>1
<1>10. ASSUME NEW i \in 1..(l + 1) PROVE r[i] = Messages[e[i]]
  <2>1. CASE i \in 1..l
    BY <1>5, <1>6, <1>7, <2>1
  <2>2. CASE i = l + 1
    BY <1>4, <1>5, <1>7, <2>2
  <2> QED
    BY <2>1, <2>2
<1>11. Picks(e, r, h)
  BY <1>5, <1>8, <1>9, <1>10 DEF Picks
<1>12. Picks(e, received', heard')
  BY <1>2, <1>4, <1>11
<1> QED
  BY <1>12 DEF Ordered

LEMMA StepKeepsOrdered ==
    ASSUME Types, IInv, Counted, Calm, Ordered, [Next]_vars, faults' = 0
    PROVE  Ordered'
<1>1. CASE vw_send
  <2>1. UNCHANGED <<decoder, fetch>>
    BY <1>1 DEF vw_send
  <2> QED
    BY <2>1, OrderedStays DEF decoder, fetch, Waiting
<1>2. CASE BitPeriod
  <2>1. /\ Transmit /\ vw_pll(Air) /\ InTime /\ Passes
        /\ UNCHANGED <<pc, received>>
    BY <1>2 DEF BitPeriod, fetch
  <2>2. \/ Idles \/ Starts \/ GoesOn
        \/ \E n \in 1..Len(Messages) : Completes(n)
    BY <2>1, BitFollows DEF Calm
  <2>3. CASE Idles
    BY <2>1, <2>3, OrderedStays DEF Idles, Waiting
  <2>4. CASE Starts \/ GoesOn
    <3>1. heard' = heard /\ ~Waiting'
      BY <2>4 DEF Starts, GoesOn, Waiting
    <3> QED
      BY <2>1, <3>1, OrderedStays
  <2>5. ASSUME NEW n \in 1..Len(Messages), Completes(n) PROVE Ordered'
    <3>1. heard = n - 1 /\ heard' = n /\ n \in Nat
      BY <2>5, LengthAssumption, LenProperties DEF Completes
    <3> QED
      BY <2>1, <3>1, OrderedHears
  <2> QED
    BY <2>2, <2>3, <2>4, <2>5
<1>3. CASE Fault
  <2>1. faults \in Nat /\ faults' = faults + 1
    BY <1>3, LengthAssumption DEF Types, TypeOK, Fault
  <2> QED
    BY <2>1
<1>4. CASE Test \/ Length \/ Copy \/ Clear
  <2>1. heard' = heard /\ received' = received
    BY <1>4 DEF Test, Length, Copy, Clear, decoder
  <2>2. Waiting' = Waiting
    BY <1>4 DEF Test, Length, Copy, Clear, decoder, Waiting
  <2> QED
    BY <2>1, <2>2, OrderedStays
<1>5. CASE Check
  <2>1. /\ ~Waiting'
        /\ \/ ~Waiting /\ received' = received
           \/ /\ Waiting /\ heard \in 1..Len(Messages)
              /\ received' = Append(received, Messages[heard])
    BY <1>5, CheckReturns DEF Calm
  <2>2. heard' = heard
    BY <1>5 DEF Check, CheckIf, decoder
  <2>3. CASE ~Waiting /\ received' = received
    BY <2>1, <2>2, <2>3, OrderedStays
  <2>4. CASE /\ Waiting /\ heard \in 1..Len(Messages)
             /\ received' = Append(received, Messages[heard])
    BY <2>1, <2>2, <2>4, OrderedReturns DEF Calm
  <2> QED
    BY <2>1, <2>3, <2>4
<1>6. CASE UNCHANGED vars
  BY <1>6, OrderedStays DEF vars, decoder, fetch, Waiting
<1> QED
  BY <1>1, <1>2, <1>3, <1>4, <1>5, <1>6 DEF Next, vw_get_message


\* The abstract sent is what of Messages has been given to vw_send.
LEMMA SentSoFar ==
    ASSUME NEW n \in 0..Len(Messages)
    PROVE  \E s \in Seq(Seq(Bytes)) :
              /\ s = SubSeq(Messages, 1, n) /\ Len(s) = n /\ DOMAIN s = 1..n
              /\ \A i \in 1..n : s[i] = Messages[i]
<1>1. PICK o \in Int : o = 1
  OBVIOUS
<1>2. n \in Nat /\ n <= Len(Messages) /\ Len(Messages) \in Nat
  BY LengthAssumption, LenProperties
<1>3. \A i \in o..n : Messages[i] \in Seq(Bytes)
  <2> TAKE i \in o..n
  <2>1. i \in 1..Len(Messages)
    BY <1>1, <1>2
  <2> QED
    BY <2>1, FrameHolds
<1>4. PICK s : s = SubSeq(Messages, o, n)
  OBVIOUS
<1>5. /\ s \in Seq(Seq(Bytes)) /\ Len(s) = IF o <= n THEN n - o + 1 ELSE 0
      /\ \A i \in 1..(n - o + 1) : s[i] = Messages[o + i - 1]
  BY <1>2, <1>3, <1>4, SubSeqProperties
<1>6. Len(s) = n
  BY <1>1, <1>2, <1>5
<1>7. \A i \in 1..n : s[i] = Messages[i]
  <2> TAKE i \in 1..n
  <2>1. i \in 1..(n - o + 1) /\ o + i - 1 = i
    BY <1>1, <1>2
  <2> QED
    BY <1>5, <2>1
<1>8. DOMAIN s = 1..n
  BY <1>5, <1>6, LenProperties
<1> QED
  BY <1>1, <1>4, <1>5, <1>6, <1>7, <1>8

LEMMA PicksAreSent ==
    ASSUME NEW r \in Seq(Seq(Bytes)), NEW h \in Nat, NEW n \in 0..Len(Messages),
           h <= n, NEW f, Picks(f, r, h)
    PROVE  Promise!SubSequence(r, SubSeq(Messages, 1, n))
<1>1. PICK s \in Seq(Seq(Bytes)) :
          /\ s = SubSeq(Messages, 1, n) /\ DOMAIN s = 1..n
          /\ \A i \in 1..n : s[i] = Messages[i]
  BY SentSoFar
<1>2. PICK l \in Nat : l = Len(r) /\ DOMAIN r = 1..l
  BY LenProperties
<1>3. n \in Nat
  BY LengthAssumption, LenProperties
<1>4. /\ f \in [1..l -> 1..h]
      /\ \A i, j \in 1..l : i < j => f[i] < f[j]
      /\ \A i \in 1..l : r[i] = Messages[f[i]]
  BY <1>2 DEF Picks
<1>5. 1..h \subseteq 1..n
  BY <1>3
<1>6. f \in [1..l -> 1..n]
  BY <1>4, <1>5
<1>7. \A i \in 1..l : r[i] = s[f[i]]
  BY <1>1, <1>4, <1>6
<1>8. /\ f \in [DOMAIN r -> DOMAIN s]
      /\ \A i, j \in DOMAIN r : i < j => f[i] < f[j]
      /\ \A i \in DOMAIN r : r[i] = s[f[i]]
  BY <1>1, <1>2, <1>4, <1>6, <1>7
<1>9. Promise!SubSequence(r, s)
  BY <1>8 DEF Promise!SubSequence
<1> QED
  BY <1>1, <1>9

LEMMA SendsOne ==
    ASSUME NEW n \in 0..Len(Messages), n < Len(Messages)
    PROVE  \E m \in Range(Messages) :
               SubSeq(Messages, 1, n + 1) = Append(SubSeq(Messages, 1, n), m)
<1>1. PICK k \in 1..Len(Messages) : k = n + 1
  <2>1. Len(Messages) \in Nat
    BY LengthAssumption, LenProperties
  <2> QED
    BY <2>1
<1>2. PICK m : m = Messages[k]
  OBVIOUS
<1>3. m \in Range(Messages) /\ m \in Seq(Bytes)
  <2>1. k \in DOMAIN Messages
    BY LengthAssumption
  <2> QED
    BY <1>2, <2>1, FrameHolds DEF Range
<1>4. PICK s \in Seq(Seq(Bytes)) :
          /\ s = SubSeq(Messages, 1, n) /\ Len(s) = n
          /\ \A i \in 1..n : s[i] = Messages[i]
  BY SentSoFar
<1>5. k \in 0..Len(Messages) /\ n \in Nat
  BY <1>1, LengthAssumption, LenProperties
<1>6. PICK t \in Seq(Seq(Bytes)) :
          /\ t = SubSeq(Messages, 1, k) /\ Len(t) = k
          /\ \A i \in 1..k : t[i] = Messages[i]
  BY <1>5, SentSoFar
<1>7. PICK u : u = Append(s, m)
  OBVIOUS
<1>8. /\ u \in Seq(Seq(Bytes)) /\ Len(u) = k
      /\ \A i \in 1..n : u[i] = s[i]
      /\ u[k] = m
  BY <1>1, <1>3, <1>4, <1>7, AppendProperties
<1>9. \A i \in 1..k : u[i] = t[i]
  <2> TAKE i \in 1..k
  <2>1. CASE i = k
    BY <1>2, <1>6, <1>8, <2>1
  <2>2. CASE i # k
    <3>1. i \in 1..n
      BY <1>1, <1>5, <2>2
    <3> QED
      BY <1>4, <1>6, <1>8, <3>1
  <2> QED
    BY <2>1, <2>2
<1>10. Len(u) = Len(t) /\ \A i \in 1..Len(u) : u[i] = t[i]
  BY <1>6, <1>8, <1>9
<1>11. u = t
  BY <1>6, <1>8, <1>10, SeqEqual
<1> QED
  BY <1>1, <1>3, <1>4, <1>6, <1>7, <1>11

LEMMA StepIsPromised ==
    ASSUME Types, IInv, Counted, Calm, Ordered, [Next]_vars, faults' = 0
    PROVE  [Promise!Send \/ Promise!Deliver]_<<SubSeq(Messages, 1, nsent),
                                               received>>
<1>1. CASE vw_send
  <2>1. PICK n \in 0..Len(Messages) : n = nsent /\ n < Len(Messages)
    BY <1>1 DEF vw_send, Types, TypeOK
  <2>2. PICK m \in Range(Messages) :
            SubSeq(Messages, 1, n + 1) = Append(SubSeq(Messages, 1, n), m)
    BY <2>1, SendsOne
  <2>3. nsent' = n + 1 /\ received' = received
    BY <1>1, <2>1 DEF vw_send, fetch
  <2>4. SubSeq(Messages, 1, nsent)' = Append(SubSeq(Messages, 1, nsent), m)
    BY <2>1, <2>2, <2>3
  <2>5. Promise!Send
    BY <2>3, <2>4 DEF Promise!Send
  <2> QED
    BY <2>5
<1>2. CASE Check
  <2>1. nsent' = nsent /\ heard' = heard
    BY <1>2 DEF Check, CheckIf, transmitter, decoder
  <2>2. \/ received' = received
        \/ /\ heard \in 1..Len(Messages)
           /\ received' = Append(received, Messages[heard])
    BY <1>2, CheckReturns DEF Calm
  <2>3. CASE received' = received
    BY <2>1, <2>3
  <2>4. CASE /\ heard \in 1..Len(Messages)
             /\ received' = Append(received, Messages[heard])
    <3>1. PICK m : m = Messages[heard]
      OBVIOUS
    <3>2. m \in Range(Messages)
      <4>1. heard \in DOMAIN Messages
        BY <2>4, LengthAssumption
      <4> QED
        BY <3>1, <4>1 DEF Range
    <3>3. Ordered'
      BY StepKeepsOrdered
    <3>4. PICK f : Picks(f, received', heard')
      BY <3>3 DEF Ordered
    <3>5. PICK r : r = received'
      OBVIOUS
    <3>6. PICK h \in Nat, n \in 0..Len(Messages) : h = heard' /\ n = nsent
      BY <2>1 DEF Counted, Types, TypeOK
    <3>7. h <= n
      <4>1. heard = nsent \/ heard = nsent - 1
        BY DEF Calm, Following, SentRight
      <4>2. n \in Nat
        BY LengthAssumption, LenProperties
      <4> QED
        BY <2>1, <3>6, <4>1, <4>2
    <3>8. r \in Seq(Seq(Bytes))
      <4>1. m \in Seq(Bytes) /\ received \in Seq(Seq(Bytes))
        BY <2>4, <3>1, FrameHolds DEF Calm, Balanced
      <4> QED
        BY <2>4, <3>1, <3>5, <4>1, AppendProperties
    <3>9. Promise!SubSequence(r, SubSeq(Messages, 1, n))
      BY <3>4, <3>5, <3>6, <3>7, <3>8, PicksAreSent
    <3>10. Promise!SubSequence(received', SubSeq(Messages, 1, nsent))
      BY <3>5, <3>6, <3>9
    <3>11. Promise!Deliver
      BY <2>1, <2>4, <3>1, <3>2, <3>10 DEF Promise!Deliver
    <3> QED
      BY <3>11
  <2> QED
    BY <2>2, <2>3, <2>4
<1>3. CASE UNCHANGED <<nsent, received>>
  BY <1>3
<1>4. vw_send \/ Check \/ UNCHANGED <<nsent, received>>
  <2>1. CASE Test \/ Length \/ Copy \/ Clear
    BY <2>1 DEF Test, Length, Copy, Clear, transmitter
  <2>2. CASE BitPeriod
    BY <2>2 DEF BitPeriod, Transmit, fetch
  <2>3. CASE Fault
    BY <2>3 DEF Fault, Transmit, fetch, transmitter
  <2>4. CASE UNCHANGED vars
    BY <2>4 DEF vars, transmitter, fetch
  <2> QED
    BY <2>1, <2>2, <2>3, <2>4 DEF Next, vw_get_message
<1> QED
  BY <1>1, <1>2, <1>3, <1>4

\* While no fault comes the radio keeps its promise, whatever the interrupt does
\* between the steps of vw_get_message: what it returns are messages of
\* vw_send's, whole, in order and none twice.
THEOREM RadioImplementsDatagram ==
    Spec /\ [](faults = 0) => ImplementsDatagram
<1>1. Init => Types /\ IInv /\ Counted /\ Calm /\ Ordered /\ Promise!Init
  <2>1. ASSUME Init PROVE Ordered
    <3>1. received = <<>> /\ heard = 0
      BY <2>1 DEF Init
    <3>2. Len(received) = 0
      BY <3>1
    <3>3. PICK f : f = [i \in 1..0 |-> 0]
      OBVIOUS
    <3>4. Picks(f, received, heard)
      BY <3>1, <3>2, <3>3 DEF Picks
    <3> QED
      BY <3>2, <3>4 DEF Ordered
  <2>2. ASSUME Init PROVE Promise!Init
    <3>1. SubSeq(Messages, 1, 0) = <<>>
      BY SubSeqEmpty
    <3> QED
      BY <2>2, <3>1 DEF Init, Promise!Init
  <2> QED
    BY <2>1, <2>2, InitTypes, InitIsCalm DEF Init, IInv, Collecting
<1>2. /\ Types /\ IInv /\ Counted /\ Calm /\ Ordered /\ [Next]_vars
      /\ faults = 0 /\ (faults = 0)'
      => /\ Types' /\ IInv' /\ Counted' /\ Calm' /\ Ordered'
         /\ [Promise!Send \/ Promise!Deliver]_<<SubSeq(Messages, 1, nsent),
                                                received>>
  BY StepKeepsTypes, StepKeepsInvariant, StepKeepsCounted, StepKeepsCalm,
     StepKeepsOrdered, StepIsPromised DEF Faultless
<1> QED
  BY <1>1, <1>2, PTL DEF Spec, ImplementsDatagram, Promise!DatagramSpec


-----------------------------------------------------------------------------
\* What the check sequence finds.  A word in half bytes, lowest first; no word
\* has two spellings.
Spelt(a, p, q, r, s) ==
    /\ p \in HalfByte /\ q \in HalfByte /\ r \in HalfByte /\ s \in HalfByte
    /\ a = p + 16 * q + 256 * r + 4096 * s

LEMMA SpeltOnce ==
    ASSUME NEW a, NEW p, NEW q, NEW r, NEW s, NEW t, NEW u, NEW v, NEW w,
           Spelt(a, p, q, r, s), Spelt(a, t, u, v, w)
    PROVE  p = t /\ q = u /\ r = v /\ s = w
<1>1. /\ p \in Int /\ 0 <= p /\ p <= 15 /\ q \in Int /\ 0 <= q /\ q <= 15
      /\ r \in Int /\ 0 <= r /\ r <= 15 /\ s \in Int /\ 0 <= s /\ s <= 15
      /\ t \in Int /\ 0 <= t /\ t <= 15 /\ u \in Int /\ 0 <= u /\ u <= 15
      /\ v \in Int /\ 0 <= v /\ v <= 15 /\ w \in Int /\ 0 <= w /\ w <= 15
  BY DEF Spelt, HalfByte
<1>2. p + 16 * q + 256 * r + 4096 * s = t + 16 * u + 256 * v + 4096 * w
  BY DEF Spelt
<1>3. s = w
  BY <1>1, <1>2
<1>4. r = v
  BY <1>1, <1>2, <1>3
<1>5. q = u
  BY <1>1, <1>2, <1>3, <1>4
<1> QED
  BY <1>1, <1>2, <1>3, <1>4, <1>5

LEMMA SpeltHalfBytes ==
    ASSUME NEW a, NEW p, NEW q, NEW r, NEW s, Spelt(a, p, q, r, s)
    PROVE  /\ (a \div 16^0) % 16 = p /\ (a \div 16^1) % 16 = q
           /\ (a \div 16^2) % 16 = r /\ (a \div 16^3) % 16 = s
<1>1. /\ p \in Int /\ 0 <= p /\ p <= 15 /\ q \in Int /\ 0 <= q /\ q <= 15
      /\ r \in Int /\ 0 <= r /\ r <= 15 /\ s \in Int /\ 0 <= s /\ s <= 15
  BY DEF Spelt, HalfByte
<1>2. a \in Int /\ a = p + 16 * q + 256 * r + 4096 * s
  BY <1>1 DEF Spelt
<1>3. (a \div 16^0) % 16 = p
  BY <1>1, <1>2
<1>4. (a \div 16^1) % 16 = q
  <2>1. a \div 16 = q + 16 * (r + 16 * s)
    BY <1>1, <1>2
  <2> QED
    BY <1>1, <2>1
<1>5. (a \div 16^2) % 16 = r
  <2>1. a \div 256 = r + 16 * s
    BY <1>1, <1>2
  <2> QED
    BY <1>1, <2>1
<1>6. (a \div 16^3) % 16 = s
  <2>1. a \div 4096 = s
    BY <1>1, <1>2
  <2> QED
    BY <1>1, <2>1
<1> QED
  BY <1>3, <1>4, <1>5, <1>6

LEMMA SpeltXor ==
    ASSUME NEW a, NEW p, NEW q, NEW r, NEW s, Spelt(a, p, q, r, s),
           NEW b, NEW t, NEW u, NEW v, NEW w, Spelt(b, t, u, v, w)
    PROVE  Spelt(Xor(a, b),
                 Nybble[p][t], Nybble[q][u], Nybble[r][v], Nybble[s][w])
<1>1. /\ (a \div 16^0) % 16 = p /\ (a \div 16^1) % 16 = q
      /\ (a \div 16^2) % 16 = r /\ (a \div 16^3) % 16 = s
  BY SpeltHalfBytes
<1>2. /\ (b \div 16^0) % 16 = t /\ (b \div 16^1) % 16 = u
      /\ (b \div 16^2) % 16 = v /\ (b \div 16^3) % 16 = w
  BY SpeltHalfBytes
<1>3. Xor(a, b) = Nybble[p][t] * 16^0 + Nybble[q][u] * 16^1
                  + Nybble[r][v] * 16^2 + Nybble[s][w] * 16^3
  BY <1>1, <1>2 DEF Xor
<1>4. /\ Nybble[p][t] \in HalfByte /\ Nybble[q][u] \in HalfByte
      /\ Nybble[r][v] \in HalfByte /\ Nybble[s][w] \in HalfByte
  BY NybbleIsHalfByte DEF Spelt
<1>5. PICK i \in Int, j \in Int, k \in Int, l \in Int :
          /\ i = Nybble[p][t] /\ j = Nybble[q][u]
          /\ k = Nybble[r][v] /\ l = Nybble[s][w]
  <2>1. \A n \in HalfByte : n \in Int
    BY DEF HalfByte
  <2> QED
    BY <1>4, <2>1
<1>6. Xor(a, b) = i + 16 * j + 256 * k + 4096 * l
  BY <1>3, <1>5
<1> QED
  BY <1>4, <1>5, <1>6 DEF Spelt

LEMMA ByteSpelt ==
    ASSUME NEW b \in Bytes
    PROVE  \E p \in HalfByte, q \in HalfByte :
               b = p + 16 * q /\ Spelt(b, p, q, 0, 0)
<1>1. b \in Int /\ 0 <= b /\ b <= 255
  BY DEF Bytes
<1>2. b % 16 \in HalfByte /\ b \div 16 \in HalfByte
  BY <1>1 DEF HalfByte
<1>3. b = (b % 16) + 16 * (b \div 16)
  BY <1>1
<1>4. PICK p \in HalfByte, q \in HalfByte : p = b % 16 /\ q = b \div 16
  BY <1>2
<1>5. b = p + 16 * q
  BY <1>3, <1>4
<1>6. Spelt(b, p, q, 0, 0)
  BY <1>5 DEF Spelt, HalfByte
<1> QED
  BY <1>5, <1>6

LEMMA HalfByteBits ==
    ASSUME NEW a \in HalfByte
    PROVE  /\ a = Bit(a, 0) + 2 * Bit(a, 1) + 4 * Bit(a, 2) + 8 * Bit(a, 3)
           /\ Bit(a, 0) \in {0, 1} /\ Bit(a, 1) \in {0, 1}
           /\ Bit(a, 2) \in {0, 1} /\ Bit(a, 3) \in {0, 1}
  BY DEF Bit, HalfByte

\* Exclusive or with the same half byte keeps half bytes apart.
LEMMA NybbleSame ==
    ASSUME NEW a \in HalfByte, NEW b \in HalfByte, NEW c \in HalfByte,
           Nybble[a][b] = Nybble[a][c] \/ Nybble[b][a] = Nybble[c][a]
    PROVE  b = c
<1>1. PICK a0 \in {0, 1}, a1 \in {0, 1}, a2 \in {0, 1}, a3 \in {0, 1} :
          /\ a0 = Bit(a, 0) /\ a1 = Bit(a, 1)
          /\ a2 = Bit(a, 2) /\ a3 = Bit(a, 3)
  BY HalfByteBits
<1>2. PICK b0 \in {0, 1}, b1 \in {0, 1}, b2 \in {0, 1}, b3 \in {0, 1} :
          /\ b0 = Bit(b, 0) /\ b1 = Bit(b, 1)
          /\ b2 = Bit(b, 2) /\ b3 = Bit(b, 3)
          /\ b = b0 + 2 * b1 + 4 * b2 + 8 * b3
  BY HalfByteBits
<1>3. PICK c0 \in {0, 1}, c1 \in {0, 1}, c2 \in {0, 1}, c3 \in {0, 1} :
          /\ c0 = Bit(c, 0) /\ c1 = Bit(c, 1)
          /\ c2 = Bit(c, 2) /\ c3 = Bit(c, 3)
          /\ c = c0 + 2 * c1 + 4 * c2 + 8 * c3
  BY HalfByteBits
<1>4. /\ Nybble[a][b] = (IF a0 # b0 THEN 1 ELSE 0)
                        + (IF a1 # b1 THEN 2 ELSE 0)
                        + (IF a2 # b2 THEN 4 ELSE 0)
                        + (IF a3 # b3 THEN 8 ELSE 0)
      /\ Nybble[b][a] = Nybble[a][b]
  <2>1. Nybble[a][b] = (IF Bit(a, 0) # Bit(b, 0) THEN 1 ELSE 0)
                       + (IF Bit(a, 1) # Bit(b, 1) THEN 2 ELSE 0)
                       + (IF Bit(a, 2) # Bit(b, 2) THEN 4 ELSE 0)
                       + (IF Bit(a, 3) # Bit(b, 3) THEN 8 ELSE 0)
    BY NybbleBits
  <2>2. Nybble[b][a] = (IF Bit(b, 0) # Bit(a, 0) THEN 1 ELSE 0)
                       + (IF Bit(b, 1) # Bit(a, 1) THEN 2 ELSE 0)
                       + (IF Bit(b, 2) # Bit(a, 2) THEN 4 ELSE 0)
                       + (IF Bit(b, 3) # Bit(a, 3) THEN 8 ELSE 0)
    BY NybbleBits
  <2> QED
    BY <1>1, <1>2, <2>1, <2>2
<1>5. /\ Nybble[a][c] = (IF a0 # c0 THEN 1 ELSE 0)
                        + (IF a1 # c1 THEN 2 ELSE 0)
                        + (IF a2 # c2 THEN 4 ELSE 0)
                        + (IF a3 # c3 THEN 8 ELSE 0)
      /\ Nybble[c][a] = Nybble[a][c]
  <2>1. Nybble[a][c] = (IF Bit(a, 0) # Bit(c, 0) THEN 1 ELSE 0)
                       + (IF Bit(a, 1) # Bit(c, 1) THEN 2 ELSE 0)
                       + (IF Bit(a, 2) # Bit(c, 2) THEN 4 ELSE 0)
                       + (IF Bit(a, 3) # Bit(c, 3) THEN 8 ELSE 0)
    BY NybbleBits
  <2>2. Nybble[c][a] = (IF Bit(c, 0) # Bit(a, 0) THEN 1 ELSE 0)
                       + (IF Bit(c, 1) # Bit(a, 1) THEN 2 ELSE 0)
                       + (IF Bit(c, 2) # Bit(a, 2) THEN 4 ELSE 0)
                       + (IF Bit(c, 3) # Bit(a, 3) THEN 8 ELSE 0)
    BY NybbleBits
  <2> QED
    BY <1>1, <1>3, <2>1, <2>2
<1>6. Nybble[a][b] = Nybble[a][c]
  BY <1>4, <1>5
<1>7. b0 = c0 /\ b1 = c1 /\ b2 = c2 /\ b3 = c3
  BY <1>4, <1>5, <1>6
<1> QED
  BY <1>2, <1>3, <1>7

LEMMA SpeltHigh ==
    ASSUME NEW a, NEW p, NEW q, NEW r, NEW s, Spelt(a, p, q, r, s)
    PROVE  Spelt(a \div 256, r, s, 0, 0)
<1>1. /\ p \in Int /\ 0 <= p /\ p <= 15 /\ q \in Int /\ 0 <= q /\ q <= 15
      /\ r \in Int /\ 0 <= r /\ r <= 15 /\ s \in Int /\ 0 <= s /\ s <= 15
      /\ a = p + 16 * q + 256 * r + 4096 * s
  BY DEF Spelt, HalfByte
<1>2. a \div 256 = r + 16 * s
  BY <1>1
<1>3. r \in HalfByte /\ s \in HalfByte /\ 0 \in HalfByte
  BY DEF Spelt, HalfByte
<1> QED
  BY <1>1, <1>2, <1>3 DEF Spelt

LEMMA WordBytes ==
    ASSUME NEW c, IsWord(c)
    PROVE  c \div 256 \in Bytes /\ c % 256 \in Bytes
<1>1. PICK h \in Int, l \in Int : /\ h = c \div 256 /\ l = c % 256
                                  /\ 0 <= h /\ h <= 255 /\ 0 <= l /\ l <= 255
  BY DEF IsWord
<1> QED
  BY <1>1, InBytes

LEMMA XorIsByte ==
    ASSUME NEW a \in Bytes, NEW b \in Bytes
    PROVE  Xor(a, b) \in Bytes
<1>1. PICK p \in HalfByte, q \in HalfByte : Spelt(a, p, q, 0, 0)
  BY ByteSpelt
<1>2. PICK r \in HalfByte, s \in HalfByte : Spelt(b, r, s, 0, 0)
  BY ByteSpelt
<1>3. Spelt(Xor(a, b), Nybble[p][r], Nybble[q][s], Nybble[0][0], Nybble[0][0])
  BY <1>1, <1>2, SpeltXor
<1>4. Nybble[0][0] = 0
  BY Nybbles
<1>5. PICK i, j : Spelt(Xor(a, b), i, j, 0, 0)
  BY <1>3, <1>4
<1>6. /\ i \in Int /\ 0 <= i /\ i <= 15 /\ j \in Int /\ 0 <= j /\ j <= 15
      /\ Xor(a, b) = i + 16 * j
  BY <1>5 DEF Spelt, HalfByte
<1> QED
  BY <1>6, InBytes

\* The high byte of an entry of the table says which one it is.
LEMMA TableHigh ==
    ASSUME NEW low \in Bytes, NEW p \in HalfByte, NEW q \in HalfByte,
           low = p + 16 * q
    PROVE  \E d, e, u, v :
               /\ d = Nybble[p][q] /\ e = d \div 2 /\ e \in HalfByte
               /\ Spelt(Table[low], u, v, Nybble[p][e], d)
<1>0. 0 \in HalfByte
  BY DEF HalfByte
<1>1. PICK d \in HalfByte : d = Nybble[q][p] /\ d = Nybble[p][q]
  <2>1. Nybble[q][p] = Nybble[p][q]
    BY NybbleBits, HalfByteBits
  <2> QED
    BY <2>1, NybbleIsHalfByte
<1>2. /\ p \in Int /\ 0 <= p /\ p <= 15 /\ q \in Int /\ 0 <= q /\ q <= 15
      /\ d \in Int /\ 0 <= d /\ d <= 15
  BY DEF HalfByte
<1>3. Spelt(low, p, q, 0, 0)
  BY <1>2 DEF Spelt, HalfByte
<1>4. Spelt((low * 16) % 256, 0, p, 0, 0)
  <2>1. PICK n \in Int : n = low * 16 /\ n = 16 * p + 256 * q
    BY <1>2
  <2>2. n % 256 = 16 * p
    BY <1>2, <2>1
  <2> QED
    BY <1>0, <1>2, <2>1, <2>2 DEF Spelt
<1>5. PICK data : data = Xor(low, (low * 16) % 256)
  OBVIOUS
<1>6. Spelt(data, p, d, 0, 0)
  <2>1. Spelt(data, Nybble[p][0], Nybble[q][p], Nybble[0][0], Nybble[0][0])
    BY <1>3, <1>4, <1>5, SpeltXor
  <2> QED
    BY <1>0, <1>1, <2>1, NybbleZero
<1>7. data \in Int /\ data = p + 16 * d
  BY <1>2, <1>6 DEF Spelt
<1>8. PICK e, u, v : e = d \div 2 /\ Spelt(data * 8, u, v, e, 0)
  <2>1. PICK x \in Int, y \in Int : /\ p = x + 2 * y /\ 0 <= x /\ x <= 1
                                    /\ 0 <= y /\ y <= 7
    <3>1. /\ p = (p % 2) + 2 * (p \div 2) /\ 0 <= p % 2 /\ p % 2 <= 1
          /\ 0 <= p \div 2 /\ p \div 2 <= 7
          /\ p % 2 \in Int /\ p \div 2 \in Int
      BY <1>2
    <3> QED
      BY <3>1
  <2>2. PICK z \in Int, w \in Int : /\ d = z + 2 * w /\ 0 <= z /\ z <= 1
                                    /\ 0 <= w /\ w <= 7
    <3>1. /\ d = (d % 2) + 2 * (d \div 2) /\ 0 <= d % 2 /\ d % 2 <= 1
          /\ 0 <= d \div 2 /\ d \div 2 <= 7
          /\ d % 2 \in Int /\ d \div 2 \in Int
      BY <1>2
    <3> QED
      BY <3>1
  <2>3. w = d \div 2
    BY <2>2
  <2>4. data * 8 = 8 * x + 16 * (y + 8 * z) + 256 * w
    BY <1>7, <2>1, <2>2
  <2>5. 8 * x \in HalfByte /\ y + 8 * z \in HalfByte /\ w \in HalfByte
    BY <2>1, <2>2 DEF HalfByte
  <2>6. Spelt(data * 8, 8 * x, y + 8 * z, w, 0)
    BY <1>0, <2>1, <2>2, <2>4, <2>5 DEF Spelt
  <2> QED
    BY <2>3, <2>6
<1>9. Spelt(data * 256, 0, 0, p, d)
  BY <1>0, <1>2, <1>7 DEF Spelt
<1>10. Spelt(data \div 16, d, 0, 0, 0)
  <2>1. data \div 16 = d
    BY <1>2, <1>7
  <2> QED
    BY <1>0, <1>2, <2>1 DEF Spelt
<1>11. PICK first : first = Xor(data * 256, data \div 16)
  OBVIOUS
<1>12. Spelt(first, d, 0, p, d)
  <2>1. Spelt(first, Nybble[0][d], Nybble[0][0], Nybble[p][0], Nybble[d][0])
    BY <1>9, <1>10, <1>11, SpeltXor
  <2> QED
    BY <1>0, <2>1, NybbleZero
<1>13. Spelt(Xor(first, data * 8),
             Nybble[d][u], Nybble[0][v], Nybble[p][e], d)
  <2>1. Spelt(Xor(first, data * 8),
              Nybble[d][u], Nybble[0][v], Nybble[p][e], Nybble[d][0])
    BY <1>8, <1>12, SpeltXor
  <2> QED
    BY <2>1, NybbleZero
<1>14. Table[low] = Xor(first, data * 8)
  BY <1>5, <1>11 DEF Table, Bytes
<1>15. e \in HalfByte
  BY <1>8 DEF Spelt
<1> QED
  BY <1>1, <1>8, <1>13, <1>14, <1>15

\* So the high byte of an exclusive or with a byte does, and with the low byte
\* the other operand is known too.
LEMMA TableKnown ==
    ASSUME NEW g \in Bytes, NEW h \in Bytes, NEW x \in Bytes, NEW y \in Bytes,
           Xor(g, Table[x]) \div 256 = Xor(h, Table[y]) \div 256
    PROVE  x = y
<1>1. PICK p \in HalfByte, q \in HalfByte : x = p + 16 * q
  BY ByteSpelt
<1>2. PICK r \in HalfByte, s \in HalfByte : y = r + 16 * s
  BY ByteSpelt
<1>3. PICK d, e, u, v : /\ d = Nybble[p][q] /\ e = d \div 2 /\ e \in HalfByte
                        /\ Spelt(Table[x], u, v, Nybble[p][e], d)
  BY <1>1, TableHigh
<1>4. PICK f, k, t, w : /\ f = Nybble[r][s] /\ k = f \div 2 /\ k \in HalfByte
                        /\ Spelt(Table[y], t, w, Nybble[r][k], f)
  BY <1>2, TableHigh
<1>5. PICK a \in HalfByte, b \in HalfByte : Spelt(g, a, b, 0, 0)
  BY ByteSpelt
<1>6. PICK i \in HalfByte, j \in HalfByte : Spelt(h, i, j, 0, 0)
  BY ByteSpelt
<1>7. PICK m, n : m = Nybble[p][e] /\ n = Nybble[r][k]
  OBVIOUS
<1>8. /\ m \in HalfByte /\ d \in HalfByte
      /\ n \in HalfByte /\ f \in HalfByte
  BY <1>3, <1>4, <1>7 DEF Spelt
<1>9. Spelt(Xor(g, Table[x]) \div 256, m, d, 0, 0)
  <2>1. Spelt(Xor(g, Table[x]),
              Nybble[a][u], Nybble[b][v], Nybble[0][m], Nybble[0][d])
    BY <1>3, <1>5, <1>7, SpeltXor
  <2>2. Spelt(Xor(g, Table[x]), Nybble[a][u], Nybble[b][v], m, d)
    BY <1>8, <2>1, NybbleZero
  <2> QED
    BY <2>2, SpeltHigh
<1>10. Spelt(Xor(h, Table[y]) \div 256, n, f, 0, 0)
  <2>1. Spelt(Xor(h, Table[y]),
              Nybble[i][t], Nybble[j][w], Nybble[0][n], Nybble[0][f])
    BY <1>4, <1>6, <1>7, SpeltXor
  <2>2. Spelt(Xor(h, Table[y]), Nybble[i][t], Nybble[j][w], n, f)
    BY <1>8, <2>1, NybbleZero
  <2> QED
    BY <2>2, SpeltHigh
<1>11. m = n /\ d = f
  BY <1>9, <1>10, SpeltOnce
<1>12. p = r
  <2>1. e = k
    BY <1>3, <1>4, <1>11
  <2>2. Nybble[p][e] = Nybble[r][e]
    BY <1>7, <1>11, <2>1
  <2> QED
    BY <1>3, <2>2, NybbleSame
<1>13. q = s
  <2>1. Nybble[p][q] = Nybble[p][s]
    BY <1>3, <1>4, <1>11, <1>12
  <2> QED
    BY <2>1, NybbleSame
<1> QED
  BY <1>1, <1>2, <1>12, <1>13

LEMMA XorSame ==
    ASSUME NEW g \in Bytes, NEW h \in Bytes,
           NEW z, NEW p, NEW q, NEW r, NEW s, Spelt(z, p, q, r, s),
           Xor(g, z) = Xor(h, z) \/ Xor(z, g) = Xor(z, h)
    PROVE  g = h
<1>1. PICK a \in HalfByte, b \in HalfByte : Spelt(g, a, b, 0, 0)
  BY ByteSpelt
<1>2. PICK i \in HalfByte, j \in HalfByte : Spelt(h, i, j, 0, 0)
  BY ByteSpelt
<1>3. p \in HalfByte /\ q \in HalfByte
  BY DEF Spelt
<1>4. \/ Nybble[a][p] = Nybble[i][p] /\ Nybble[b][q] = Nybble[j][q]
      \/ Nybble[p][a] = Nybble[p][i] /\ Nybble[q][b] = Nybble[q][j]
  <2>1. CASE Xor(g, z) = Xor(h, z)
    <3>1. Spelt(Xor(g, z),
                Nybble[a][p], Nybble[b][q], Nybble[0][r], Nybble[0][s])
      BY <1>1, SpeltXor
    <3>2. Spelt(Xor(h, z),
                Nybble[i][p], Nybble[j][q], Nybble[0][r], Nybble[0][s])
      BY <1>2, SpeltXor
    <3> QED
      BY <2>1, <3>1, <3>2, SpeltOnce
  <2>2. CASE Xor(z, g) = Xor(z, h)
    <3>1. Spelt(Xor(z, g),
                Nybble[p][a], Nybble[q][b], Nybble[r][0], Nybble[s][0])
      BY <1>1, SpeltXor
    <3>2. Spelt(Xor(z, h),
                Nybble[p][i], Nybble[q][j], Nybble[r][0], Nybble[s][0])
      BY <1>2, SpeltXor
    <3> QED
      BY <2>2, <3>1, <3>2, SpeltOnce
  <2> QED
    BY <2>1, <2>2
<1>5. a = i
  BY <1>3, <1>4, NybbleSame
<1>6. b = j
  BY <1>3, <1>4, NybbleSame
<1> QED
  BY <1>1, <1>2, <1>5, <1>6 DEF Spelt

\* What a step of the check sequence tells of the one before.
LEMMA UpdateKnown ==
    ASSUME NEW c, NEW d, NEW x \in Bytes, NEW y \in Bytes,
           IsWord(c), IsWord(d),
           Update(c, x) \div 256 = Update(d, y) \div 256
    PROVE  /\ Xor(c % 256, x) = Xor(d % 256, y)
           /\ Update(c, x) = Update(d, y) => c \div 256 = d \div 256
<1>1. /\ c \div 256 \in Bytes /\ c % 256 \in Bytes
      /\ d \div 256 \in Bytes /\ d % 256 \in Bytes
  BY WordBytes
<1>2. PICK g \in Bytes, h \in Bytes : g = c \div 256 /\ h = d \div 256
  BY <1>1
<1>3. PICK i \in Bytes, j \in Bytes :
          i = Xor(c % 256, x) /\ j = Xor(d % 256, y)
  BY <1>1, XorIsByte
<1>4. Update(c, x) = Xor(g, Table[i]) /\ Update(d, y) = Xor(h, Table[j])
  BY <1>2, <1>3 DEF Update
<1>5. i = j
  BY <1>4, TableKnown
<1>6. ASSUME Update(c, x) = Update(d, y) PROVE g = h
  <2>1. PICK p \in HalfByte, q \in HalfByte : i = p + 16 * q
    BY ByteSpelt
  <2>2. PICK u, v, s, t : Spelt(Table[i], u, v, s, t)
    BY <2>1, TableHigh
  <2>3. Xor(g, Table[i]) = Xor(h, Table[i])
    BY <1>4, <1>5, <1>6
  <2> QED
    BY <2>2, <2>3, XorSame
<1> QED
  BY <1>2, <1>3, <1>5, <1>6

\* With the same byte it keeps check sequences apart, and from the same check
\* sequence it keeps bytes apart.
LEMMA UpdateSame ==
    ASSUME NEW c, NEW d, NEW x \in Bytes, NEW y \in Bytes,
           IsWord(c), IsWord(d), Update(c, x) = Update(d, y)
    PROVE  (c = d => x = y) /\ (x = y => c = d)
<1>1. /\ Xor(c % 256, x) = Xor(d % 256, y)
      /\ c \div 256 = d \div 256
  BY UpdateKnown
<1>2. c % 256 \in Bytes /\ d % 256 \in Bytes
  BY WordBytes
<1>3. PICK i \in Bytes, j \in Bytes : i = c % 256 /\ j = d % 256
  BY <1>2
<1>4. ASSUME c = d PROVE x = y
  <2>1. PICK p, q : Spelt(i, p, q, 0, 0)
    BY ByteSpelt
  <2>2. Xor(i, x) = Xor(i, y)
    BY <1>1, <1>3, <1>4
  <2> QED
    BY <2>1, <2>2, XorSame
<1>5. ASSUME x = y PROVE c = d
  <2>1. PICK p, q : Spelt(x, p, q, 0, 0)
    BY ByteSpelt
  <2>2. Xor(i, x) = Xor(j, x)
    BY <1>1, <1>3, <1>5
  <2>3. i = j
    BY <2>1, <2>2, XorSame
  <2>4. c \in Int /\ d \in Int
    BY DEF IsWord
  <2> QED
    BY <1>1, <1>3, <2>3, <2>4
<1> QED
  BY <1>4, <1>5

\* Two steps keep pairs of bytes apart.
LEMMA UpdatesSame ==
    ASSUME NEW c, NEW x \in Bytes, NEW y \in Bytes, NEW u \in Bytes,
           NEW v \in Bytes, IsWord(c),
           Update(Update(c, x), y) = Update(Update(c, u), v)
    PROVE  x = u /\ y = v
<1>1. PICK d, e : d = Update(c, x) /\ e = Update(c, u)
  OBVIOUS
<1>2. IsWord(d) /\ IsWord(e)
  BY <1>1, UpdateIsWord
<1>3. d \div 256 = e \div 256
  BY <1>1, <1>2, UpdateKnown
<1>4. Xor(c % 256, x) = Xor(c % 256, u)
  BY <1>1, <1>3, UpdateKnown
<1>5. x = u
  <2>1. PICK i \in Bytes : i = c % 256
    BY WordBytes
  <2>2. PICK p, q : Spelt(i, p, q, 0, 0)
    BY ByteSpelt
  <2> QED
    BY <1>4, <2>1, <2>2, XorSame
<1>6. y = v
  BY <1>1, <1>2, <1>5, UpdateSame
<1> QED
  BY <1>5, <1>6


\* Of bytes that are the same up to a place the check sequences are, there.
LEMMA ChecksUpTo ==
    ASSUME NEW f, NEW g, NEW l \in Nat, NEW first, NEW b, NEW c,
           Checks(f, l, first, b), Checks(g, l, first, c),
           NEW k \in 0..l, Alike(b, c, k)
    PROVE  f[k] = g[k]
<1> DEFINE Fails == {n \in Nat : n <= k /\ f[n] # g[n]}
<1>1. f[0] = first /\ \A n \in 1..l : f[n] = Update(f[n - 1], b[n])
  BY ChecksByOne
<1>2. g[0] = first /\ \A n \in 1..l : g[n] = Update(g[n - 1], c[n])
  BY ChecksByOne
<1>3. CASE Fails # {}
  <2>1. PICK n \in Fails : \A m \in Fails : n <= m
    BY <1>3, Least
  <2>2. n # 0 /\ n \in Nat /\ n <= k /\ f[n] # g[n]
    BY <1>1, <1>2, <2>1
  <2>3. n - 1 \in Nat /\ n - 1 <= k /\ n - 1 \notin Fails
    BY <2>1, <2>2
  <2>4. f[n - 1] = g[n - 1]
    BY <2>3
  <2>5. n \in 1..l /\ b[n] = c[n]
    BY <2>2 DEF Alike
  <2>6. f[n] = Update(f[n - 1], b[n]) /\ g[n] = Update(g[n - 1], c[n])
    BY <1>1, <1>2, <2>5
  <2> QED
    BY <2>2, <2>4, <2>5, <2>6
<1>4. CASE Fails = {}
  <2>1. k \in Nat /\ k <= k /\ k \notin Fails
    BY <1>4
  <2> QED
    BY <2>1
<1> QED
  BY <1>3, <1>4

\* All of them are words.
LEMMA ChecksWords ==
    ASSUME NEW g, NEW l \in Nat, NEW first, NEW bytes,
           Checks(g, l, first, bytes), IsWord(first),
           \A n \in 1..l : bytes[n] \in Bytes, NEW k \in 0..l
    PROVE  IsWord(g[k])
<1> DEFINE Fails == {n \in Nat : n <= k /\ ~IsWord(g[n])}
<1>1. g[0] = first /\ \A n \in 1..l : g[n] = Update(g[n - 1], bytes[n])
  BY ChecksByOne
<1>2. CASE Fails # {}
  <2>1. PICK n \in Fails : \A m \in Fails : n <= m
    BY <1>2, Least
  <2>2. IsWord(g[0])
    BY <1>1
  <2>3. n # 0 /\ n \in Nat /\ n <= k /\ ~IsWord(g[n])
    BY <2>1, <2>2
  <2>4. n - 1 \in Nat /\ n - 1 <= k /\ n - 1 \notin Fails
    BY <2>1, <2>3
  <2>5. IsWord(g[n - 1])
    BY <2>4
  <2>6. n \in 1..l
    BY <2>3
  <2>7. g[n] = Update(g[n - 1], bytes[n]) /\ bytes[n] \in Bytes
    BY <1>1, <2>6
  <2> QED
    BY <2>3, <2>5, <2>7, UpdateIsWord
<1>3. CASE Fails = {}
  <2>1. k \in Nat /\ k <= k /\ k \notin Fails
    BY <1>3
  <2> QED
    BY <2>1
<1> QED
  BY <1>2, <1>3

\* Of bytes that are the same from a place on, the check sequences differ at the
\* end if they did there.
OfBytes(b, c, l) == \A n \in 1..l : b[n] \in Bytes /\ c[n] \in Bytes

AlikeFrom(b, c, k, l) == \A n \in 1..l : n > k => b[n] = c[n]

LEMMA ChecksFrom ==
    ASSUME NEW f, NEW g, NEW l \in Nat, NEW first, NEW b, NEW c,
           Checks(f, l, first, b), Checks(g, l, first, c), IsWord(first),
           OfBytes(b, c, l), NEW k \in 0..l, AlikeFrom(b, c, k, l), f[l] = g[l]
    PROVE  f[k] = g[k]
<1> DEFINE Same == {n \in Nat : k <= n /\ n <= l /\ f[n] = g[n]}
<1>1. /\ \A n \in 1..l : f[n] = Update(f[n - 1], b[n])
      /\ \A n \in 1..l : g[n] = Update(g[n - 1], c[n])
  BY ChecksByOne
<1>0. \A n \in 1..l : b[n] \in Bytes /\ c[n] \in Bytes
  BY DEF OfBytes
<1>2. l \in Same
  OBVIOUS
<1>3. PICK m \in Same : \A n \in Same : m <= n
  BY <1>2, Least
<1>4. m \in Nat /\ k <= m /\ m <= l /\ f[m] = g[m]
  BY <1>3
<1>5. CASE m # k
  <2>1. m - 1 \in 0..l /\ m \in 1..l /\ k <= m - 1 /\ m > k
    BY <1>4, <1>5
  <2>2. b[m] = c[m] /\ b[m] \in Bytes
    BY <1>0, <2>1 DEF AlikeFrom
  <2>3. PICK p, q : p = f[m - 1] /\ q = g[m - 1]
    OBVIOUS
  <2>4. IsWord(p) /\ IsWord(q)
    BY <1>0, <2>1, <2>3, ChecksWords
  <2>5. Update(p, b[m]) = Update(q, b[m])
    BY <1>1, <1>4, <2>1, <2>2, <2>3
  <2>6. p = q
    BY <2>2, <2>4, <2>5, UpdateSame
  <2>7. m - 1 \in Nat /\ m - 1 <= l /\ f[m - 1] = g[m - 1]
    BY <2>1, <2>3, <2>6
  <2>8. m - 1 \in Same
    BY <2>1, <2>7
  <2> QED
    BY <1>3, <1>4, <2>8
<1>6. CASE m = k
  BY <1>4, <1>6
<1> QED
  BY <1>5, <1>6

\* What differs in one byte, or in two that are neighbours, has another check
\* sequence.
Damaged(b, c, k, l) ==
    /\ OfBytes(b, c, l)
    /\ \A n \in 1..l : n \notin {k, k + 1} => b[n] = c[n]
    /\ \E n \in 1..l : b[n] # c[n]

LEMMA DamageIsFound ==
    ASSUME NEW b, NEW c, NEW l \in Nat, Len(b) = l, Len(c) = l,
           NEW k \in 1..l, Damaged(b, c, k, l)
    PROVE  vw_crc(b) # vw_crc(c)
<1> SUFFICES ASSUME vw_crc(b) = vw_crc(c) PROVE FALSE
  OBVIOUS
<1>1. PICK first : first = 65535 /\ IsWord(first)
  BY DEF IsWord
<1>2. PICK f : Checks(f, l, first, b) /\ vw_crc(b) = f[l]
  BY <1>1, CheckOf
<1>3. PICK g : Checks(g, l, first, c) /\ vw_crc(c) = g[l]
  BY <1>1, CheckOf
<1>4. /\ \A n \in 1..l : b[n] \in Bytes /\ c[n] \in Bytes
      /\ \A n \in 1..l : n \notin {k, k + 1} => b[n] = c[n]
  BY DEF Damaged, OfBytes
<1>5. PICK j \in 0..l : j = k - 1
  OBVIOUS
<1>6. f[j] = g[j]
  <2>1. Alike(b, c, j)
    BY <1>4, <1>5 DEF Alike
  <2> QED
    BY <1>2, <1>3, <2>1, ChecksUpTo
<1>7. PICK w : w = f[j] /\ w = g[j] /\ IsWord(w)
  BY <1>1, <1>2, <1>4, <1>6, ChecksWords
<1>8. /\ \A n \in 1..l : f[n] = Update(f[n - 1], b[n])
      /\ \A n \in 1..l : g[n] = Update(g[n - 1], c[n])
  BY <1>2, <1>3, ChecksByOne
<1>9. f[k] = Update(w, b[k]) /\ g[k] = Update(w, c[k])
  BY <1>5, <1>7, <1>8
<1>10. b[k] = c[k] /\ (k < l => b[k + 1] = c[k + 1])
  <2>1. CASE k = l
    <3>1. Update(w, b[k]) = Update(w, c[k])
      BY <1>2, <1>3, <1>9, <2>1
    <3>2. b[k] = c[k]
      BY <1>4, <1>7, <3>1, UpdateSame
    <3> QED
      BY <2>1, <3>2
  <2>2. CASE k # l
    <3>1. PICK m \in 1..l : m = k + 1 /\ m \in 0..l /\ m - 1 = k
      BY <2>2
    <3>2. AlikeFrom(b, c, m, l)
      BY <1>4, <3>1 DEF AlikeFrom
    <3>3. f[m] = g[m]
      <4>1. f[l] = g[l]
        BY <1>2, <1>3
      <4>2. m \in 0..l
        BY <3>1
      <4>3. OfBytes(b, c, l)
        BY DEF Damaged
      <4> QED
        BY <1>1, <1>2, <1>3, <3>2, <4>1, <4>2, <4>3, ChecksFrom
    <3>4. f[m] = Update(f[k], b[m]) /\ g[m] = Update(g[k], c[m])
      BY <1>8, <3>1
    <3>5. Update(Update(w, b[k]), b[m]) = Update(Update(w, c[k]), c[m])
      BY <1>9, <3>3, <3>4
    <3>6. /\ b[k] \in Bytes /\ c[k] \in Bytes
          /\ b[m] \in Bytes /\ c[m] \in Bytes
      BY <1>4
    <3>7. b[k] = c[k] /\ b[m] = c[m]
      BY <1>7, <3>5, <3>6, UpdatesSame
    <3> QED
      BY <3>1, <3>7
  <2> QED
    BY <2>1, <2>2
<1>11. ASSUME NEW n \in 1..l PROVE b[n] = c[n]
  <2>1. n = k \/ (n = k + 1 /\ k < l) \/ n \notin {k, k + 1}
    OBVIOUS
  <2> QED
    BY <1>4, <1>10, <2>1
<1> QED
  BY <1>11 DEF Damaged

\* vw_get_message refuses a frame of which noise has damaged one byte, or two
\* that are neighbours, whichever they are, be it the check sequence itself.
THEOREM DamageIsRefused ==
    ASSUME Types, Check, NEW n \in 1..Len(Messages), vw_rx_len = Size(n),
           NEW k \in 1..vw_rx_len,
           Damaged(vw_rx_buf, Frame(Messages[n]), k, vw_rx_len)
    PROVE  received' = received
<1>0. PICK frame : frame = Frame(Messages[n]) /\ vw_crc(frame) = GOOD
  BY FrameHolds
<1>1. PICK l \in Nat : l = vw_rx_len /\ Len(frame) = l
  BY <1>0, CodeHolds DEF Size
<1>2. PICK bytes : bytes = SubSeq(vw_rx_buf, 1, l)
  OBVIOUS
<1>3. Len(bytes) = l /\ \A i \in 1..l : bytes[i] = vw_rx_buf[i]
  <2>1. vw_rx_len \in 0..VW_MAX_MESSAGE_LEN
    BY DEF Types, TypeOK
  <2> QED
    BY <1>1, <1>2, <2>1
<1>4. Damaged(bytes, frame, k, l)
  BY <1>0, <1>1, <1>3 DEF Damaged, OfBytes
<1>5. vw_crc(bytes) # GOOD
  BY <1>0, <1>1, <1>3, <1>4, DamageIsFound
<1> QED
  BY <1>1, <1>2, <1>5 DEF Check, CheckIf
=============================================================================
