----------------------------- MODULE VirtualWire -----------------------------
(***************************************************************************)
(* The radio link, VirtualWire on both ends: cogzilla's vw_send and        *)
(* transmitter, insula's receiver and vw_get_message.  On each end a timer *)
(* interrupt works on buffers that the main program fills or empties with  *)
(* no lock.  A step of the interrupts is one bit period: the transmitter   *)
(* puts a bit on the air and the receiver's phase locked loop decides for  *)
(* one.  Bits may be flipped, lost or seen twice.                          *)
(***************************************************************************)
EXTENDS Integers, Sequences, SequencesExt

CONSTANTS
    Messages,             \* the payloads cogzilla sends, in order
    VW_MAX_MESSAGE_LEN,   \* size of vw_rx_buf, in bytes
    MaxFaults             \* bound: bits flipped, lost or doubled

\* A message has a count, a byte of payload and two of check sequence.
ASSUME LengthAssumption ==
    /\ VW_MAX_MESSAGE_LEN \in 4..255
    /\ Messages \in Seq(Seq(0..255)) /\ MaxFaults \in Nat
    /\ \A i \in DOMAIN Messages : Len(Messages[i]) \in 1..VW_MAX_MESSAGE_LEN - 3

VARIABLES
    nsent,                                        \* messages given to vw_send
    vw_tx_buf, vw_tx_index, vw_tx_bit, vw_tx_enabled,
    vw_rx_bits, vw_rx_bit_count, vw_rx_active,    \* the receiver's decoder
    vw_rx_buf, vw_rx_count, vw_rx_len, vw_rx_done,
    pc, rxlen, copy,                              \* vw_get_message
    received,                                     \* what it returned as good
    slow,       \* bit periods that passed during this vw_get_message
    heard,      \* history: messages completed (vw_rx_good)
    missed,     \* history: start symbols found before the last was fetched
    held,       \* history: bit periods since the start symbol
    due,        \* history: what heard must reach with the message on the air,
                \* if the receiver was free when it began and no fault came
    faults

transmitter == <<nsent, vw_tx_buf, vw_tx_index, vw_tx_bit, vw_tx_enabled>>
decoder == <<vw_rx_bits, vw_rx_bit_count, vw_rx_active, vw_rx_buf,
             vw_rx_count, vw_rx_len, vw_rx_done, heard, missed>>
fetch == <<pc, rxlen, copy, received>>
vars == <<transmitter, decoder, fetch, slow, held, due, faults>>

-----------------------------------------------------------------------------
\* Coding.  Symbols go out least significant bit first.
symbols == <<13, 14, 19, 21, 22, 25, 26, 28, 35, 37, 38, 41, 42, 44, 50, 52>>

vw_symbol_6to4 == [s \in 0..63 |->
    IF \E i \in 1..16 : symbols[i] = s
    THEN (CHOOSE i \in 1..16 : symbols[i] = s) - 1 ELSE 0]

Byte(bits) == 16 * vw_symbol_6to4[bits % 64] + vw_symbol_6to4[bits \div 64]

\* A byte is two symbols, its upper half first.
Encoded(bytes) == [k \in 1..(2 * Len(bytes)) |->
    LET byte == bytes[(k + 1) \div 2]
    IN  symbols[1 + IF k % 2 = 1 THEN byte \div 16 ELSE byte % 16]]

\* 36 alternating bits and the start symbol.
Header == <<42, 42, 42, 42, 42, 42, 56, 44>>
START == 2872    \* 0xb38

Bit(n, i) == IF (n \div 2^i) % 2 = 1 THEN 1 ELSE 0

\* Exclusive or, from a table for nybbles.
Nybble == [a \in 0..15 |-> [b \in 0..15 |->
    LET x(i) == IF Bit(a, i) # Bit(b, i) THEN 2^i ELSE 0
    IN  x(0) + x(1) + x(2) + x(3)]]

Xor(a, b) == LET n(i) == Nybble[(a \div 16^i) % 16][(b \div 16^i) % 16] * 16^i
             IN  n(0) + n(1) + n(2) + n(3)

\* _crc_ccitt_update of avr-libc: what a low byte does to the high one.
Table == [low \in 0..255 |->
    LET data == Xor(low, (low * 16) % 256)
    IN  Xor(Xor(data * 256, data \div 16), data * 8)]

Update(crc, byte) == Xor(crc \div 256, Table[Xor(crc % 256, byte)])

vw_crc(bytes) ==
    LET crc[n \in 0..Len(bytes)] ==
            IF n = 0 THEN 65535
            ELSE LET last == crc[n - 1] IN Update(last, bytes[n])
    IN  crc[Len(bytes)]

GOOD == 61624    \* 0xf0b8

\* A payload with its count and the complement of its check sequence.
Frame(payload) ==
    LET body == <<Len(payload) + 3>> \o payload
        fcs == 65535 - vw_crc(body)
    IN  body \o <<fcs % 256, fcs \div 256>>

Coded == [i \in DOMAIN Messages |-> Header \o Encoded(Frame(Messages[i]))]

-----------------------------------------------------------------------------
Init ==
    /\ nsent = 0
    /\ vw_tx_buf = Header
    /\ vw_tx_index = 0 /\ vw_tx_bit = 0
    /\ vw_tx_enabled = FALSE
    /\ vw_rx_bits = 0 /\ vw_rx_bit_count = 0
    /\ vw_rx_active = FALSE
    /\ vw_rx_buf = [i \in 1..VW_MAX_MESSAGE_LEN |-> 0]
    /\ vw_rx_count = 0 /\ vw_rx_len = 0
    /\ vw_rx_done = FALSE
    /\ pc = "away" /\ rxlen = 0 /\ copy = <<>>
    /\ received = <<>>
    /\ slow = 0 /\ heard = 0 /\ missed = 0 /\ held = 0 /\ due = 0 /\ faults = 0

\* Cogzilla's main program.  vw_send waits for the transmitter (vw_wait_tx),
\* fills vw_tx_buf and starts it (vw_tx_start).
vw_send ==
    /\ nsent < Len(Messages)
    /\ ~vw_tx_enabled
    /\ nsent' = nsent + 1
    /\ vw_tx_buf' = Coded[nsent + 1]
    /\ vw_tx_index' = 0 /\ vw_tx_bit' = 0
    /\ vw_tx_enabled' = TRUE
    /\ due' = IF vw_rx_active THEN 0 ELSE heard + 1
    /\ UNCHANGED <<decoder, fetch, slow, held, faults>>

\* The transmitter's part of the interrupt, once a bit period, with the level it
\* leaves on the air.
Air == IF vw_tx_enabled /\ vw_tx_index < Len(vw_tx_buf)
       THEN Bit(vw_tx_buf[vw_tx_index + 1], vw_tx_bit) ELSE 0

Transmit ==
    /\ vw_tx_enabled' = (vw_tx_enabled /\ vw_tx_index < Len(vw_tx_buf))
    /\ IF ~vw_tx_enabled'
       THEN UNCHANGED <<vw_tx_bit, vw_tx_index>>
       ELSE IF vw_tx_bit = 5
       THEN vw_tx_bit' = 0 /\ vw_tx_index' = vw_tx_index + 1
       ELSE vw_tx_bit' = vw_tx_bit + 1 /\ UNCHANGED vw_tx_index
    /\ UNCHANGED <<nsent, vw_tx_buf>>

-----------------------------------------------------------------------------
\* vw_pll, once it has decided for a bit.
StartSymbolKeepsBits ==
    /\ vw_rx_active' = TRUE
    /\ vw_rx_len' = 0
    /\ vw_rx_done' = FALSE
    /\ missed' = IF vw_rx_done \/ pc # "away" THEN missed + 1 ELSE missed
    /\ UNCHANGED <<vw_rx_bit_count, vw_rx_buf, vw_rx_count, heard>>

StartSymbol ==
    /\ vw_rx_active' = TRUE
    /\ vw_rx_bit_count' = 0
    /\ vw_rx_len' = 0
    /\ vw_rx_done' = FALSE
    /\ missed' = IF vw_rx_done \/ pc # "away" THEN missed + 1 ELSE missed
    /\ UNCHANGED <<vw_rx_buf, vw_rx_count, heard>>

\* The first byte is the count.  It drops the message if it makes no sense.
SenselessIfShort(byte) == vw_rx_len = 0 /\ byte < 4

Senseless(byte) == vw_rx_len = 0 /\ byte \notin 4..VW_MAX_MESSAGE_LEN

DropStaysActive == UNCHANGED vw_rx_active /\ vw_rx_bit_count' = 0

Drop == vw_rx_active' = FALSE /\ vw_rx_bit_count' = 12

Store(byte) ==
    /\ vw_rx_count' = IF vw_rx_len = 0 THEN byte ELSE vw_rx_count
    /\ vw_rx_buf' = [vw_rx_buf EXCEPT ![vw_rx_len + 1] = byte]
    /\ vw_rx_len' = vw_rx_len + 1
    /\ vw_rx_bit_count' = 0
    /\ IF vw_rx_len' >= vw_rx_count'
       THEN vw_rx_active' = FALSE /\ vw_rx_done' = TRUE /\ heard' = heard + 1
       ELSE UNCHANGED <<vw_rx_active, vw_rx_done, heard>>

Collect ==
    IF vw_rx_bit_count < 11
    THEN /\ vw_rx_bit_count' = vw_rx_bit_count + 1
         /\ UNCHANGED <<vw_rx_active, vw_rx_buf, vw_rx_count, vw_rx_len,
                        vw_rx_done, heard>>
    ELSE LET byte == Byte(vw_rx_bits')
         IN  IF Senseless(byte)
             THEN /\ vw_rx_count' = byte
                  /\ Drop
                  /\ UNCHANGED <<vw_rx_buf, vw_rx_len, vw_rx_done, heard>>
             ELSE Store(byte)

vw_pll(bit) ==
    /\ vw_rx_bits' = (vw_rx_bits \div 2) + 2048 * bit
    /\ IF vw_rx_active
       THEN Collect /\ UNCHANGED missed
       ELSE IF vw_rx_bits' = START
       THEN StartSymbol
       ELSE UNCHANGED <<vw_rx_active, vw_rx_bit_count, vw_rx_buf, vw_rx_count,
                        vw_rx_len, vw_rx_done, heard, missed>>
    /\ held' = IF vw_rx_active /\ vw_rx_active' THEN held + 1 ELSE 0

\* A whole vw_get_message takes less than a bit period, so at most one of them
\* ends in it.
Passes == slow' = IF pc = "away" THEN 0 ELSE slow + 1
InTime == pc = "away" \/ slow = 0

BitPeriod ==
    /\ InTime /\ Passes
    /\ Transmit
    /\ vw_pll(Air)
    /\ UNCHANGED <<fetch, due, faults>>

\* Noise flips a bit; the loop slips and loses a bit, or takes one for two.
Fault ==
    /\ faults < MaxFaults /\ faults' = faults + 1 /\ due' = 0
    /\ InTime /\ Passes
    /\ UNCHANGED fetch
    /\ \/ Transmit /\ vw_pll(1 - Air)
       \/ Transmit /\ UNCHANGED <<decoder, held>>
       \/ vw_pll(Air) /\ UNCHANGED transmitter

-----------------------------------------------------------------------------
\* Insula's main program: vw_get_message, as check_msg calls it.
Test ==
    /\ pc = "away" /\ vw_rx_done
    /\ pc' = "length" /\ slow' = 0
    /\ UNCHANGED <<transmitter, decoder, held, due, faults,
                   rxlen, copy, received>>

Length ==
    /\ pc = "length" /\ pc' = "copy"
    /\ rxlen' = (vw_rx_len - 3) % 256
    /\ UNCHANGED <<transmitter, decoder, held, due, faults,
                   slow, copy, received>>

\* At most the caller's buffer.  Past the end of vw_rx_buf is whatever is there.
Copy ==
    /\ pc = "copy" /\ pc' = "clear"
    /\ copy' = SubSeq(vw_rx_buf \o <<0>>, 2,
                      1 + (IF rxlen < VW_MAX_MESSAGE_LEN THEN rxlen
                           ELSE VW_MAX_MESSAGE_LEN))
    /\ UNCHANGED <<transmitter, decoder, held, due, faults,
                   slow, rxlen, received>>

Clear ==
    /\ pc = "clear" /\ pc' = "check"
    /\ vw_rx_done' = FALSE
    /\ UNCHANGED <<transmitter, vw_rx_bits, vw_rx_bit_count, vw_rx_active,
                   vw_rx_buf, vw_rx_count, vw_rx_len, heard, missed, held,
                   due, faults, slow, rxlen, copy, received>>

CheckIf(good) ==
    /\ pc = "check" /\ pc' = "away"
    /\ received' = IF good THEN Append(received, copy) ELSE received
    /\ rxlen' = 0 /\ copy' = <<>> /\ slow' = 0
    /\ UNCHANGED <<transmitter, decoder, held, due, faults>>

CheckNothing == CheckIf(TRUE)

CheckPayload == CheckIf(vw_crc(SubSeq(vw_rx_buf, 2, vw_rx_len)) = GOOD)

Check == CheckIf(vw_crc(SubSeq(vw_rx_buf, 1, vw_rx_len)) = GOOD)

vw_get_message == Test \/ Length \/ Copy \/ Clear \/ Check

Next == vw_send \/ BitPeriod \/ Fault \/ vw_get_message

Spec == Init /\ [][Next]_vars

-----------------------------------------------------------------------------
Bytes == 0..255

TypeOK ==
    /\ nsent \in 0..Len(Messages)
    /\ vw_tx_bit \in 0..5
    /\ vw_tx_index \in 0..Len(vw_tx_buf)
    /\ vw_tx_enabled \in BOOLEAN
    /\ vw_rx_bits \in 0..4095
    /\ vw_rx_bit_count \in 0..12
    /\ vw_rx_active \in BOOLEAN /\ vw_rx_done \in BOOLEAN
    /\ vw_rx_buf \in [1..VW_MAX_MESSAGE_LEN -> Bytes]
    /\ vw_rx_count \in Bytes
    /\ vw_rx_len \in 0..VW_MAX_MESSAGE_LEN
    /\ vw_rx_active => vw_rx_bit_count < 12 /\ vw_rx_len < VW_MAX_MESSAGE_LEN
    /\ pc \in {"away", "length", "copy", "clear", "check"}
    /\ rxlen \in Bytes
    /\ slow \in 0..1
    /\ faults \in 0..MaxFaults

\* What vw_get_message returns as good are messages of vw_send's, whole, in
\* order and none twice, whatever the noise, the slips and the interrupt between
\* its copy and its check do.
Promise == INSTANCE Datagram WITH
    Message <- Range(Messages), sent <- SubSeq(Messages, 1, nsent)

ImplementsDatagram == Promise!DatagramSpec

\* A message that begins while the receiver is free and meets no fault is heard
\* when its transmission ends, whatever an earlier damaged message left behind
\* in the decoder.
HeardWhenFree == ~vw_tx_enabled => due <= heard

\* Without faults what was heard ends as returned, as waiting to be fetched, or
\* as missed because its successor's start symbol came before the fetch was
\* done.
Waiting == ~vw_rx_active /\ (vw_rx_done \/ pc # "away")

NoneVanishes ==
    faults = 0 =>
        Len(received) + missed + (IF Waiting THEN 1 ELSE 0) = heard

\* No noise holds the receiver for longer than the longest message takes: what
\* begins ends or is dropped, and the next start symbol can be found.
ReceiverIsReleased == held <= 12 * VW_MAX_MESSAGE_LEN
=============================================================================
