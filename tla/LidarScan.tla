------------------------------ MODULE LidarScan ------------------------------
(***************************************************************************)
(* Insula's LIDAR scan, URG04LX::supertest, against the USART2 receive     *)
(* interrupt.  While Serialflag.flag2 is up the interrupt fills URG_buffer *)
(* and counts in URG_counter; distAcq spins on the counter, skips the      *)
(* header and decodes the distances.  The counter has 16 bits and the      *)
(* processor loads 8 at a time, so a load can be split by the interrupt;   *)
(* the interrupt reads the data register UDR2 twice, and UDR2 is a queue.  *)
(***************************************************************************)
EXTENDS Integers, Sequences

CONSTANTS
    Reply,         \* the bytes the sensor answers to BM and MS, in order
    BMReply,       \* how many of them answer BM
    Distances,     \* the distances the data section of Reply spells
    Stale,         \* what URG_buffer may hold before the scan
    Latency        \* bytes that may have come when the interrupt runs: 1 or 2

ASSUME LatencyAssumption == Latency \in {1, 2}

\* As in the source: the two waits, the distances in a scan and their filter;
\* and a first wait for more than the sensor sends, a second for too little.
HeaderBytesLong == 589
HeaderBytes == 128
ScanBytesShort == 584
ScanBytes == 585
Measurements == 257
MIN_DIST == 66
MAX_DIST == 2500
BufferSize == 640

LF == 10

\* The sensor's answers: the header takes all but 257 distances of two
\* characters, nine check sums with their line feeds and the final line feed.
HeaderEnd ==
    Len(Reply) - (2 * Measurements + 2 * (Measurements \div 32 + 1) + 1)

FiveEndAt(k) ==
    /\ k > 5 /\ Reply[k] = LF
    /\ \A i \in (k - 5)..(k - 1) : Reply[i] # LF
    /\ k = 6 \/ Reply[k - 6] = LF

ASSUME ReplyAssumption ==
    /\ Reply \in Seq(0..255) /\ Len(Reply) = 588 /\ BMReply \in 0..588
    /\ Stale \subseteq [0..(BufferSize - 1) -> 0..255]

\* The time stamp is the first line of five characters.
ASSUME HeaderAssumption ==
    \A k \in 1..HeaderEnd : FiveEndAt(k) <=> k = HeaderEnd

\* Behind each 32 distances comes a check sum and a line feed.
ASSUME DataAssumption ==
    /\ \A i \in 1..Measurements :
          LET before == HeaderEnd + 2 * ((i - 1) + (i - 1) \div 32)
              high == Reply[before + 1]
              low6 == Reply[before + 2]
          IN  /\ LF \notin {high, low6}
              /\ Distances[i] = (high - 48) * 64 + (low6 - 48)
    /\ \A j \in 1..(Measurements \div 32) : Reply[HeaderEnd + 66 * j] = LF

VARIABLES
    due,           \* bytes the sensor has been asked for and not yet sent
    udr,           \* UDR2: received bytes the interrupt has not read
    flag2,         \* Serialflag.flag2
    URG_buffer, URG_counter,
    ring,          \* how many bytes rx_buffer2 holds
    pc,            \* where the main program is
    low,           \* the low byte of the counter it has loaded, or -1
    bytecnt, line_char, LidarData,   \* distAcq's locals and its result
    torn           \* history: a load has given a value the counter never had

sensor == <<due, udr>>
isr == <<URG_buffer, URG_counter, ring>>
locals == <<low, bytecnt, line_char, LidarData>>
vars == <<sensor, isr, flag2, pc, locals, torn>>

Init ==
    /\ due = <<>>
    /\ udr = <<>>
    /\ flag2 = 0
    /\ URG_buffer \in Stale
    /\ URG_counter = 0
    /\ ring = 0
    /\ pc = "idle"
    /\ low = -1
    /\ bytecnt = 0
    /\ line_char = 0
    /\ LidarData = <<>>
    /\ torn = FALSE

-----------------------------------------------------------------------------
\* The sensor's next byte arrives.
Arrive ==
    /\ due # <<>>
    /\ Len(udr) < Latency
    /\ udr' = Append(udr, Head(due))
    /\ due' = Tail(due)
    /\ UNCHANGED <<isr, flag2, pc, locals, torn>>

\* An interrupt that keeps both of its reads.
FillBufferTwice ==
    /\ udr # <<>>
    /\ flag2 # 0
    /\ URG_counter < BufferSize
    /\ low \in {-1, URG_counter % 256}
    /\ URG_buffer' = [URG_buffer EXCEPT ![URG_counter] = udr[1]]
    /\ URG_counter' = URG_counter + 2
    /\ udr' = <<>>
    /\ UNCHANGED <<due, ring, flag2, pc, locals, torn>>

\* The interrupt reads UDR2, and once more to fill URG_buffer: the second read
\* finds the next byte when one is there and the same byte when none is.  It
\* runs at most once between the two loads of the counter: after an interrupt
\* the processor executes an instruction before it takes the next.
FillBuffer ==
    /\ udr # <<>>
    /\ flag2 # 0
    /\ URG_counter < BufferSize
    /\ low \in {-1, URG_counter % 256}
    /\ URG_buffer' = [URG_buffer EXCEPT ![URG_counter] = udr[Len(udr)]]
    /\ URG_counter' = URG_counter + 1
    /\ udr' = <<>>
    /\ UNCHANGED <<due, ring, flag2, pc, locals, torn>>

StoreChar ==
    /\ udr # <<>>
    /\ flag2 = 0
    /\ udr' = Tail(udr)
    /\ ring' = ring + 1
    /\ UNCHANGED <<due, URG_buffer, URG_counter, flag2, pc, locals, torn>>

-----------------------------------------------------------------------------
\* supertest: setSerial(OFF), laser(ON), then distAcq writes its command.
\* Bound: one scan; Stale stands for the ones before it.
SetSerialOff ==
    /\ pc = "idle" /\ LidarData = <<>>
    /\ URG_counter' = 0
    /\ flag2' = 3
    /\ pc' = "laser"
    /\ UNCHANGED <<sensor, URG_buffer, ring, locals, torn>>

LaserOn ==
    /\ pc = "laser"
    /\ due' = due \o SubSeq(Reply, 1, BMReply)
    /\ pc' = "command"
    /\ UNCHANGED <<udr, isr, flag2, locals, torn>>

WriteCommand ==
    /\ pc = "command"
    /\ due' = due \o SubSeq(Reply, BMReply + 1, Len(Reply))
    /\ pc' = "wait_header"
    /\ UNCHANGED <<udr, isr, flag2, locals, torn>>

\* A load of URG_counter that the interrupt may split: its low byte is loaded
\* here, its high byte by the comparison.  Only where the interrupt would carry
\* into the high byte: elsewhere a split load gives what a whole one gives at
\* the time of its low byte.
LoadLow ==
    /\ pc \in {"wait_header", "header", "wait_scan"}
    /\ low = -1
    /\ URG_counter % 256 = 255
    /\ low' = URG_counter % 256
    /\ UNCHANGED <<sensor, isr, flag2, pc, bytecnt, line_char, LidarData, torn>>

\* The value compared with.  A carry between the two loads makes it too large by
\* 255: with 0x00FF changing to 0x0100 the loads give 0x01FF.
Loaded == IF low = -1 THEN URG_counter
          ELSE (URG_counter \div 256) * 256 + low

WaitHeader ==
    /\ pc = "wait_header"
    /\ low' = -1
    /\ pc' = IF Loaded < HeaderBytes THEN pc ELSE "header"
    /\ torn' = (torn \/ Loaded > URG_counter)
    /\ UNCHANGED <<sensor, isr, flag2, bytecnt, line_char, LidarData>>

\* A search that counts the characters of all lines together.
SkipHeaderNoReset ==
    /\ pc = "header"
    /\ low' = -1
    /\ IF Loaded < bytecnt
       THEN pc' = "wait_scan" /\ UNCHANGED <<bytecnt, line_char>>
       ELSE /\ bytecnt' = bytecnt + 1
            /\ IF URG_buffer[bytecnt] = LF
               THEN /\ UNCHANGED line_char
                    /\ pc' = IF line_char = 5 THEN "wait_scan" ELSE pc
               ELSE line_char' = line_char + 1 /\ UNCHANGED pc
    /\ torn' = (torn \/ Loaded > URG_counter)
    /\ UNCHANGED <<sensor, isr, flag2, LidarData>>

\* The end of the header is a line of five characters, the time stamp.
SkipHeader ==
    /\ pc = "header"
    /\ low' = -1
    /\ IF Loaded < bytecnt
       THEN pc' = "wait_scan" /\ UNCHANGED <<bytecnt, line_char>>
       ELSE /\ bytecnt' = bytecnt + 1
            /\ IF URG_buffer[bytecnt] = LF
               THEN /\ line_char' = 0
                    /\ pc' = IF line_char = 5 THEN "wait_scan" ELSE pc
               ELSE line_char' = line_char + 1 /\ UNCHANGED pc
    /\ torn' = (torn \/ Loaded > URG_counter)
    /\ UNCHANGED <<sensor, isr, flag2, LidarData>>

WaitScan ==
    /\ pc = "wait_scan"
    /\ low' = -1
    /\ pc' = IF Loaded < ScanBytes THEN pc ELSE "parse"
    /\ torn' = (torn \/ Loaded > URG_counter)
    /\ UNCHANGED <<sensor, isr, flag2, bytecnt, line_char, LidarData>>

\* A distance is two characters of six bits; one out of range counts as none.
Filter(d) == IF d < MIN_DIST \/ MAX_DIST < d THEN 0 ELSE d

Pair == <<URG_buffer[bytecnt], URG_buffer[bytecnt + 1]>>

Parse ==
    /\ pc = "parse"
    /\ bytecnt + 1 < BufferSize
    /\ bytecnt' = bytecnt + 2
    /\ LidarData' = IF LF \in {Pair[1], Pair[2]} THEN LidarData
                    ELSE Append(LidarData,
                                Filter((Pair[1] - 48) * 64 + (Pair[2] - 48)))
    /\ pc' = IF Len(LidarData') = Measurements THEN "forces" ELSE pc
    /\ UNCHANGED <<sensor, isr, flag2, low, line_char, torn>>

\* BruteCalc, send_force and the report end in setSerial(ON), which empties the
\* ring before it lowers the flag.
SetSerialOn ==
    /\ pc = "forces"
    /\ ring' = 0
    /\ flag2' = 0
    /\ bytecnt' = 0
    /\ line_char' = 0
    /\ pc' = "idle"
    /\ UNCHANGED <<sensor, URG_buffer, URG_counter, low, LidarData, torn>>

Isr == FillBuffer \/ StoreChar
Main == SetSerialOff \/ LaserOn \/ WriteCommand \/ LoadLow \/ WaitHeader
        \/ SkipHeader \/ WaitScan \/ Parse \/ SetSerialOn

Next == Arrive \/ Isr \/ Main

\* The sensor sends what it was asked for, the interrupt takes what has come,
\* and the main loop, which only ever spins, goes on.
Spec ==
    Init /\ [][Next]_vars /\ WF_vars(Arrive) /\ WF_vars(Isr) /\ WF_vars(Main)

-----------------------------------------------------------------------------
\* Every variable has its type, and URG_buffer is not overrun.
TypeOK ==
    /\ Len(udr) <= Latency
    /\ flag2 \in {0, 3}
    /\ URG_counter \in 0..(BufferSize - 1)
    /\ pc \in {"idle", "laser", "command", "wait_header", "header",
               "wait_scan", "parse", "forces"}
    /\ low \in -1..255
    /\ bytecnt \in 0..BufferSize
    /\ Len(LidarData) <= Measurements

\* A scan is decoded into exactly the distances the sensor measured: the wait
\* for 585 bytes covers every byte the parser reads, and none of an earlier
\* scan is left in the part of URG_buffer it reads, unless a load was torn.
Measured ==
    LidarData = [i \in 1..Measurements |-> Filter(Distances[i])]

ParsedIsMeasured == pc = "forces" /\ ~torn => Measured

\* "incoming data is always 588 bytes", awaited and then parsed: the distances
\* that distAcq returns are the sensor's, with no exception.
AlwaysMeasured == pc = "forces" => Measured

\* The header scan stops right after the time stamp, neither short of it nor
\* beyond, and never for want of a byte, although the counter it compares with
\* may be torn.
HeaderFound == pc = "wait_scan" => bytecnt = HeaderEnd

\* A scan that is begun ends: distAcq leaves both of its waits.
ScanEnds == flag2 # 0 ~> flag2 = 0
=============================================================================
