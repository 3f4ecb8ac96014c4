-------------------------- MODULE LidarScan_proofs --------------------------
(***************************************************************************)
(* The invariants of the LIDAR scan, for every reply of the sensor that    *)
(* has the layout of ReplyAssumption, HeaderAssumption and DataAssumption, *)
(* every content of URG_buffer before it and every place at which the      *)
(* interrupt splits a load of the counter.                                 *)
(***************************************************************************)
EXTENDS LidarScan, SequenceTheorems, TLAPS

Char == 0..255

\* What the sensor has been asked for in this scan.
Asked == IF pc \in {"idle", "laser"} THEN 0
         ELSE IF pc = "command" THEN BMReply ELSE 588

Types ==
    /\ TypeOK
    /\ due \in Seq(Char) /\ udr \in Seq(Char)
    /\ URG_buffer \in [0..(BufferSize - 1) -> Char]
    /\ LidarData \in Seq(Int)
    /\ line_char \in Nat

\* The sensor sends at most what it was asked for.
Counted ==
    /\ pc = "idle" <=> flag2 = 0
    /\ URG_counter <= 588
    /\ pc # "idle" => URG_counter + Len(udr) + Len(due) <= Asked
    /\ pc = "idle" /\ LidarData = <<>> => due = <<>> /\ udr = <<>>

\* A low byte that is kept is 255, and its interrupt has come or not.
LowByte ==
    low = -1 \/ /\ pc \in {"wait_header", "header", "wait_scan"}
                /\ low = 255 /\ URG_counter >= 255
                /\ URG_counter % 256 \in {255, 0}

\* The header scan may be one byte ahead of the counter, two after a torn load.
Ahead ==
    /\ pc \in {"idle", "laser", "command", "wait_header"} =>
          bytecnt = 0 /\ line_char = 0
    /\ pc = "header" =>
          /\ bytecnt <= URG_counter + 2
          /\ low = 255 /\ URG_counter % 256 = 0 => bytecnt <= URG_counter + 1

Scanned ==
    /\ pc \notin {"idle", "parse", "forces"} => LidarData = <<>>
    /\ pc = "parse" => Len(LidarData) < Measurements
    /\ pc = "forces" => Len(LidarData) = Measurements

\* This holds for both latencies.
Typed == Types /\ Counted /\ LowByte /\ Ahead /\ Scanned

\* When the interrupt is never late, no byte of the reply is lost: URG_buffer
\* holds its beginning, and the rest is on its way.
NothingLost ==
    /\ URG_counter + Len(udr) + Len(due) = Asked
    /\ \A i \in 1..Len(udr) : udr[i] = Reply[URG_counter + i]
    /\ \A i \in 1..Len(due) : due[i] = Reply[URG_counter + Len(udr) + i]
    /\ \A j \in 0..(URG_counter - 1) : URG_buffer[j] = Reply[j + 1]

\* The line the header scan is in.
LineSoFar ==
    /\ line_char <= bytecnt
    /\ \A i \in (bytecnt - line_char + 1)..bytecnt : Reply[i] # LF
    /\ line_char < bytecnt => Reply[bytecnt - line_char] = LF

\* The parser is at the next distance, or at the check sum before it.
Decoded ==
    LET n == Len(LidarData)
        at == HeaderEnd + 2 * (n + n \div 32)
    IN  /\ \A i \in 1..n : LidarData[i] = Filter(Distances[i])
        /\ bytecnt = at \/ (n > 0 /\ n % 32 = 0 /\ bytecnt = at - 2)

Whole ==
    /\ pc # "idle" => NothingLost
    /\ pc = "header" => /\ URG_counter >= HeaderBytes
                        /\ bytecnt < HeaderEnd
                        /\ LineSoFar
    /\ HeaderFound
    /\ pc = "parse" /\ ~torn => URG_counter >= ScanBytes /\ Decoded
    /\ ParsedIsMeasured

IInv == Typed /\ (Latency = 1 => Whole)

-----------------------------------------------------------------------------
LEMMA Sizes ==
    /\ HeaderEnd = 55 /\ HeaderBytes = 128 /\ ScanBytes = 585
    /\ Measurements = 257 /\ BufferSize = 640 /\ LF = 10
    /\ BMReply \in 0..588 /\ Latency \in {1, 2}
<1>1. Len(Reply) = 588 /\ BMReply \in 0..588
  BY ReplyAssumption
<1> QED
  BY <1>1, LatencyAssumption
  DEF HeaderEnd, HeaderBytes, ScanBytes, Measurements, BufferSize, LF

LEMMA Numbers ==
    ASSUME Types
    PROVE  /\ Len(due) \in Nat /\ Len(udr) \in Nat /\ Len(LidarData) \in Nat
           /\ Len(udr) <= Latency /\ Latency \in {1, 2}
           /\ URG_counter \in Nat /\ URG_counter \in 0..639
           /\ low \in -1..255 /\ bytecnt \in Nat /\ bytecnt \in 0..640
           /\ Len(LidarData) <= 257 /\ line_char \in Nat
           /\ pc \in {"idle", "laser", "command", "wait_header", "header",
                      "wait_scan", "parse", "forces"}
           /\ flag2 \in {0, 3}
<1>1. Len(due) \in Nat /\ Len(udr) \in Nat /\ Len(LidarData) \in Nat
  BY LenProperties DEF Types
<1>2. Len(udr) <= Latency /\ Len(LidarData) <= 257 /\ line_char \in Nat
  BY DEF Types, TypeOK, Measurements
<1>3. /\ URG_counter \in 0..639 /\ low \in -1..255 /\ bytecnt \in 0..640
      /\ flag2 \in {0, 3}
      /\ pc \in {"idle", "laser", "command", "wait_header", "header",
                 "wait_scan", "parse", "forces"}
  BY DEF Types, TypeOK, BufferSize
<1>4. URG_counter \in Nat /\ bytecnt \in Nat
  BY <1>3
<1> QED
  BY <1>1, <1>2, <1>3, <1>4, LatencyAssumption

LEMMA Numbered ==
    ASSUME due \in Seq(Char), udr \in Seq(Char), Len(udr) <= Latency,
           URG_buffer \in [0..639 -> Char], URG_counter \in 0..639,
           LidarData \in Seq(Int), Len(LidarData) <= 257, line_char \in Nat,
           low \in -1..255, bytecnt \in 0..640, flag2 \in {0, 3},
           pc \in {"idle", "laser", "command", "wait_header", "header",
                   "wait_scan", "parse", "forces"}
    PROVE  Types
  BY Sizes DEF Types, TypeOK

LEMMA AskedRange == Asked \in 0..588
  BY Sizes DEF Asked

\* What has been loaded is the counter or, torn, 255 more.
LEMMA LoadedFacts ==
    ASSUME Types, LowByte
    PROVE  /\ Loaded \in Nat
           /\ Loaded = URG_counter \/ (/\ low = 255 /\ URG_counter % 256 = 0
                                       /\ URG_counter >= 256
                                       /\ Loaded = URG_counter + 255)
<1>1. URG_counter \in Nat
  BY Numbers
<1>2. CASE low = -1
  BY <1>1, <1>2 DEF Loaded
<1>3. CASE low = 255 /\ URG_counter % 256 = 255
  BY <1>1, <1>3 DEF Loaded
<1>4. CASE low = 255 /\ URG_counter % 256 = 0 /\ URG_counter >= 255
  BY <1>1, <1>4 DEF Loaded
<1> QED
  BY <1>2, <1>3, <1>4 DEF LowByte

LEMMA TypedInit == Init => Typed
<1> SUFFICES ASSUME Init PROVE Typed
  OBVIOUS
<1>1. /\ due = <<>> /\ udr = <<>> /\ flag2 = 0 /\ URG_counter = 0
      /\ pc = "idle" /\ low = -1 /\ bytecnt = 0 /\ line_char = 0
      /\ LidarData = <<>>
  BY DEF Init
<1>2. URG_buffer \in [0..639 -> Char]
  <2>1. Stale \subseteq [0..(BufferSize - 1) -> Char] /\ URG_buffer \in Stale
    BY ReplyAssumption DEF Init, Char
  <2> QED
    BY <2>1 DEF BufferSize
<1>3. /\ due \in Seq(Char) /\ udr \in Seq(Char) /\ LidarData \in Seq(Int)
      /\ Len(udr) = 0 /\ Len(LidarData) = 0
  BY <1>1, EmptySeq
<1>l. Latency \in {1, 2}
  BY LatencyAssumption
<1>4. Types
  <2>1. /\ Len(udr) <= Latency /\ Len(LidarData) <= 257
        /\ URG_counter \in 0..639 /\ low \in -1..255 /\ bytecnt \in 0..640
        /\ line_char \in Nat /\ flag2 \in {0, 3}
    BY <1>1, <1>3, <1>l
  <2>2. pc \in {"idle", "laser", "command", "wait_header", "header",
                "wait_scan", "parse", "forces"}
    BY <1>1
  <2> QED
    BY <1>2, <1>3, <2>1, <2>2, Numbered
<1> QED
  BY <1>1, <1>4 DEF Typed, Counted, LowByte, Ahead, Scanned

LEMMA FirstOf ==
    ASSUME NEW s \in Seq(Char), s # <<>>
    PROVE  /\ Head(s) = s[1] /\ s[1] \in Char /\ Len(s) \in Nat \ {0}
           /\ Tail(s) \in Seq(Char) /\ Len(Tail(s)) = Len(s) - 1
           /\ \A i \in 1..(Len(s) - 1) : Tail(s)[i] = s[i + 1]
           /\ s[Len(s)] \in Char
<1>1. Len(s) \in Nat \ {0}
  BY EmptySeq
<1>2. /\ Tail(s) \in Seq(Char) /\ Len(Tail(s)) = Len(s) - 1
      /\ \A i \in 1..Len(Tail(s)) : Tail(s)[i] = s[i + 1]
  BY HeadTailProperties
<1>3. s[1] \in Char /\ s[Len(s)] \in Char
  BY <1>1, ElementOfSeq
<1> QED
  BY <1>1, <1>2, <1>3

LEMMA ArriveTyped ==
    ASSUME Typed, Arrive
    PROVE  Typed'
<1>1. /\ due # <<>> /\ Len(udr) < Latency
      /\ udr' = Append(udr, Head(due)) /\ due' = Tail(due)
      /\ UNCHANGED <<URG_buffer, URG_counter, flag2, pc, low, bytecnt,
                     line_char, LidarData>>
  BY DEF Arrive, isr, locals
<1>2. due \in Seq(Char) /\ udr \in Seq(Char)
  BY DEF Typed, Types
<1>3. /\ Head(due) \in Char /\ Len(due) \in Nat \ {0}
      /\ due' \in Seq(Char) /\ Len(due') = Len(due) - 1
  BY <1>1, <1>2, FirstOf
<1>4. udr' \in Seq(Char) /\ Len(udr') = Len(udr) + 1
  BY <1>1, <1>2, <1>3, AppendProperties
<1>5. Len(udr) \in Nat /\ Latency \in {1, 2}
  BY Numbers DEF Typed
<1>6. Len(udr') <= Latency
  BY <1>1, <1>4, <1>5
<1>7. Types'
  BY <1>1, <1>3, <1>4, <1>6 DEF Typed, Types, TypeOK
<1>8. Counted'
  <2>1. URG_counter \in Nat
    BY Numbers DEF Typed
  <2>2. /\ URG_counter + Len(udr) + Len(due)
               = URG_counter + Len(udr') + Len(due')
    BY <1>3, <1>4, <1>5, <2>1
  <2>3. Asked' = Asked
    BY <1>1 DEF Asked
  <2>4. pc # "idle" => URG_counter' + Len(udr') + Len(due') <= Asked'
    BY <1>1, <2>2, <2>3 DEF Typed, Counted
  <2> QED
    BY <1>1, <2>4 DEF Typed, Counted
<1> QED
  BY <1>1, <1>7, <1>8 DEF Typed, LowByte, Ahead, Scanned

LEMMA FillFacts ==
    ASSUME Typed, FillBuffer
    PROVE  /\ pc # "idle" /\ udr # <<>> /\ Len(udr) \in Nat \ {0}
           /\ udr[Len(udr)] \in Char
           /\ URG_buffer' = [URG_buffer EXCEPT ![URG_counter] = udr[Len(udr)]]
           /\ URG_counter' = URG_counter + 1 /\ URG_counter \in 0..587
           /\ low \in {-1, URG_counter % 256}
           /\ udr' = <<>> /\ Len(udr') = 0 /\ udr' \in Seq(Char)
           /\ UNCHANGED <<due, flag2, pc, low, bytecnt, line_char, LidarData,
                          torn>>
<1>1. /\ udr # <<>> /\ flag2 # 0
      /\ URG_buffer' = [URG_buffer EXCEPT ![URG_counter] = udr[Len(udr)]]
      /\ URG_counter' = URG_counter + 1
      /\ low \in {-1, URG_counter % 256} /\ udr' = <<>>
      /\ UNCHANGED <<due, flag2, pc, low, bytecnt, line_char, LidarData, torn>>
  BY DEF FillBuffer, locals
<1>2. udr \in Seq(Char)
  BY DEF Typed, Types
<1>3. Len(udr) \in Nat \ {0} /\ udr[Len(udr)] \in Char
  BY <1>1, <1>2, FirstOf
<1>4. udr' \in Seq(Char) /\ Len(udr') = 0
  BY <1>1, EmptySeq
<1>5. pc # "idle" /\ URG_counter + Len(udr) + Len(due) <= Asked
  BY <1>1 DEF Typed, Counted
<1>6. URG_counter \in Nat /\ Len(due) \in Nat
  BY Numbers DEF Typed
<1>7. URG_counter \in 0..587
  BY <1>3, <1>5, <1>6, AskedRange, SMTT(30)
<1> QED
  BY <1>1, <1>3, <1>4, <1>5, <1>7

LEMMA FillTyped ==
    ASSUME Typed, FillBuffer
    PROVE  Typed'
<1>f. /\ pc # "idle" /\ Len(udr) \in Nat \ {0}
      /\ udr[Len(udr)] \in Char
      /\ URG_buffer' = [URG_buffer EXCEPT ![URG_counter] = udr[Len(udr)]]
      /\ URG_counter' = URG_counter + 1 /\ URG_counter \in 0..587
      /\ udr' = <<>> /\ Len(udr') = 0 /\ udr' \in Seq(Char)
      /\ UNCHANGED <<due, flag2, pc, low, bytecnt, line_char, LidarData>>
  BY FillFacts
<1>1. Types'
  <2>1. URG_counter' \in 0..(BufferSize - 1)
    BY <1>f DEF BufferSize
  <2>2. Len(udr') <= Latency
    BY <1>f, LatencyAssumption
  <2>3. URG_buffer' \in [0..(BufferSize - 1) -> Char]
    BY <1>f DEF Typed, Types
  <2> QED
    BY <1>f, <2>1, <2>2, <2>3 DEF Typed, Types, TypeOK
<1>2. Counted'
  <2>0. Asked \in 0..588
    BY AskedRange
  <2>1. URG_counter + Len(udr) + Len(due) <= Asked /\ Asked' = Asked
    BY FillFacts DEF Typed, Counted, Asked
  <2>2. Len(due) \in Nat /\ Len(due') = Len(due) /\ Len(udr) \in Nat \ {0}
    BY FillFacts, Numbers DEF Typed
  <2>3. URG_counter' + Len(udr') + Len(due') <= Asked'
    BY <1>f, <2>0, <2>1, <2>2
  <2>4. URG_counter' <= 588
    BY <1>f
  <2> QED
    BY FillFacts, <2>3, <2>4 DEF Typed, Counted
<1>3. LowByte'
  <2>1. CASE low = -1
    BY <2>1, FillFacts DEF LowByte
  <2>2. CASE low # -1
    <3>1. /\ low = 255 /\ URG_counter % 256 = 255 /\ URG_counter \in 0..587
          /\ pc \in {"wait_header", "header", "wait_scan"}
      BY <2>2, FillFacts DEF Typed, LowByte
    <3>2. (URG_counter + 1) % 256 = 0 /\ URG_counter + 1 >= 255
      BY <3>1
    <3> QED
      BY <3>1, <3>2, FillFacts DEF LowByte
  <2> QED
    BY <2>1, <2>2
<1>4. Ahead'
  <2>1. bytecnt \in Nat /\ URG_counter \in Nat
    BY Numbers DEF Typed
  <2> QED
    BY <2>1, FillFacts DEF Typed, Ahead
<1> QED
  BY <1>1, <1>2, <1>3, <1>4, FillFacts DEF Typed, Scanned

LEMMA StoreTyped ==
    ASSUME Typed, StoreChar
    PROVE  Typed'
<1>1. /\ udr # <<>> /\ flag2 = 0 /\ udr' = Tail(udr)
      /\ UNCHANGED <<due, URG_buffer, URG_counter, flag2, pc, low, bytecnt,
                     line_char, LidarData>>
  BY DEF StoreChar, locals
<1>2. udr \in Seq(Char)
  BY DEF Typed, Types
<1>3. /\ Len(udr) \in Nat \ {0} /\ udr' \in Seq(Char)
      /\ Len(udr') = Len(udr) - 1
  BY <1>1, <1>2, FirstOf
<1>4. Len(udr') <= Latency
  BY <1>3, Numbers DEF Typed
<1> QED
  BY <1>1, <1>3, <1>4
  DEF Typed, Types, TypeOK, Counted, LowByte, Ahead, Scanned

LEMMA PartOf ==
    ASSUME NEW a \in 1..589, NEW b \in 0..588, a <= b + 1
    PROVE  /\ SubSeq(Reply, a, b) \in Seq(Char)
           /\ Len(SubSeq(Reply, a, b)) = b + 1 - a
           /\ \A i \in 1..(b + 1 - a) :
                 SubSeq(Reply, a, b)[i] = Reply[a + i - 1]
<1>1. Reply \in Seq(Char) /\ Len(Reply) = 588
  BY ReplyAssumption DEF Char
<1>2. \A i \in a..b : Reply[i] \in Char
  <2>1. Reply \in Seq(Char)
    BY <1>1
  <2>2. \A i \in 1..Len(Reply) : Reply[i] \in Char
    BY <2>1, ElementOfSeq
  <2>3. Len(Reply) = 588
    BY <1>1
  <2>4. \A i \in 1..588 : Reply[i] \in Char
    BY <2>2, <2>3
  <2>5. \A i \in a..b : i \in 1..588
    OBVIOUS
  <2> QED
    BY <2>4, <2>5
<1>3. a \in Int /\ b \in Int
  OBVIOUS
<1>4. /\ SubSeq(Reply, a, b) \in Seq(Char)
      /\ Len(SubSeq(Reply, a, b)) = IF a <= b THEN b - a + 1 ELSE 0
      /\ \A i \in 1..(b - a + 1) : SubSeq(Reply, a, b)[i] = Reply[a + i - 1]
  BY <1>2, <1>3, SubSeqProperties
<1> QED
  BY <1>4

\* Asking for a part of the reply.
LEMMA AskFacts ==
    ASSUME Typed, LaserOn \/ WriteCommand
    PROVE  \E part \in Seq(Char), a \in 1..589 :
              /\ due' = due \o part
              /\ Len(part) = Asked' - Asked /\ a = Asked + 1
              /\ \A i \in 1..Len(part) : part[i] = Reply[a + i - 1]
<1>1. BMReply \in 0..588 /\ Len(Reply) = 588
  BY ReplyAssumption
<1>2. CASE LaserOn
  <2>1. due' = due \o SubSeq(Reply, 1, BMReply) /\ Asked = 0 /\ Asked' = BMReply
    BY <1>2 DEF LaserOn, Asked
  <2>2. PICK b \in 0..588 : b = BMReply
    BY <1>1
  <2>3. 1 \in 1..589 /\ 1 <= b + 1
    OBVIOUS
  <2>4. PICK part : part = SubSeq(Reply, 1, b)
    OBVIOUS
  <2>5. /\ part \in Seq(Char) /\ Len(part) = b + 1 - 1
        /\ \A i \in 1..(b + 1 - 1) : part[i] = Reply[1 + i - 1]
    BY <2>3, <2>4, PartOf, ZenonT(60)
  <2>6. b + 1 - 1 = Asked' - Asked /\ 1 = Asked + 1
    BY <2>1, <2>2
  <2> QED
    BY <2>1, <2>2, <2>4, <2>5, <2>6
<1>3. CASE WriteCommand
  <2>1. due' = due \o SubSeq(Reply, BMReply + 1, Len(Reply))
    BY <1>3 DEF WriteCommand
  <2>2. Asked = BMReply /\ Asked' = 588
    BY <1>3 DEF WriteCommand, Asked
  <2>3. PICK a \in 1..589 : a = BMReply + 1
    BY <1>1
  <2>4. PICK b \in 0..588 : b = 588 /\ b = Len(Reply)
    BY <1>1
  <2>5. a <= b + 1
    BY <2>3, <2>4
  <2>6. PICK part : part = SubSeq(Reply, a, b)
    OBVIOUS
  <2>7. /\ part \in Seq(Char) /\ Len(part) = b + 1 - a
        /\ \A i \in 1..(b + 1 - a) : part[i] = Reply[a + i - 1]
    BY <2>5, <2>6, PartOf, ZenonT(60)
  <2>8. Len(part) = Asked' - Asked /\ a = Asked + 1
    <3>1. Len(part) = 588 + 1 - a
      BY <2>4, <2>7
    <3>2. 588 + 1 - a = 588 - BMReply /\ a = BMReply + 1
      BY <1>1, <2>3
    <3> QED
      BY <2>2, <3>1, <3>2
  <2>9. due' = due \o part
    BY <2>1, <2>3, <2>4, <2>6
  <2>10. \A i \in 1..Len(part) : part[i] = Reply[a + i - 1]
    BY <2>7
  <2> QED
    BY <2>7, <2>8, <2>9, <2>10
<1> QED
  BY <1>2, <1>3

LEMMA AskTyped ==
    ASSUME Typed, LaserOn \/ WriteCommand
    PROVE  Typed'
<1>1. /\ pc \in {"laser", "command"} /\ pc' \in {"command", "wait_header"}
      /\ UNCHANGED <<udr, URG_buffer, URG_counter, flag2, low, bytecnt,
                     line_char, LidarData>>
  BY DEF LaserOn, WriteCommand, isr, locals
<1>2. PICK part \in Seq(Char) :
         due' = due \o part /\ Len(part) = Asked' - Asked
  BY AskFacts
<1>3. due \in Seq(Char)
  BY DEF Typed, Types
<1>4. due' \in Seq(Char) /\ Len(due') = Len(due) + Len(part)
  BY <1>2, <1>3, ConcatProperties
<1>5. Types'
  BY <1>1, <1>4 DEF Typed, Types, TypeOK
<1>6. Asked \in 0..588 /\ Asked' \in 0..588
  <2>1. Asked' \in 0..588
    BY <1>1, Sizes DEF Asked
  <2> QED
    BY <2>1, AskedRange
<1>7. Counted'
  <2>1. URG_counter + Len(udr) + Len(due) <= Asked
    BY <1>1 DEF Typed, Counted
  <2>2. /\ Len(due) \in Nat /\ Len(udr) \in Nat /\ URG_counter \in Nat
        /\ Len(udr') = Len(udr)
    BY <1>1, Numbers DEF Typed
  <2>3. URG_counter' + Len(udr') + Len(due') <= Asked'
    BY <1>1, <1>2, <1>4, <1>6, <2>1, <2>2
  <2> QED
    BY <1>1, <2>3 DEF Typed, Counted
<1> QED
  BY <1>1, <1>5, <1>7 DEF Typed, LowByte, Ahead, Scanned


\* The main program's own steps leave the sensor and the interrupt alone.
LEMMA MainTyped ==
    ASSUME Typed, \/ LoadLow \/ WaitHeader \/ SkipHeader \/ WaitScan
    PROVE  Typed'
<1>n. /\ URG_counter \in Nat /\ bytecnt \in Nat /\ line_char \in Nat
      /\ URG_counter <= 588 /\ bytecnt \in 0..640 /\ low \in -1..255
  <2>1. /\ URG_counter \in Nat /\ bytecnt \in Nat /\ line_char \in Nat
        /\ bytecnt \in 0..640 /\ low \in -1..255
    BY Numbers DEF Typed
  <2>2. URG_counter <= 588
    BY DEF Typed, Counted
  <2> QED
    BY <2>1, <2>2
<1>u. UNCHANGED <<due, udr, URG_buffer, URG_counter, flag2, LidarData>>
  BY DEF LoadLow, WaitHeader, SkipHeader, WaitScan, sensor, isr
<1>p. /\ pc \in {"wait_header", "header", "wait_scan"}
      /\ pc' \in {"wait_header", "header", "wait_scan", "parse"}
  BY DEF LoadLow, WaitHeader, SkipHeader, WaitScan
<1>a. Asked = 588 /\ Asked' = 588
  BY <1>p DEF Asked
<1>s. Scanned'
  <2>1. LidarData = <<>>
    BY <1>p DEF Typed, Scanned
  <2>2. Len(LidarData) = 0
    BY <2>1, EmptySeq
  <2>3. Len(LidarData') < Measurements /\ LidarData' = <<>>
    BY <1>u, <2>1, <2>2, Sizes
  <2> QED
    BY <1>p, <2>3 DEF Scanned
<1>c. Counted'
  <2>1. URG_counter + Len(udr) + Len(due) <= Asked /\ pc # "idle"
    BY <1>p DEF Typed, Counted
  <2>2. URG_counter' + Len(udr') + Len(due') <= Asked'
    BY <1>a, <1>u, <2>1
  <2> QED
    BY <1>p, <1>u, <2>2 DEF Typed, Counted
<1>1. CASE LoadLow
  <2>1. /\ URG_counter % 256 = 255 /\ low' = 255 /\ low = -1
        /\ UNCHANGED <<pc, bytecnt, line_char>>
    BY <1>1 DEF LoadLow
  <2>2. URG_counter >= 255
    BY <1>n, <2>1
  <2>3. Types'
    BY <1>u, <2>1 DEF Typed, Types, TypeOK
  <2>4. LowByte'
    BY <1>p, <1>u, <2>1, <2>2 DEF LowByte
  <2>5. Ahead'
    BY <1>u, <2>1 DEF Typed, Ahead
  <2> QED
    BY <1>c, <1>s, <2>3, <2>4, <2>5 DEF Typed
<1>2. CASE WaitHeader
  <2>1. /\ low' = -1 /\ pc' \in {"wait_header", "header"}
        /\ pc = "wait_header" /\ UNCHANGED <<bytecnt, line_char>>
    BY <1>2 DEF WaitHeader
  <2>2. bytecnt = 0 /\ line_char = 0
    BY <2>1 DEF Typed, Ahead
  <2>3. Types'
    BY <1>u, <2>1 DEF Typed, Types, TypeOK
  <2>4. LowByte'
    BY <2>1 DEF LowByte
  <2>5. Ahead'
    BY <1>n, <1>u, <2>1, <2>2 DEF Ahead
  <2> QED
    BY <1>c, <1>s, <2>3, <2>4, <2>5 DEF Typed
<1>3. CASE SkipHeader
  <2>1. /\ low' = -1 /\ pc' \in {"header", "wait_scan"} /\ pc = "header"
        /\ \/ UNCHANGED <<bytecnt, line_char>> /\ pc' = "wait_scan"
           \/ /\ ~(Loaded < bytecnt) /\ bytecnt' = bytecnt + 1
              /\ line_char' \in {0, line_char, line_char + 1}
    BY <1>3 DEF SkipHeader
  <2>2. /\ bytecnt <= URG_counter + 2
        /\ low = 255 /\ URG_counter % 256 = 0 => bytecnt <= URG_counter + 1
    BY <2>1 DEF Typed, Ahead
  <2>3. /\ Loaded \in Nat
        /\ Loaded = URG_counter \/ (low = 255 /\ URG_counter % 256 = 0)
    BY LoadedFacts DEF Typed
  <2>4. \/ UNCHANGED bytecnt
        \/ bytecnt' = bytecnt + 1 /\ bytecnt <= URG_counter + 1
    BY <1>n, <2>1, <2>2, <2>3
  <2>5. bytecnt' \in 0..640 /\ line_char' \in Nat
    BY <1>n, <2>1, <2>4
  <2>6. Types'
    BY <1>u, <2>1, <2>5, Sizes DEF Typed, Types, TypeOK
  <2>7. LowByte'
    BY <2>1 DEF LowByte
  <2>8. Ahead'
    BY <1>n, <1>u, <2>1, <2>4 DEF Ahead
  <2> QED
    BY <1>c, <1>s, <2>6, <2>7, <2>8 DEF Typed
<1>4. CASE WaitScan
  <2>1. /\ low' = -1 /\ pc' \in {"wait_scan", "parse"}
        /\ pc = "wait_scan" /\ UNCHANGED <<bytecnt, line_char>>
    BY <1>4 DEF WaitScan
  <2>2. Types'
    BY <1>u, <2>1 DEF Typed, Types, TypeOK
  <2>3. LowByte' /\ Ahead'
    BY <2>1 DEF LowByte, Ahead
  <2> QED
    BY <1>c, <1>s, <2>2, <2>3 DEF Typed
<1> QED
  BY <1>1, <1>2, <1>3, <1>4

\* What one pair of bytes adds to the distances.
LEMMA ParseFacts ==
    ASSUME Typed, Parse
    PROVE  /\ pc = "parse" /\ bytecnt' = bytecnt + 2 /\ bytecnt \in 0..638
           /\ Pair[1] \in Char /\ Pair[2] \in Char
           /\ LidarData' \in Seq(Int)
           /\ \/ LF \in {Pair[1], Pair[2]} /\ LidarData' = LidarData
              \/ /\ LF \notin {Pair[1], Pair[2]}
                 /\ Len(LidarData') = Len(LidarData) + 1
                 /\ LidarData'[Len(LidarData) + 1]
                       = Filter((Pair[1] - 48) * 64 + (Pair[2] - 48))
                 /\ \A i \in 1..Len(LidarData) : LidarData'[i] = LidarData[i]
           /\ Len(LidarData') \in Nat /\ Len(LidarData) \in 0..256
           /\ Len(LidarData') \in 0..257
           /\ pc' = IF Len(LidarData') = 257 THEN "forces" ELSE "parse"
           /\ UNCHANGED <<due, udr, URG_buffer, URG_counter, flag2, low,
                          line_char, torn>>
<1>1. /\ pc = "parse" /\ bytecnt + 1 < BufferSize /\ bytecnt' = bytecnt + 2
      /\ LidarData' = IF LF \in {Pair[1], Pair[2]} THEN LidarData
                      ELSE Append(LidarData,
                                  Filter((Pair[1] - 48) * 64 + (Pair[2] - 48)))
      /\ pc' = IF Len(LidarData') = Measurements THEN "forces" ELSE pc
      /\ UNCHANGED <<due, udr, URG_buffer, URG_counter, flag2, low, line_char,
                     torn>>
  BY DEF Parse, sensor, isr
<1>2. bytecnt \in 0..638
  <2>1. bytecnt \in Nat
    BY Numbers DEF Typed
  <2>2. bytecnt + 1 < 640
    BY <1>1, Sizes
  <2> QED
    BY <2>1, <2>2
<1>3. Pair[1] \in Char /\ Pair[2] \in Char
  <2>1. URG_buffer \in [0..639 -> Char]
    BY DEF Typed, Types, BufferSize
  <2>2. Pair = <<URG_buffer[bytecnt], URG_buffer[bytecnt + 1]>>
    BY DEF Pair
  <2> QED
    BY <1>2, <2>1, <2>2
<1>4. PICK d : d = Filter((Pair[1] - 48) * 64 + (Pair[2] - 48))
  OBVIOUS
<1>5. d \in Int
  BY <1>3, <1>4 DEF Filter, Char
<1>6. LidarData \in Seq(Int) /\ Len(LidarData) < 257
  BY <1>1, Sizes DEF Typed, Types, Scanned
<1>7. Len(LidarData) \in 0..256
  <2>1. PICK n \in Nat : n = Len(LidarData)
    BY <1>6, LenProperties
  <2>2. n < 257
    BY <1>6, <2>1
  <2>3. n \in 0..256
    BY <2>2
  <2> QED
    BY <2>1, <2>3
<1>8. /\ Append(LidarData, d) \in Seq(Int)
      /\ Len(Append(LidarData, d)) = Len(LidarData) + 1
      /\ \A i \in 1..Len(LidarData) : Append(LidarData, d)[i] = LidarData[i]
      /\ Append(LidarData, d)[Len(LidarData) + 1] = d
  BY <1>5, <1>6, AppendProperties
<1>9. /\ LidarData' \in Seq(Int)
      /\ \/ LF \in {Pair[1], Pair[2]} /\ LidarData' = LidarData
         \/ /\ LF \notin {Pair[1], Pair[2]}
            /\ Len(LidarData') = Len(LidarData) + 1
            /\ LidarData'[Len(LidarData) + 1] = d
            /\ \A i \in 1..Len(LidarData) : LidarData'[i] = LidarData[i]
  <2>1. CASE LF \in {Pair[1], Pair[2]}
    BY <1>1, <1>6, <2>1
  <2>2. CASE LF \notin {Pair[1], Pair[2]}
    <3>1. LidarData' = Append(LidarData, d)
      BY <1>1, <1>4, <2>2
    <3> QED
      BY <1>8, <2>2, <3>1
  <2> QED
    BY <2>1, <2>2
<1>10. Len(LidarData') \in 0..257
  <2>1. PICK n \in 0..256 : n = Len(LidarData)
    BY <1>7
  <2>2. PICK m : m = Len(LidarData')
    OBVIOUS
  <2>3. m = n \/ m = n + 1
    BY <1>9, <2>1, <2>2
  <2>4. m \in 0..257
    BY <2>3
  <2> QED
    BY <2>2, <2>4
<1>11. pc' = IF Len(LidarData') = 257 THEN "forces" ELSE "parse"
  BY <1>1, Sizes
<1> QED
  BY <1>1, <1>2, <1>3, <1>4, <1>7, <1>9, <1>10, <1>11, SMTT(30)

LEMMA ParseTyped ==
    ASSUME Typed, Parse
    PROVE  Typed'
<1>0. PICK m : m = Len(LidarData')
  OBVIOUS
<1>m. m \in 0..257 /\ (pc' = IF m = 257 THEN "forces" ELSE "parse")
  BY <1>0, ParseFacts
<1>m2. m <= 257 /\ (m # 257 => m < 257)
  BY <1>m
<1>1. /\ pc = "parse" /\ bytecnt' = bytecnt + 2 /\ bytecnt \in 0..638
      /\ LidarData' \in Seq(Int) /\ Len(LidarData') \in 0..257
      /\ pc' = IF Len(LidarData') = 257 THEN "forces" ELSE "parse"
      /\ UNCHANGED <<due, udr, URG_buffer, URG_counter, flag2, low, line_char>>
  BY ParseFacts
<1>2. Types'
  <2>0. bytecnt' \in 0..640
    BY <1>1
  <2>1. bytecnt' \in 0..BufferSize /\ Len(LidarData') <= Measurements
    BY <1>0, <1>m2, <2>0, Sizes
  <2>2. pc' \in {"parse", "forces"}
    BY <1>1
  <2> QED
    BY <1>1, <2>1, <2>2 DEF Typed, Types, TypeOK
<1>3. Counted'
  <2>1. Asked = 588 /\ Asked' = 588
    BY <1>1 DEF Asked
  <2>2. URG_counter + Len(udr) + Len(due) <= Asked
    BY <1>1 DEF Typed, Counted
  <2>3. URG_counter' + Len(udr') + Len(due') <= Asked'
    BY <1>1, <2>1, <2>2
  <2> QED
    BY <1>1, <2>3 DEF Typed, Counted
<1>4. Scanned'
  <2>1. pc' = "forces" => Len(LidarData') = 257
    BY <1>1
  <2>2. pc' = "parse" => Len(LidarData') < 257
    BY <1>0, <1>m, <1>m2
  <2> QED
    BY <1>1, <2>1, <2>2, Sizes DEF Scanned
<1> QED
  BY <1>1, <1>2, <1>3, <1>4 DEF Typed, LowByte, Ahead

LEMMA SerialTyped ==
    ASSUME Typed, SetSerialOff \/ SetSerialOn
    PROVE  Typed'
<1>1. CASE SetSerialOff
  <2>1. /\ pc = "idle" /\ LidarData = <<>> /\ URG_counter' = 0 /\ flag2' = 3
        /\ pc' = "laser"
        /\ UNCHANGED <<due, udr, URG_buffer, low, bytecnt, line_char,
                       LidarData>>
    BY <1>1 DEF SetSerialOff, sensor, locals
  <2>2. due = <<>> /\ udr = <<>> /\ low = -1
    BY <2>1 DEF Typed, Counted, LowByte
  <2>3. Len(due') = 0 /\ Len(udr') = 0
    BY <2>1, <2>2, EmptySeq
  <2>4. Types'
    BY <2>1, Sizes DEF Typed, Types, TypeOK
  <2>5. Counted'
    BY <2>1, <2>3 DEF Counted, Asked
  <2> QED
    BY <2>1, <2>2, <2>4, <2>5 DEF Typed, LowByte, Ahead, Scanned
<1>2. CASE SetSerialOn
  <2>1. /\ pc = "forces" /\ flag2' = 0 /\ bytecnt' = 0 /\ line_char' = 0
        /\ pc' = "idle"
        /\ UNCHANGED <<due, udr, URG_buffer, URG_counter, low, LidarData>>
    BY <1>2 DEF SetSerialOn, sensor
  <2>2. low = -1 /\ Len(LidarData) = 257
    BY <2>1, Sizes DEF Typed, LowByte, Scanned
  <2>3. LidarData # <<>>
    BY <2>2, EmptySeq
  <2>4. Types'
    BY <2>1, Sizes DEF Typed, Types, TypeOK
  <2>5. Counted'
    BY <2>1, <2>3 DEF Typed, Counted
  <2> QED
    BY <2>1, <2>2, <2>4, <2>5 DEF Typed, LowByte, Ahead, Scanned
<1> QED
  BY <1>1, <1>2

LEMMA TypedNext == Typed /\ [Next]_vars => Typed'
<1> SUFFICES ASSUME Typed, [Next]_vars PROVE Typed'
  OBVIOUS
<1>1. CASE Next
  BY <1>1, ArriveTyped, FillTyped, StoreTyped, AskTyped, MainTyped,
     ParseTyped, SerialTyped
  DEF Next, Isr, Main
<1>2. CASE UNCHANGED vars
  <2>1. UNCHANGED <<due, udr, URG_buffer, URG_counter, flag2, pc, low, bytecnt,
                    line_char, LidarData>>
    BY <1>2 DEF vars, sensor, isr, locals
  <2>2. Asked' = Asked
    BY <2>1 DEF Asked
  <2> QED
    BY <2>1, <2>2
    DEF Typed, Types, TypeOK, Counted, LowByte, Ahead, Scanned
<1> QED
  BY <1>1, <1>2

-----------------------------------------------------------------------------
\* From here on the interrupt is never late.
LEMMA ArriveKeeps ==
    ASSUME Typed, NothingLost, Arrive
    PROVE  NothingLost'
<1>1. /\ due # <<>> /\ udr' = Append(udr, Head(due)) /\ due' = Tail(due)
      /\ UNCHANGED <<URG_buffer, URG_counter, pc>>
  BY DEF Arrive, isr
<1>2. due \in Seq(Char) /\ udr \in Seq(Char)
  BY DEF Typed, Types
<1>3. /\ Head(due) = due[1] /\ due[1] \in Char /\ Len(due) \in Nat \ {0}
      /\ Len(due') = Len(due) - 1
      /\ \A i \in 1..(Len(due) - 1) : due'[i] = due[i + 1]
  BY <1>1, <1>2, FirstOf
<1>4. /\ Len(udr') = Len(udr) + 1 /\ udr'[Len(udr) + 1] = due[1]
      /\ \A i \in 1..Len(udr) : udr'[i] = udr[i]
  BY <1>1, <1>2, <1>3, AppendProperties
<1>5. PICK n \in Nat : n = Len(udr)
  BY <1>2, LenProperties
<1>6. PICK d \in Nat \ {0} : d = Len(due)
  BY <1>3
<1>7. PICK c \in Nat : c = URG_counter
  BY Numbers DEF Typed
<1>8. /\ c + n + d = Asked
      /\ \A i \in 1..n : udr[i] = Reply[c + i]
      /\ \A i \in 1..d : due[i] = Reply[c + n + i]
      /\ \A j \in 0..(c - 1) : URG_buffer[j] = Reply[j + 1]
  BY <1>5, <1>6, <1>7 DEF NothingLost
<1>9. Asked' = Asked
  BY <1>1 DEF Asked
<1>10. Len(udr') = n + 1 /\ Len(due') = d - 1 /\ URG_counter' = c
  BY <1>1, <1>3, <1>4, <1>5, <1>6, <1>7
<1>11. URG_counter' + Len(udr') + Len(due') = Asked'
  <2>1. c + (n + 1) + (d - 1) = c + n + d
    OBVIOUS
  <2> QED
    BY <1>8, <1>9, <1>10, <2>1
<1>12. \A i \in 1..Len(udr') : udr'[i] = Reply[URG_counter' + i]
  <2> SUFFICES ASSUME NEW i \in 1..(n + 1)
               PROVE  udr'[i] = Reply[c + i]
    BY <1>10
  <2>1. CASE i = n + 1
    <3>1. due[1] = Reply[c + n + 1]
      BY <1>8
    <3>2. c + n + 1 = c + i
      BY <2>1
    <3> QED
      BY <1>4, <1>5, <2>1, <3>1, <3>2
  <2>2. CASE i \in 1..n
    BY <1>4, <1>5, <1>8, <2>2
  <2> QED
    BY <2>1, <2>2
<1>13. \A i \in 1..Len(due') : due'[i] = Reply[URG_counter' + Len(udr') + i]
  <2> SUFFICES ASSUME NEW i \in 1..(d - 1)
               PROVE  due'[i] = Reply[c + (n + 1) + i]
    BY <1>10
  <2>1. due'[i] = due[i + 1]
    BY <1>3, <1>6
  <2>2. i + 1 \in 1..d /\ c + n + (i + 1) = c + (n + 1) + i
    OBVIOUS
  <2>3. due[i + 1] = Reply[c + n + (i + 1)]
    BY <1>8, <2>2
  <2> QED
    BY <2>1, <2>2, <2>3
<1>14. \A j \in 0..(URG_counter' - 1) : URG_buffer'[j] = Reply[j + 1]
  BY <1>1, <1>7, <1>8
<1> QED
  BY <1>11, <1>12, <1>13, <1>14 DEF NothingLost

LEMMA FillKeeps ==
    ASSUME Typed, NothingLost, Latency = 1, FillBuffer
    PROVE  NothingLost'
<1>f. /\ Len(udr) \in Nat \ {0}
      /\ URG_buffer' = [URG_buffer EXCEPT ![URG_counter] = udr[Len(udr)]]
      /\ URG_counter' = URG_counter + 1 /\ URG_counter \in 0..587
      /\ Len(udr') = 0 /\ UNCHANGED <<due, pc>>
  BY FillFacts
<1>1. Len(udr) = 1
  <2>1. PICK n \in Nat \ {0} : n = Len(udr)
    BY <1>f
  <2>2. Len(udr) <= Latency
    BY DEF Typed, Types, TypeOK
  <2>3. n <= 1
    BY <2>1, <2>2
  <2> QED
    BY <2>1, <2>3
<1>2. PICK c \in 0..587 : c = URG_counter
  BY <1>f
<1>3. PICK d \in Nat : d = Len(due)
  BY Numbers DEF Typed
<1>4. /\ c + 1 + d = Asked
      /\ \A i \in 1..1 : udr[i] = Reply[c + i]
      /\ \A i \in 1..d : due[i] = Reply[c + 1 + i]
      /\ \A j \in 0..(c - 1) : URG_buffer[j] = Reply[j + 1]
  BY <1>1, <1>2, <1>3 DEF NothingLost
<1>5. /\ URG_buffer \in [0..639 -> Char]
      /\ URG_buffer' = [URG_buffer EXCEPT ![c] = udr[1]]
  BY <1>f, <1>1, <1>2, Sizes DEF Typed, Types
<1>6. /\ URG_counter' = c + 1 /\ Len(udr') = 0 /\ Len(due') = d
      /\ Asked' = Asked /\ due' = due
  BY <1>f, <1>2, <1>3 DEF Asked
<1>7. URG_counter' + Len(udr') + Len(due') = Asked'
  BY <1>4, <1>6
<1>8. \A i \in 1..Len(udr') : udr'[i] = Reply[URG_counter' + i]
  BY <1>6
<1>9. \A i \in 1..Len(due') : due'[i] = Reply[URG_counter' + Len(udr') + i]
  <2> SUFFICES ASSUME NEW i \in 1..d
               PROVE  due[i] = Reply[c + 1 + 0 + i]
    BY <1>6
  <2>1. c + 1 + 0 + i = c + 1 + i
    OBVIOUS
  <2> QED
    BY <1>4, <2>1
<1>10. \A j \in 0..(URG_counter' - 1) : URG_buffer'[j] = Reply[j + 1]
  <2> SUFFICES ASSUME NEW j \in 0..c
               PROVE  URG_buffer'[j] = Reply[j + 1]
    BY <1>6
  <2>1. CASE j = c
    BY <1>4, <1>5, <2>1, SMTT(30)
  <2>2. CASE j \in 0..(c - 1)
    BY <1>4, <1>5, <2>2, SMTT(30)
  <2> QED
    BY <2>1, <2>2
<1> QED
  BY <1>7, <1>8, <1>9, <1>10 DEF NothingLost

LEMMA AskKeeps ==
    ASSUME Typed, NothingLost, LaserOn \/ WriteCommand
    PROVE  NothingLost'
<1>1. UNCHANGED <<udr, URG_buffer, URG_counter>>
  BY DEF LaserOn, WriteCommand, isr
<1>2. PICK part \in Seq(Char), a \in 1..589 :
         /\ due' = due \o part
         /\ Len(part) = Asked' - Asked /\ a = Asked + 1
         /\ \A i \in 1..Len(part) : part[i] = Reply[a + i - 1]
  BY AskFacts
<1>3. due \in Seq(Char) /\ udr \in Seq(Char)
  BY DEF Typed, Types
<1>4. /\ Len(due') = Len(due) + Len(part)
      /\ \A i \in 1..Len(due) : due'[i] = due[i]
      /\ \A i \in (Len(due) + 1)..(Len(due) + Len(part)) :
            due'[i] = part[i - Len(due)]
  <2>1. PICK s : s = due \o part
    OBVIOUS
  <2>2. /\ Len(s) = Len(due) + Len(part)
        /\ \A i \in 1..(Len(due) + Len(part)) :
              s[i] = IF i <= Len(due) THEN due[i] ELSE part[i - Len(due)]
    BY <1>3, <2>1, ConcatProperties
  <2>3. Len(due) \in Nat /\ Len(part) \in Nat
    BY <1>3, LenProperties
  <2>4. \A i \in 1..Len(due) : s[i] = due[i]
    BY <2>2, <2>3
  <2>5. \A i \in (Len(due) + 1)..(Len(due) + Len(part)) :
           s[i] = part[i - Len(due)]
    BY <2>2, <2>3
  <2> QED
    BY <1>2, <2>1, <2>2, <2>4, <2>5
<1>5. PICK n \in Nat : n = Len(udr)
  BY <1>3, LenProperties
<1>6. PICK d \in Nat : d = Len(due)
  BY <1>3, LenProperties
<1>7. PICK p \in Nat : p = Len(part)
  BY LenProperties
<1>8. PICK c \in Nat : c = URG_counter
  BY Numbers DEF Typed
<1>9. /\ c + n + d = Asked
      /\ \A i \in 1..n : udr[i] = Reply[c + i]
      /\ \A i \in 1..d : due[i] = Reply[c + n + i]
      /\ \A j \in 0..(c - 1) : URG_buffer[j] = Reply[j + 1]
  BY <1>5, <1>6, <1>8 DEF NothingLost
<1>10. Asked \in 0..588
  BY AskedRange
<1>11. Asked' \in 0..588
  <2>1. pc' \in {"command", "wait_header"}
    BY DEF LaserOn, WriteCommand
  <2> QED
    BY <2>1, Sizes DEF Asked
<1>12. URG_counter' + Len(udr') + Len(due') = Asked'
  <2>0. PICK q \in Nat, r \in Nat : q = Asked /\ r = Asked'
    BY <1>10, <1>11
  <2>1. c + n + (d + p) = Asked'
    <3>1. p = r - q
      BY <1>2, <1>7, <2>0
    <3>2. c + n + d = q
      BY <1>9, <2>0
    <3>3. c + n + (d + p) = r
      BY <3>1, <3>2
    <3> QED
      BY <2>0, <3>3
  <2> QED
    BY <1>1, <1>4, <1>5, <1>6, <1>7, <1>8, <2>1
<1>13. \A i \in 1..Len(due') : due'[i] = Reply[URG_counter' + Len(udr') + i]
  <2> SUFFICES ASSUME NEW i \in 1..(d + p)
               PROVE  due'[i] = Reply[c + n + i]
    BY <1>1, <1>4, <1>5, <1>6, <1>7, <1>8
  <2>1. CASE i \in 1..d
    BY <1>4, <1>6, <1>9, <2>1
  <2>2. CASE i \in (d + 1)..(d + p)
    <3>1. due'[i] = part[i - d]
      BY <1>4, <1>6, <1>7, <2>2
    <3>2. i - d \in 1..p
      BY <2>2
    <3>3. part[i - d] = Reply[a + (i - d) - 1]
      BY <1>2, <1>7, <3>2
    <3>4. a + (i - d) - 1 = c + n + i
      BY <1>2, <1>9, <1>10
    <3> QED
      BY <3>1, <3>3, <3>4
  <2> QED
    BY <2>1, <2>2
<1>14. /\ \A i \in 1..Len(udr') : udr'[i] = Reply[URG_counter' + i]
       /\ \A j \in 0..(URG_counter' - 1) : URG_buffer'[j] = Reply[j + 1]
  BY <1>1, <1>5, <1>8, <1>9
<1> QED
  BY <1>12, <1>13, <1>14 DEF NothingLost

\* A step that leaves the sensor, the interrupt and what was asked for alone.
LEMMA StillKeeps ==
    ASSUME NothingLost, Asked' = Asked,
           UNCHANGED <<due, udr, URG_buffer, URG_counter>>
    PROVE  NothingLost'
BY DEF NothingLost

LEMMA BeginKeeps ==
    ASSUME Typed, SetSerialOff
    PROVE  NothingLost'
<1>1. /\ pc = "idle" /\ LidarData = <<>> /\ URG_counter' = 0 /\ pc' = "laser"
      /\ due' = due /\ udr' = udr
  BY DEF SetSerialOff, sensor
<1>2. due' = <<>> /\ udr' = <<>>
  BY <1>1 DEF Typed, Counted
<1>3. Len(due') = 0 /\ Len(udr') = 0 /\ URG_counter' = 0 /\ Asked' = 0
  BY <1>1, <1>2, EmptySeq DEF Asked
<1> QED
  BY <1>3 DEF NothingLost


\* The line the header scan has read is the time stamp exactly when it has
\* five characters.
LEMMA LineOfFive ==
    ASSUME NEW b \in 0..54, NEW l \in 0..b, Reply[b + 1] = LF,
           \A i \in (b - l + 1)..b : Reply[i] # LF,
           l < b => Reply[b - l] = LF
    PROVE  l = 5 <=> b + 1 = HeaderEnd
<1>1. HeaderEnd = 55
  BY Sizes
<1>2. FiveEndAt(b + 1) <=> b + 1 = HeaderEnd
  <2>1. b + 1 \in 1..HeaderEnd
    BY <1>1
  <2> QED
    BY <2>1, HeaderAssumption
<1>3. l = 5 => FiveEndAt(b + 1)
  <2> SUFFICES ASSUME l = 5 PROVE FiveEndAt(b + 1)
    OBVIOUS
  <2>1. b + 1 > 5 /\ (b + 1) - 5 = b - l + 1 /\ (b + 1) - 1 = b
    OBVIOUS
  <2>2. \A i \in ((b + 1) - 5)..((b + 1) - 1) : Reply[i] # LF
    BY <2>1
  <2>3. b + 1 = 6 \/ Reply[(b + 1) - 6] = LF
    <3>1. CASE l < b
      <4>1. (b + 1) - 6 = b - l
        OBVIOUS
      <4> QED
        BY <3>1, <4>1
    <3>2. CASE l = b
      BY <3>2
    <3> QED
      BY <3>1, <3>2
  <2> QED
    BY <2>1, <2>2, <2>3 DEF FiveEndAt
<1>4. FiveEndAt(b + 1) => l = 5
  <2> SUFFICES ASSUME FiveEndAt(b + 1) PROVE l = 5
    OBVIOUS
  <2>1. /\ b + 1 > 5
        /\ \A i \in ((b + 1) - 5)..((b + 1) - 1) : Reply[i] # LF
        /\ b + 1 = 6 \/ Reply[(b + 1) - 6] = LF
    BY DEF FiveEndAt
  <2>2. ~(l < 5)
    <3> SUFFICES ASSUME l < 5 PROVE FALSE
      OBVIOUS
    <3>1. b - l \in ((b + 1) - 5)..((b + 1) - 1) /\ l < b
      BY <2>1, l < 5
    <3> QED
      BY <2>1, <3>1
  <2>3. ~(l > 5)
    <3> SUFFICES ASSUME l > 5 PROVE FALSE
      OBVIOUS
    <3>1. b + 1 # 6 /\ (b + 1) - 6 \in (b - l + 1)..b
      OBVIOUS
    <3> QED
      BY <2>1, <3>1
  <2> QED
    BY <2>2, <2>3
<1> QED
  BY <1>2, <1>3, <1>4

LEMMA HeaderKeeps ==
    ASSUME Typed, Whole, SkipHeader
    PROVE  Whole'
<1>1. pc = "header" /\ pc' \in {"header", "wait_scan"}
  BY DEF SkipHeader
<1>2. /\ NothingLost /\ URG_counter >= 128 /\ bytecnt < 55
      /\ line_char <= bytecnt
      /\ \A i \in (bytecnt - line_char + 1)..bytecnt : Reply[i] # LF
      /\ line_char < bytecnt => Reply[bytecnt - line_char] = LF
  BY <1>1, Sizes DEF Whole, LineSoFar
<1>3. NothingLost'
  <2>1. UNCHANGED <<due, udr, URG_buffer, URG_counter>> /\ Asked' = Asked
    BY <1>1 DEF SkipHeader, sensor, isr, Asked
  <2> QED
    BY <1>2, <2>1, StillKeeps
<1>4. bytecnt \in Nat /\ line_char \in Nat /\ URG_counter \in Nat
  BY Numbers DEF Typed
<1>5. PICK b \in 0..54 : b = bytecnt
  BY <1>2, <1>4
<1>6. PICK l \in 0..b : l = line_char
  BY <1>2, <1>4, <1>5
<1>7. ~(Loaded < bytecnt)
  <2>1. Loaded \in Nat /\ Loaded >= URG_counter
    BY <1>4, LoadedFacts DEF Typed
  <2> QED
    BY <1>2, <1>4, <2>1
<1>8. URG_buffer[b] = Reply[b + 1]
  BY <1>2, <1>4 DEF NothingLost
<1>9. /\ bytecnt' = b + 1 /\ URG_counter' = URG_counter
      /\ IF Reply[b + 1] = LF
         THEN line_char' = 0 /\ pc' = IF l = 5 THEN "wait_scan" ELSE "header"
         ELSE line_char' = l + 1 /\ pc' = "header"
  BY <1>1, <1>5, <1>6, <1>7, <1>8 DEF SkipHeader, isr
<1>10. /\ \A i \in (b - l + 1)..b : Reply[i] # LF
       /\ l < b => Reply[b - l] = LF
  BY <1>2, <1>5, <1>6
<1>11. CASE Reply[b + 1] = LF
  <2>1. l = 5 <=> b + 1 = HeaderEnd
    BY <1>10, <1>11, LineOfFive
  <2>2. line_char' = 0 /\ pc' = IF l = 5 THEN "wait_scan" ELSE "header"
    BY <1>9, <1>11
  <2>3. LineSoFar'
    <3>1. (b + 1) - 0 = b + 1 /\ (b + 1) - 0 + 1 = b + 2
      OBVIOUS
    <3>2. \A i \in (bytecnt' - line_char' + 1)..bytecnt' : Reply[i] # LF
      BY <1>9, <2>2, <3>1
    <3> QED
      BY <1>9, <1>11, <2>2, <3>1, <3>2 DEF LineSoFar
  <2>4. l = 5 => bytecnt' = HeaderEnd
    BY <1>9, <2>1
  <2>5. l # 5 => bytecnt' < HeaderEnd
    BY <1>9, <2>1, Sizes
  <2>6. URG_counter' >= HeaderBytes
    BY <1>2, <1>9, Sizes
  <2> QED
    BY <1>3, <2>2, <2>3, <2>4, <2>5, <2>6
    DEF Whole, HeaderFound, ParsedIsMeasured
<1>12. CASE Reply[b + 1] # LF
  <2>1. line_char' = l + 1 /\ pc' = "header"
    BY <1>9, <1>12
  <2>2. b + 1 # HeaderEnd
    <3>1. b + 1 \in 1..HeaderEnd
      BY Sizes
    <3>2. ~FiveEndAt(b + 1)
      BY <1>12 DEF FiveEndAt
    <3> QED
      BY <3>1, <3>2, HeaderAssumption
  <2>3. bytecnt' < HeaderEnd
    BY <1>9, <2>2, Sizes
  <2>4. LineSoFar'
    <3>1. (b + 1) - (l + 1) = b - l
      OBVIOUS
    <3>2. \A i \in (b - l + 1)..(b + 1) : Reply[i] # LF
      <4> TAKE i \in (b - l + 1)..(b + 1)
      <4>1. CASE i = b + 1
        BY <1>12, <4>1
      <4>2. CASE i \in (b - l + 1)..b
        BY <1>10, <4>2
      <4> QED
        BY <4>1, <4>2
    <3>3. l + 1 < b + 1 => Reply[(b + 1) - (l + 1)] = LF
      BY <1>10, <3>1
    <3>4. \A i \in ((b + 1) - (l + 1) + 1)..(b + 1) : Reply[i] # LF
      BY <3>1, <3>2
    <3>5. l + 1 <= b + 1
      OBVIOUS
    <3> QED
      BY <1>9, <2>1, <3>3, <3>4, <3>5 DEF LineSoFar
  <2>5. URG_counter' >= HeaderBytes
    BY <1>2, <1>9, Sizes
  <2> QED
    BY <1>3, <2>1, <2>3, <2>4, <2>5 DEF Whole, HeaderFound, ParsedIsMeasured
<1> QED
  BY <1>11, <1>12

LEMMA WaitsKeep ==
    ASSUME Typed, Whole, LoadLow \/ WaitHeader \/ WaitScan
    PROVE  Whole'
<1>n. URG_counter \in Nat /\ bytecnt \in Nat
  BY Numbers DEF Typed
<1>l. Loaded \in Nat /\ Loaded >= URG_counter
      /\ (Loaded = URG_counter \/ URG_counter >= 256)
  BY <1>n, LoadedFacts DEF Typed
<1>u. /\ UNCHANGED <<due, udr, URG_buffer, URG_counter, bytecnt, line_char,
                     LidarData>>
      /\ pc \in {"wait_header", "header", "wait_scan"}
      /\ pc' \in {"wait_header", "header", "wait_scan", "parse"}
  BY DEF LoadLow, WaitHeader, WaitScan, sensor, isr
<1>k. NothingLost /\ NothingLost'
  <2>1. NothingLost /\ Asked' = Asked
    BY <1>u DEF Whole, Asked
  <2> QED
    BY <1>u, <2>1, StillKeeps
<1>1. CASE LoadLow
  <2>1. pc' = pc
    BY <1>1 DEF LoadLow
  <2>2. LineSoFar' <=> LineSoFar
    BY <1>u DEF LineSoFar
  <2> QED
    BY <1>k, <1>u, <2>1, <2>2 DEF Whole, HeaderFound, ParsedIsMeasured
<1>2. CASE WaitHeader
  <2>1. /\ pc' \in {"wait_header", "header"}
        /\ pc' = "header" => ~(Loaded < 128)
        /\ pc = "wait_header"
    BY <1>2, Sizes DEF WaitHeader
  <2>2. bytecnt = 0 /\ line_char = 0
    BY <2>1 DEF Typed, Ahead
  <2>3. bytecnt' < HeaderEnd /\ LineSoFar'
    <3>1. bytecnt' = 0 /\ line_char' = 0
      BY <1>u, <2>2
    <3> QED
      BY <3>1, Sizes DEF LineSoFar
  <2>4. pc' = "header" => URG_counter' >= HeaderBytes
    BY <1>l, <1>n, <1>u, <2>1, Sizes
  <2> QED
    BY <1>k, <2>1, <2>3, <2>4 DEF Whole, HeaderFound, ParsedIsMeasured
<1>3. CASE WaitScan
  <2>1. /\ pc = "wait_scan" /\ pc' \in {"wait_scan", "parse"}
        /\ pc' = "parse" => ~(Loaded < 585)
        /\ torn' = (torn \/ Loaded > URG_counter)
    BY <1>3, Sizes DEF WaitScan
  <2>2. bytecnt = HeaderEnd /\ bytecnt' = HeaderEnd
    BY <1>u, <2>1 DEF Whole, HeaderFound
  <2>3. pc' = "parse" /\ ~torn' => URG_counter' >= ScanBytes
    <3> SUFFICES ASSUME pc' = "parse", ~torn'
                 PROVE  URG_counter' >= ScanBytes
      OBVIOUS
    <3>1. ~(Loaded > URG_counter)
      BY <2>1
    <3>2. ~(Loaded < 585)
      BY <2>1
    <3>3. URG_counter >= 585
      BY <1>l, <1>n, <3>1, <3>2
    <3> QED
      BY <1>u, <3>3, Sizes
  <2>4. LidarData' = <<>>
    BY <1>u, <2>1 DEF Typed, Scanned
  <2>5. Decoded'
    <3>1. Len(LidarData') = 0
      BY <2>4, EmptySeq
    <3>2. HeaderEnd + 2 * (0 + 0 \div 32) = HeaderEnd
      BY Sizes
    <3> QED
      BY <2>2, <3>1, <3>2 DEF Decoded
  <2> QED
    BY <1>k, <2>1, <2>2, <2>3, <2>5 DEF Whole, HeaderFound, ParsedIsMeasured
<1> QED
  BY <1>1, <1>2, <1>3


\* Where the parser is before the distance n + 1.
At(n) == HeaderEnd + 2 * (n + n \div 32)

LEMMA AtFacts ==
    ASSUME NEW n \in 0..256
    PROVE  /\ At(n) \in 55..583 /\ At(n + 1) \in Nat
           /\ IF (n + 1) % 32 = 0 THEN At(n + 1) = At(n) + 4
              ELSE At(n + 1) = At(n) + 2
           /\ n % 32 = 0 => At(n) = HeaderEnd + 66 * (n \div 32)
           /\ n > 0 /\ n % 32 = 0 => n \div 32 \in 1..8
<1>1. HeaderEnd = 55
  BY Sizes
<1>2. n \div 32 \in 0..8
  OBVIOUS
<1>3. IF (n + 1) % 32 = 0 THEN (n + 1) \div 32 = n \div 32 + 1
      ELSE (n + 1) \div 32 = n \div 32
  OBVIOUS
<1>4. At(n) \in 55..583 /\ At(n + 1) \in Nat
  BY <1>1, <1>2, <1>3 DEF At
<1>5. IF (n + 1) % 32 = 0 THEN At(n + 1) = At(n) + 4
      ELSE At(n + 1) = At(n) + 2
  BY <1>1, <1>2, <1>3 DEF At
<1>6. n % 32 = 0 => n = 32 * (n \div 32)
  OBVIOUS
<1>7. n % 32 = 0 => At(n) = HeaderEnd + 66 * (n \div 32)
  BY <1>1, <1>2, <1>6 DEF At
<1>8. n > 0 /\ n % 32 = 0 => n \div 32 \in 1..8
  BY <1>2, <1>6
<1> QED
  BY <1>4, <1>5, <1>7, <1>8

\* The two bytes at a distance, and the line feed at a check sum.
LEMMA AtDistance ==
    ASSUME NEW n \in 0..256
    PROVE  /\ Reply[At(n) + 1] # LF /\ Reply[At(n) + 2] # LF
           /\ Distances[n + 1]
                 = (Reply[At(n) + 1] - 48) * 64 + (Reply[At(n) + 2] - 48)
<1>1. n + 1 \in 1..Measurements /\ (n + 1) - 1 = n
  BY Sizes
<1>2. \A i \in 1..Measurements :
         LET before == HeaderEnd + 2 * ((i - 1) + (i - 1) \div 32)
             high == Reply[before + 1]
             low6 == Reply[before + 2]
         IN  /\ LF \notin {high, low6}
             /\ Distances[i] = (high - 48) * 64 + (low6 - 48)
  BY DataAssumption
<1>3. LET before == HeaderEnd + 2 * (((n + 1) - 1) + ((n + 1) - 1) \div 32)
          high == Reply[before + 1]
          low6 == Reply[before + 2]
      IN  /\ LF \notin {high, low6}
          /\ Distances[n + 1] = (high - 48) * 64 + (low6 - 48)
  BY <1>1, <1>2
<1> QED
  BY <1>1, <1>3 DEF At

LEMMA AtCheckSum ==
    ASSUME NEW n \in 0..256, n > 0, n % 32 = 0
    PROVE  Reply[At(n)] = LF
<1>1. n \div 32 \in 1..8 /\ At(n) = HeaderEnd + 66 * (n \div 32)
  BY AtFacts
<1>2. Measurements \div 32 = 8
  BY Sizes
<1>3. PICK j \in 1..8 : j = n \div 32
  BY <1>1
<1>4. Reply[HeaderEnd + 66 * j] = LF
  BY <1>2, DataAssumption
<1> QED
  BY <1>1, <1>3, <1>4

LEMMA ParseKeeps ==
    ASSUME Typed, Whole, Parse
    PROVE  Whole'
<1>f. /\ pc = "parse" /\ bytecnt' = bytecnt + 2 /\ bytecnt \in 0..638
      /\ LidarData' \in Seq(Int)
      /\ \/ LF \in {Pair[1], Pair[2]} /\ LidarData' = LidarData
         \/ /\ LF \notin {Pair[1], Pair[2]}
            /\ Len(LidarData') = Len(LidarData) + 1
            /\ LidarData'[Len(LidarData) + 1]
                  = Filter((Pair[1] - 48) * 64 + (Pair[2] - 48))
            /\ \A i \in 1..Len(LidarData) : LidarData'[i] = LidarData[i]
      /\ Len(LidarData') \in Nat /\ Len(LidarData) \in 0..256
      /\ Len(LidarData') \in 0..257
      /\ pc' = IF Len(LidarData') = 257 THEN "forces" ELSE "parse"
      /\ UNCHANGED <<due, udr, URG_buffer, URG_counter, flag2, low, line_char,
                     torn>>
  BY ParseFacts
<1>k. NothingLost /\ NothingLost'
  <2>1. NothingLost /\ Asked' = Asked
    BY <1>f, SMTT(30) DEF Whole, Asked
  <2> QED
    BY <1>f, <2>1, StillKeeps
<1>p. pc' \in {"parse", "forces"}
  BY <1>f
<1>g. CASE torn
  <2>1. torn'
    BY <1>f, <1>g
  <2> QED
    BY <1>k, <1>p, <2>1 DEF Whole, HeaderFound, ParsedIsMeasured
<1>h. CASE ~torn
  <2>1. URG_counter >= 585 /\ URG_counter' >= ScanBytes /\ Decoded
    BY <1>f, <1>h, Sizes DEF Whole
  <2>2. PICK n \in 0..256 : n = Len(LidarData)
    BY <1>f
  <2>3. /\ \A i \in 1..n : LidarData[i] = Filter(Distances[i])
        /\ bytecnt = At(n) \/ (n > 0 /\ n % 32 = 0 /\ bytecnt = At(n) - 2)
    BY <2>1, <2>2 DEF Decoded, At
  <2>4. At(n) \in 55..583
    BY AtFacts
  <2>5. URG_counter \in Nat
    BY Numbers DEF Typed
  <2>6. \A j \in 0..584 : URG_buffer[j] = Reply[j + 1]
    BY <1>k, <2>1, <2>5 DEF NothingLost
  <2>7. CASE bytecnt = At(n)
    <3>1. PICK m \in 1..257 : m = n + 1
      OBVIOUS
    <3>2. URG_buffer[At(n)] = Reply[At(n) + 1]
      <4>1. At(n) \in 0..584
        BY <2>4
      <4> QED
        BY <2>6, <4>1
    <3>3. URG_buffer[At(n) + 1] = Reply[At(n) + 2]
      <4>1. At(n) + 1 \in 0..584 /\ (At(n) + 1) + 1 = At(n) + 2
        BY <2>4
      <4>2. URG_buffer[At(n) + 1] = Reply[(At(n) + 1) + 1]
        BY <2>6, <4>1
      <4> QED
        BY <4>1, <4>2
    <3>4. Pair[1] = Reply[At(n) + 1] /\ Pair[2] = Reply[At(n) + 2]
      BY <2>7, <3>2, <3>3 DEF Pair
    <3>5. /\ LF \notin {Pair[1], Pair[2]}
          /\ Distances[m] = (Pair[1] - 48) * 64 + (Pair[2] - 48)
      BY <3>1, <3>4, AtDistance
    <3>6. /\ Len(LidarData') = m
          /\ LidarData'[m] = Filter((Pair[1] - 48) * 64 + (Pair[2] - 48))
          /\ \A i \in 1..n : LidarData'[i] = LidarData[i]
      BY <1>f, <2>2, <3>1, <3>5
    <3>7. LidarData'[m] = Filter(Distances[m])
      BY <3>5, <3>6
    <3>8. \A i \in 1..m : LidarData'[i] = Filter(Distances[i])
      <4> TAKE i \in 1..m
      <4>1. CASE i = m
        BY <3>7, <4>1
      <4>2. CASE i \in 1..n
        BY <2>3, <3>6, <4>2
      <4> QED
        BY <3>1, <4>1, <4>2
    <3>9. bytecnt' = At(m) \/ (m > 0 /\ m % 32 = 0 /\ bytecnt' = At(m) - 2)
      <4>1. IF (n + 1) % 32 = 0 THEN At(n + 1) = At(n) + 4
            ELSE At(n + 1) = At(n) + 2
        BY AtFacts
      <4>2. bytecnt' = At(n) + 2
        BY <1>f, <2>7
      <4> QED
        BY <2>4, <3>1, <4>1, <4>2
    <3>10. Decoded'
      <4>1. At(m) = HeaderEnd + 2 * (m + m \div 32)
        BY DEF At
      <4> QED
        BY <3>6, <3>8, <3>9, <4>1 DEF Decoded
    <3>11. pc' = "forces" => Measured'
      <4> SUFFICES ASSUME pc' = "forces" PROVE Measured'
        OBVIOUS
      <4>1. m = 257
        BY <1>f, <3>6
      <4>2. PICK s \in Seq(Int) : s = LidarData'
        BY <1>f
      <4>3. Len(s) = m /\ \A i \in 1..m : s[i] = Filter(Distances[i])
        BY <3>6, <3>8, <4>2
      <4>4. s \in [1..m -> Int]
        BY <4>3, LenProperties
      <4>5. s = [i \in 1..m |-> Filter(Distances[i])]
        BY <4>3, <4>4
      <4> QED
        BY <4>1, <4>2, <4>5, Sizes DEF Measured
    <3> QED
      BY <1>k, <1>p, <2>1, <3>10, <3>11
      DEF Whole, HeaderFound, ParsedIsMeasured
  <2>8. CASE n > 0 /\ n % 32 = 0 /\ bytecnt = At(n) - 2
    <3>1. Reply[At(n)] = LF
      BY <2>8, AtCheckSum
    <3>2. URG_buffer[At(n) - 1] = Reply[At(n)]
      <4>1. At(n) - 1 \in 0..584 /\ (At(n) - 1) + 1 = At(n)
        BY <2>4
      <4>2. URG_buffer[At(n) - 1] = Reply[(At(n) - 1) + 1]
        BY <2>6, <4>1
      <4> QED
        BY <4>1, <4>2
    <3>3. Pair[2] = URG_buffer[bytecnt + 1] /\ bytecnt + 1 = At(n) - 1
      BY <2>4, <2>8 DEF Pair
    <3>4. LidarData' = LidarData
      BY <1>f, <3>1, <3>2, <3>3
    <3>5. bytecnt' = At(n)
      <4>1. bytecnt' = bytecnt + 2
        BY <1>f
      <4> QED
        BY <2>4, <2>8, <4>1
    <3>6. Len(LidarData') = n /\ n # 257
      <4>1. Len(LidarData') = n
        BY <2>2, <3>4
      <4>2. n # 257
        OBVIOUS
      <4> QED
        BY <4>1, <4>2
    <3>7. pc' = "parse"
      BY <1>f, <3>6
    <3>8. Decoded'
      <4>1. At(n) = HeaderEnd + 2 * (n + n \div 32)
        BY DEF At
      <4>2. \A i \in 1..n : LidarData'[i] = Filter(Distances[i])
        BY <2>3, <3>4
      <4> QED
        BY <3>5, <3>6, <4>1, <4>2 DEF Decoded
    <3> QED
      BY <1>k, <2>1, <3>7, <3>8 DEF Whole, HeaderFound, ParsedIsMeasured
  <2> QED
    BY <2>3, <2>7, <2>8
<1> QED
  BY <1>g, <1>h


\* The sensor and the interrupt only raise the counter, and fill URG_buffer
\* beyond what the main program has been told of.
LEMMA SensorKeeps ==
    ASSUME Typed, Whole, Latency = 1, Arrive \/ FillBuffer
    PROVE  Whole'
<1>1. /\ UNCHANGED <<pc, bytecnt, line_char, LidarData, torn>>
      /\ URG_counter' \in {URG_counter, URG_counter + 1}
  BY DEF Arrive, FillBuffer, isr, locals
<1>2. pc # "idle" => NothingLost'
  BY ArriveKeeps, FillKeeps DEF Whole
<1>3. URG_counter \in Nat
  BY Numbers DEF Typed
<1>4. /\ URG_counter >= HeaderBytes => URG_counter' >= HeaderBytes
      /\ URG_counter >= ScanBytes => URG_counter' >= ScanBytes
  BY <1>1, <1>3, Sizes
<1>5. (LineSoFar' <=> LineSoFar) /\ (Decoded' <=> Decoded)
  BY <1>1 DEF LineSoFar, Decoded
<1>6. (HeaderFound' <=> HeaderFound) /\ (ParsedIsMeasured' <=> ParsedIsMeasured)
  BY <1>1 DEF HeaderFound, ParsedIsMeasured, Measured
<1> QED
  BY <1>1, <1>2, <1>4, <1>5, <1>6 DEF Whole

LEMMA SerialKeeps ==
    ASSUME Typed, Whole,
           SetSerialOff \/ LaserOn \/ WriteCommand \/ SetSerialOn \/ StoreChar
    PROVE  Whole'
<1>1. CASE SetSerialOff
  <2>1. pc' = "laser" /\ NothingLost'
    BY <1>1, BeginKeeps DEF SetSerialOff
  <2> QED
    BY <2>1 DEF Whole, HeaderFound, ParsedIsMeasured
<1>2. CASE LaserOn \/ WriteCommand
  <2>1. pc \in {"laser", "command"} /\ pc' \in {"command", "wait_header"}
    BY <1>2 DEF LaserOn, WriteCommand
  <2>2. NothingLost'
    BY <1>2, <2>1, AskKeeps DEF Whole
  <2> QED
    BY <2>1, <2>2 DEF Whole, HeaderFound, ParsedIsMeasured
<1>3. CASE SetSerialOn
  <2>1. pc' = "idle"
    BY <1>3 DEF SetSerialOn
  <2> QED
    BY <2>1 DEF Whole, HeaderFound, ParsedIsMeasured
<1>4. CASE StoreChar
  <2>1. pc' = "idle"
    BY <1>4 DEF StoreChar, Typed, Counted
  <2> QED
    BY <2>1 DEF Whole, HeaderFound, ParsedIsMeasured
<1> QED
  BY <1>1, <1>2, <1>3, <1>4

LEMMA WholeNext == Typed /\ Whole /\ Latency = 1 /\ [Next]_vars => Whole'
<1> SUFFICES ASSUME Typed, Whole, Latency = 1, [Next]_vars PROVE Whole'
  OBVIOUS
<1>1. CASE Next
  BY <1>1, SensorKeeps, SerialKeeps, HeaderKeeps, WaitsKeep, ParseKeeps
  DEF Next, Isr, Main
<1>2. CASE UNCHANGED vars
  <2>1. UNCHANGED <<due, udr, URG_buffer, URG_counter, pc, bytecnt, line_char,
                    LidarData, torn>>
    BY <1>2 DEF vars, sensor, isr, locals
  <2>2. NothingLost' <=> NothingLost
    BY <2>1 DEF NothingLost, Asked
  <2>3. (LineSoFar' <=> LineSoFar) /\ (Decoded' <=> Decoded)
    BY <2>1 DEF LineSoFar, Decoded
  <2> QED
    BY <2>1, <2>2, <2>3 DEF Whole, HeaderFound, ParsedIsMeasured, Measured
<1> QED
  BY <1>1, <1>2

LEMMA Inductive == Spec => []IInv
<1>1. Init => IInv
  <2>1. Init => Whole
    BY DEF Init, Whole, HeaderFound, ParsedIsMeasured
  <2> QED
    BY <2>1, TypedInit DEF IInv
<1>2. IInv /\ [Next]_vars => IInv'
  BY TypedNext, WholeNext DEF IInv
<1> QED
  BY <1>1, <1>2, PTL DEF Spec

-----------------------------------------------------------------------------
\* URG_buffer is never overrun: URG_counter stays below 640 while the interrupt
\* fills it, the header scan of distAcq stays within it although it trusts a
\* counter that may be torn, and the parser collects at most 257 distances,
\* whether the interrupt is ever late or not.
THEOREM TypeCorrect == Spec => []TypeOK
<1>1. IInv => TypeOK
  BY DEF IInv, Typed, Types
<1> QED
  BY <1>1, Inductive, PTL

\* While the interrupt is never late, what supertest hands to BruteCalc is
\* exactly the 257 distances the sensor measured, filtered: nothing is lost
\* between UDR2 and URG_buffer, and the wait for 585 bytes covers all that
\* distAcq decodes, unless a load of URG_counter was split.
THEOREM ScanIsTheSensors ==
    ASSUME Latency = 1 PROVE Spec => []ParsedIsMeasured
<1>1. IInv => ParsedIsMeasured
  BY DEF IInv, Whole
<1> QED
  BY <1>1, Inductive, PTL

\* While the interrupt is never late, distAcq leaves the header right behind the
\* time stamp, also when the load it compares with was split.
THEOREM StopsAtTheTimeStamp ==
    ASSUME Latency = 1 PROVE Spec => []HeaderFound
<1>1. IInv => HeaderFound
  BY DEF IInv, Whole
<1> QED
  BY <1>1, Inductive, PTL
=============================================================================
