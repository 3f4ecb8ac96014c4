---------------------------- MODULE CmuCam_proofs ----------------------------
(***************************************************************************)
(* The four invariants of the camera's client, for every number of calls,  *)
(* retries and accidents, all data of packets and all interleavings of the *)
(* camera with the client: flushes may cut an answer anywhere.             *)
(***************************************************************************)
EXTENDS CmuCam, SequenceTheorems, TLAPS

AnyByte == [val : 0..255, packet : Nat]
AnyCommand == [cmd : {"RM", "CR", "PM", "TC"}, colour : Colours, call : Nat]
AnyPacket == [colour : Colours, call : Nat, breaks : BOOLEAN]

\* The last command that the camera has not taken is the one whose
\* acknowledgement the client wants.
Typed ==
    /\ TypeOK
    /\ stream \in Seq(AnyByte)
    /\ commands \in Seq(AnyCommand)
    /\ packets \in Seq(AnyPacket)
    /\ pc = "rest" => left <= bytes_in_ack
    /\ pc \in {"hunt", "kind", "data"} => cmd = "TC"
    /\ pc # "idle" /\ commands # <<>> => Last(commands).cmd = cmd
    /\ ended = "packet" => pc = "idle"

\* When the camera has answered every command, what is left to read is at least
\* what the client will wait for; the packet begins ten bytes before the end.
Enough ==
    LET n == Len(stream)
        ahead(k) == n >= 11 + k /\ stream[n - 10].val = HEADER
    IN  /\ pc = "ack" => IF cmd = "TC" THEN ahead(4) ELSE n >= 5
        /\ pc = "rest" => IF cmd = "TC" THEN ahead(left) ELSE n >= left
        /\ pc = "hunt" => ahead(0)
        /\ pc = "kind" => n >= 10
        /\ pc = "data" => n >= left + 1

Wanted == accidents = 0 /\ commands = <<>> => Enough

\* At most one byte of an answer is lost, so behind the beginning of a packet
\* come eight of its bytes, and then the ninth or the prompt.
Through(p, n) ==
    /\ p \in DOMAIN packets
    /\ Len(stream) >= n
    /\ \A i \in 1..(n - 1) : stream[i].packet = p
    /\ stream[n].packet = p \/ stream[n].val = COLON

Leads(s, i) ==
    s[i].val = HEADER =>
        /\ i + 9 <= Len(s)
        /\ \A j \in 1..8 : s[i + j].packet = s[i].packet
        /\ s[i + 9].packet = s[i].packet \/ s[i + 9].val = COLON

HeadersLead ==
    \A i \in 1..Len(stream) :
        /\ Leads(stream, i)
        /\ stream[i].val = HEADER => stream[i].packet \in DOMAIN packets

PacketUnderWay ==
    /\ pc = "kind" => \E p \in DOMAIN packets : Through(p, 9)
    /\ pc = "data" => \E p \in DOMAIN packets :
           /\ Through(p, left)
           /\ \A i \in 1..(8 - left) : track_info[colour][i].packet = p

Intact ==
    /\ HeadersLead
    /\ PacketUnderWay
    /\ in_view["stop_sign"] /\ ~(pc = "data" /\ colour = "stop_sign") =>
           \E p \in DOMAIN packets : Of("stop_sign", p)

\* Without accidents the answers come as they were sent, so a byte is known by
\* its distance from the end.
Clean == accidents = 0 /\ \A p \in DOMAIN packets : ~packets[p].breaks

EchoAt(d) == CASE d % 5 = 4 -> A  [] d % 5 = 3 -> C  [] d % 5 = 2 -> K
               [] d % 5 = 1 -> CR [] d % 5 = 0 -> COLON

Echoes == \A i \in 1..Len(stream) : stream[i].val = EchoAt(Len(stream) - i)

\* Before the request to track,
Preparing ==
    /\ Echoes
    /\ \A i \in 1..Len(commands) : commands[i].cmd # "TC"
    /\ pc = "rest" => Len(stream) % 5 = left

\* until the camera takes it, behind the retries of the command before,
Requesting ==
    /\ Echoes
    /\ \A i \in 1..Len(commands) :
          commands[i].cmd = "TC" <=> i = Len(commands)
    /\ Last(commands).colour = colour /\ Last(commands).call = calls
    /\ pc \in {"ack", "rest", "hunt"}

\* and from then on.
InAnswer(b, d, q) ==
    /\ d >= 11 => b.val = EchoAt(d)
    /\ d = 10 => b.val = HEADER
    /\ d = 9 => b.val = T
    /\ d \in 1..8 => b.packet = q /\ ~Breaks(b.val)
    /\ d = 0 => b.val = COLON

Answered ==
    LET n == Len(stream)
        q == Len(packets)
    IN  /\ \A i \in 1..n : InAnswer(stream[i], n - i, q)
        /\ q > 0 /\ packets[q].colour = colour /\ packets[q].call = calls
        /\ pc \in {"ack", "rest", "hunt"} => n >= 11
        /\ pc = "kind" => n = 10
        /\ pc = "data" => /\ n = left + 1
                          /\ \A i \in 1..(8 - left) :
                                track_info[colour][i].packet = q

Tracking ==
    /\ pc = "ack" => Len(stream) % 5 = 0
    /\ pc = "rest" => Len(stream) % 5 = left + 1
    /\ commands # <<>> => Requesting
    /\ commands = <<>> => Answered

InStep ==
    /\ pc = "idle" \/ cmd # "TC" => Preparing
    /\ pc # "idle" /\ cmd = "TC" => Tracking

Fresh == AnswerIsFresh /\ (Clean => InStep)

IInv == Typed /\ Wanted /\ Intact /\ Fresh

-----------------------------------------------------------------------------
\* Sequences.
LEMMA Removed ==
    ASSUME NEW S, NEW s \in Seq(S), NEW k \in 1..Len(s)
    PROVE  /\ RemoveAt(s, k) \in Seq(S)
           /\ Len(RemoveAt(s, k)) = Len(s) - 1
           /\ \A i \in 1..(Len(s) - 1) :
                 RemoveAt(s, k)[i] = IF i < k THEN s[i] ELSE s[i + 1]
<1> DEFINE l == SubSeq(s, 1, k - 1)  r == SubSeq(s, k + 1, Len(s))
<1>1. Len(s) \in Nat /\ \A i \in 1..Len(s) : s[i] \in S
  BY LenProperties, ElementOfSeq
<1>2. l \in Seq(S) /\ Len(l) = k - 1 /\ \A i \in 1..(k - 1) : l[i] = s[i]
  <2>1. \A i \in 1..(k - 1) : s[i] \in S
    BY <1>1
  <2>2. 1 \in Int /\ k - 1 \in Int
    BY <1>1
  <2> HIDE DEF l
  <2>3. /\ l \in Seq(S)
        /\ Len(l) = IF 1 <= k - 1 THEN k - 1 - 1 + 1 ELSE 0
        /\ \A i \in 1..(k - 1 - 1 + 1) : l[i] = s[1 + i - 1]
    BY <2>1, <2>2, SubSeqProperties DEF l
  <2> QED
    BY <1>1, <2>3
<1>3. /\ r \in Seq(S) /\ Len(r) = Len(s) - k
      /\ \A i \in 1..(Len(s) - k) : r[i] = s[k + i]
  <2>1. \A i \in (k + 1)..Len(s) : s[i] \in S
    BY <1>1
  <2>2. k + 1 \in Int /\ Len(s) \in Int
    BY <1>1
  <2> HIDE DEF r
  <2>3. /\ r \in Seq(S)
        /\ Len(r) = IF k + 1 <= Len(s) THEN Len(s) - (k + 1) + 1 ELSE 0
        /\ \A i \in 1..(Len(s) - (k + 1) + 1) : r[i] = s[k + 1 + i - 1]
    BY <2>1, <2>2, SubSeqProperties DEF r
  <2> QED
    BY <1>1, <2>3
<1>4. RemoveAt(s, k) = l \o r
  BY DEF RemoveAt
<1> HIDE DEF l, r
<1>5. /\ l \o r \in Seq(S)
      /\ Len(l \o r) = Len(l) + Len(r)
      /\ \A i \in 1..(Len(l) + Len(r)) :
            (l \o r)[i] = IF i <= Len(l) THEN l[i] ELSE r[i - Len(l)]
  BY <1>2, <1>3, ConcatProperties
<1>6. ASSUME NEW i \in 1..(Len(s) - 1)
      PROVE  (l \o r)[i] = IF i < k THEN s[i] ELSE s[i + 1]
  <2>1. CASE i < k
    BY <1>1, <1>2, <1>3, <1>5, <2>1
  <2>2. CASE ~(i < k)
    <3>1. i - (k - 1) \in 1..(Len(s) - k) /\ k + (i - (k - 1)) = i + 1
      BY <1>1, <2>2
    <3>2. r[i - (k - 1)] = s[i + 1]
      BY <1>3, <3>1
    <3> QED
      BY <1>1, <1>2, <1>3, <1>5, <2>2, <3>2
  <2> QED
    BY <2>1, <2>2
<1> QED
  BY <1>1, <1>2, <1>3, <1>4, <1>5, <1>6

LEMMA Joined ==
    ASSUME NEW S, NEW s \in Seq(S), NEW t \in Seq(S)
    PROVE  /\ s \o t \in Seq(S)
           /\ Len(s \o t) = Len(s) + Len(t)
           /\ \A i \in 1..Len(s) : (s \o t)[i] = s[i]
           /\ \A i \in (Len(s) + 1)..(Len(s) + Len(t)) :
                 (s \o t)[i] = t[i - Len(s)]
<1>1. /\ s \o t \in Seq(S)
      /\ Len(s \o t) = Len(s) + Len(t)
      /\ \A i \in 1..(Len(s) + Len(t)) :
            (s \o t)[i] = IF i <= Len(s) THEN s[i] ELSE t[i - Len(s)]
  BY ConcatProperties
<1>2. Len(s) \in Nat /\ Len(t) \in Nat
  BY LenProperties
<1> QED
  BY <1>1, <1>2

LEMMA JoinedBytes ==
    ASSUME NEW s \in Seq(AnyByte), NEW t \in Seq(AnyByte),
           NEW u, u = s \o t
    PROVE  /\ u \in Seq(AnyByte)
           /\ Len(u) = Len(s) + Len(t)
           /\ \A i \in 1..Len(s) : u[i] = s[i]
           /\ \A i \in 1..Len(t) : u[Len(s) + i] = t[i]
<1>1. /\ u \in Seq(AnyByte)
      /\ Len(u) = Len(s) + Len(t)
      /\ \A i \in 1..Len(s) : u[i] = s[i]
      /\ \A i \in (Len(s) + 1)..(Len(s) + Len(t)) : u[i] = t[i - Len(s)]
  BY Joined
<1>2. ASSUME NEW i \in 1..Len(t) PROVE u[Len(s) + i] = t[i]
  <2>1. Len(s) \in Nat /\ Len(t) \in Nat
    BY LenProperties
  <2>2. /\ Len(s) + i \in (Len(s) + 1)..(Len(s) + Len(t))
        /\ (Len(s) + i) - Len(s) = i
    BY <2>1
  <2>3. u[Len(s) + i] = t[(Len(s) + i) - Len(s)]
    BY <1>1, <2>2
  <2> QED
    BY <2>2, <2>3
<1> QED
  BY <1>1, <1>2

LEMMA SameRange ==
    ASSUME NEW n \in Nat, NEW k \in Nat, 1..n = 1..k
    PROVE  n = k
<1>1. \A i \in Int : i \in 1..n <=> i \in 1..k
  OBVIOUS
<1>2. n >= k /\ ~(n >= k + 1)
  BY <1>1
<1> QED
  BY <1>2

LEMMA FlushedFacts ==
    ASSUME NEW S, NEW s \in Seq(S), NEW t \in Flushed(s)
    PROVE  /\ t \in Seq(S)
           /\ \E k \in 0..Len(s) :
                 /\ Len(t) = Len(s) - k
                 /\ \A i \in 1..(Len(s) - k) : t[i] = s[i + k]
<1>1. Len(s) \in Nat /\ \A i \in 1..Len(s) : s[i] \in S
  BY LenProperties, ElementOfSeq
<1>2. PICK j \in 1..(Len(s) + 1) : t = SubSeq(s, j, Len(s))
  BY DEF Flushed
<1>3. j \in Int /\ Len(s) \in Int /\ \A i \in j..Len(s) : s[i] \in S
  BY <1>1
<1>4. /\ t \in Seq(S)
      /\ Len(t) = IF j <= Len(s) THEN Len(s) - j + 1 ELSE 0
      /\ \A i \in 1..(Len(s) - j + 1) : t[i] = s[j + i - 1]
  BY <1>2, <1>3, SubSeqProperties
<1>5. j - 1 \in 0..Len(s) /\ Len(t) = Len(s) - (j - 1)
  BY <1>1, <1>4
<1>6. \A i \in 1..(Len(s) - (j - 1)) : t[i] = s[i + (j - 1)]
  <2> TAKE i \in 1..(Len(s) - (j - 1))
  <2>1. i \in 1..(Len(s) - j + 1) /\ j + i - 1 = i + (j - 1)
    BY <1>1
  <2> QED
    BY <1>4, <2>1
<1> QED
  BY <1>4, <1>5, <1>6

-----------------------------------------------------------------------------
\* What the camera answers.
Echo == Ack \o Prompt
Tracked(data) == Ack \o Packet(data) \o Prompt
Refusal == Nck \o Prompt

LEMMA PlainFacts ==
    /\ Ack \in Seq(AnyByte) /\ Len(Ack) = 4
    /\ Ack[1].val = A /\ Ack[2].val = C /\ Ack[3].val = K /\ Ack[4].val = CR
    /\ Nck \in Seq(AnyByte) /\ Len(Nck) = 4
    /\ Nck[1].val = N /\ Nck[2].val = C /\ Nck[3].val = K /\ Nck[4].val = CR
    /\ Prompt \in Seq(AnyByte) /\ Len(Prompt) = 1
    /\ Prompt[1].val = COLON
    /\ \A i \in 1..4 : Ack[i].packet = 0 /\ Nck[i].packet = 0
    /\ Prompt[1].packet = 0
<1>1. /\ Ack = <<[val |-> A, packet |-> 0], [val |-> C, packet |-> 0],
                 [val |-> K, packet |-> 0], [val |-> CR, packet |-> 0]>>
      /\ Nck = <<[val |-> N, packet |-> 0], [val |-> C, packet |-> 0],
                 [val |-> K, packet |-> 0], [val |-> CR, packet |-> 0]>>
      /\ Prompt = <<[val |-> COLON, packet |-> 0]>>
  BY DEF Ack, Nck, Prompt, Plain
<1>2. \A v \in {A, C, K, N, CR, COLON} : [val |-> v, packet |-> 0] \in AnyByte
  BY DEF AnyByte, A, C, K, N, CR, COLON
<1> QED
  BY <1>1, <1>2

LEMMA PacketFacts ==
    ASSUME NEW data \in Measured, packets \in Seq(AnyPacket)
    PROVE  /\ Packet(data) \in Seq(AnyByte) /\ Len(Packet(data)) = 10
           /\ Packet(data)[1].val = HEADER /\ Packet(data)[2].val = T
           /\ \A i \in 1..8 : /\ Packet(data)[i + 2].val = data[i]
                              /\ data[i] \in 0..254
           /\ \A i \in 1..10 : Packet(data)[i].packet = Len(packets) + 1
<1> DEFINE whole == <<HEADER, T>> \o data
<1>1. /\ data \in Seq(0..254) /\ Len(data) = 8
      /\ \A i \in 1..8 : data[i] \in 0..254
  BY CameraAssumption, ElementOfSeq
<1>2. /\ <<HEADER, T>> \in Seq(0..255) /\ Len(<<HEADER, T>>) = 2
      /\ data \in Seq(0..255)
  <2>1. 0..254 \subseteq 0..255
    OBVIOUS
  <2> QED
    BY <1>1, <2>1, SeqMonotonic DEF HEADER, T
<1>3. /\ whole \in Seq(0..255) /\ Len(whole) = 10
      /\ \A i \in 1..2 : whole[i] = <<HEADER, T>>[i]
      /\ \A i \in 3..10 : whole[i] = data[i - 2]
  <2> DEFINE lead == <<HEADER, T>>  V == 0..255
  <2>1. lead \in Seq(V) /\ Len(lead) = 2 /\ data \in Seq(V)
    BY <1>2
  <2>2. whole = lead \o data
    OBVIOUS
  <2> HIDE DEF whole, lead, V
  <2>3. /\ whole \in Seq(V)
        /\ Len(whole) = Len(lead) + Len(data)
        /\ \A i \in 1..Len(lead) : whole[i] = lead[i]
        /\ \A i \in (Len(lead) + 1)..(Len(lead) + Len(data)) :
              whole[i] = data[i - Len(lead)]
    BY <2>1, <2>2, Joined
  <2>4. \A i \in 1..2 : whole[i] = lead[i]
    BY <2>1, <2>3
  <2>5. \A i \in 3..10 : whole[i] = data[i - 2]
    BY <1>1, <2>1, <2>3
  <2> QED
    BY <1>1, <2>1, <2>3, <2>4, <2>5 DEF lead, V
<1> HIDE DEF whole
<1>4. Len(packets) \in Nat
  BY LenProperties
<1>5. Packet(data) = [i \in 1..10 |-> [val |-> whole[i],
                                       packet |-> Len(packets) + 1]]
  BY DEF Packet, whole
<1>6. \A i \in 1..10 : [val |-> whole[i], packet |-> Len(packets) + 1]
                          \in AnyByte
  <2> TAKE i \in 1..10
  <2>1. whole[i] \in 0..255
    BY <1>3, ElementOfSeq
  <2> QED
    BY <1>4, <2>1 DEF AnyByte
<1>7. Packet(data) \in [1..10 -> AnyByte]
  BY <1>5, <1>6
<1>8. Packet(data) \in Seq(AnyByte) /\ Len(Packet(data)) = 10
  <2>1. Packet(data) \in Seq(AnyByte)
    BY <1>7, SeqDef
  <2>2. DOMAIN Packet(data) = 1..10
    BY <1>7
  <2>3. 1..Len(Packet(data)) = 1..10 /\ Len(Packet(data)) \in Nat
    BY <2>1, <2>2, LenProperties
  <2>4. Len(Packet(data)) = 10
    BY <2>3, SameRange
  <2> QED
    BY <2>1, <2>4
<1>9. whole[1] = HEADER /\ whole[2] = T
  BY <1>3
<1>10. \A i \in 1..8 : whole[i + 2] = data[i]
  <2> TAKE i \in 1..8
  <2>1. i + 2 \in 3..10 /\ (i + 2) - 2 = i
    OBVIOUS
  <2> QED
    BY <1>3, <2>1
<1>11. \A i \in 1..10 : /\ Packet(data)[i].val = whole[i]
                        /\ Packet(data)[i].packet = Len(packets) + 1
  BY <1>5
<1>12. \A i \in 1..8 : Packet(data)[i + 2].val = data[i]
  <2> TAKE i \in 1..8
  <2>1. i + 2 \in 1..10
    OBVIOUS
  <2> QED
    BY <1>10, <1>11, <2>1
<1> QED
  BY <1>1, <1>8, <1>9, <1>11, <1>12

LEMMA EchoFacts ==
    /\ Echo \in Seq(AnyByte) /\ Len(Echo) = 5
    /\ \A i \in 1..5 : Echo[i].val = EchoAt(5 - i) /\ Echo[i].packet = 0
    /\ Refusal \in Seq(AnyByte) /\ Len(Refusal) = 5
    /\ \A i \in 1..5 : Echo[i].val # HEADER /\ Refusal[i].val # HEADER
    /\ \A i \in 1..5 : Refusal[i].packet = 0
<1>1. /\ Echo \in Seq(AnyByte) /\ Len(Echo) = 5
      /\ \A i \in 1..4 : Echo[i] = Ack[i]
      /\ Echo[5] = Prompt[1]
  <2>1. /\ Echo \in Seq(AnyByte) /\ Len(Echo) = Len(Ack) + Len(Prompt)
        /\ \A i \in 1..Len(Ack) : Echo[i] = Ack[i]
        /\ \A i \in 1..Len(Prompt) : Echo[Len(Ack) + i] = Prompt[i]
    <3>1. Echo = Ack \o Prompt
      BY DEF Echo
    <3>2. Ack \in Seq(AnyByte) /\ Prompt \in Seq(AnyByte)
      BY PlainFacts
    <3> QED
      BY <3>1, <3>2, JoinedBytes
  <2>2. Echo[4 + 1] = Prompt[1]
    BY <2>1, PlainFacts
  <2> QED
    BY <2>1, <2>2, PlainFacts
<1>2. /\ Refusal \in Seq(AnyByte) /\ Len(Refusal) = 5
      /\ \A i \in 1..4 : Refusal[i] = Nck[i]
      /\ Refusal[5] = Prompt[1]
  <2>1. /\ Refusal \in Seq(AnyByte) /\ Len(Refusal) = Len(Nck) + Len(Prompt)
        /\ \A i \in 1..Len(Nck) : Refusal[i] = Nck[i]
        /\ \A i \in 1..Len(Prompt) : Refusal[Len(Nck) + i] = Prompt[i]
    <3>1. Refusal = Nck \o Prompt
      BY DEF Refusal
    <3>2. Nck \in Seq(AnyByte) /\ Prompt \in Seq(AnyByte)
      BY PlainFacts
    <3> QED
      BY <3>1, <3>2, JoinedBytes
  <2>2. Refusal[4 + 1] = Prompt[1]
    BY <2>1, PlainFacts
  <2> QED
    BY <2>1, <2>2, PlainFacts
<1>3. /\ Echo[1].val = A /\ Echo[2].val = C /\ Echo[3].val = K
      /\ Echo[4].val = CR /\ Echo[5].val = COLON
  BY <1>1, PlainFacts
<1>4. /\ Refusal[1].val = N /\ Refusal[2].val = C /\ Refusal[3].val = K
      /\ Refusal[4].val = CR /\ Refusal[5].val = COLON
  BY <1>2, PlainFacts
<1>5. \A i \in 1..5 : Echo[i].packet = 0 /\ Refusal[i].packet = 0
  BY <1>1, <1>2, PlainFacts
<1>6. /\ EchoAt(4) = A /\ EchoAt(3) = C /\ EchoAt(2) = K
      /\ EchoAt(1) = CR /\ EchoAt(0) = COLON
  BY DEF EchoAt
<1>7. \A i \in 1..5 : Echo[i].val = EchoAt(5 - i)
  BY <1>3, <1>6
<1>8. \A i \in 1..5 : Echo[i].val # HEADER /\ Refusal[i].val # HEADER
  BY <1>3, <1>4 DEF A, C, K, N, CR, COLON, HEADER
<1> QED
  BY <1>1, <1>2, <1>5, <1>7, <1>8

LEMMA TrackedShape ==
    ASSUME NEW q \in Seq(AnyByte),
           NEW r, r = (Ack \o q) \o Prompt
    PROVE  /\ r \in Seq(AnyByte) /\ Len(r) = 5 + Len(q)
           /\ \A i \in 1..4 : r[i] = Ack[i]
           /\ \A i \in 1..Len(q) : r[4 + i] = q[i]
           /\ r[5 + Len(q)] = Prompt[1]
<1>1. Ack \in Seq(AnyByte) /\ Prompt \in Seq(AnyByte)
  BY PlainFacts
<1>f. PICK f : f = Ack \o q
  OBVIOUS
<1>r. r = f \o Prompt
  BY <1>f
<1>2. /\ f \in Seq(AnyByte) /\ Len(f) = Len(Ack) + Len(q)
      /\ \A i \in 1..Len(Ack) : f[i] = Ack[i]
      /\ \A i \in 1..Len(q) : f[Len(Ack) + i] = q[i]
  BY <1>1, <1>f, JoinedBytes
<1>3. /\ r \in Seq(AnyByte) /\ Len(r) = Len(f) + Len(Prompt)
      /\ \A i \in 1..Len(f) : r[i] = f[i]
      /\ \A i \in 1..Len(Prompt) : r[Len(f) + i] = Prompt[i]
  <2>1. f \in Seq(AnyByte)
    BY <1>2
  <2> QED
    BY <1>1, <1>r, <2>1, JoinedBytes
<1>4. Len(Ack) = 4 /\ Len(Prompt) = 1 /\ Len(q) \in Nat
  BY PlainFacts, LenProperties
<1>5. Len(f) = 4 + Len(q) /\ Len(r) = 5 + Len(q)
  BY <1>2, <1>3, <1>4
<1>6. r[Len(f) + 1] = Prompt[1]
  BY <1>3, <1>4
<1>7. \A i \in 1..4 : r[i] = Ack[i]
  BY <1>2, <1>3, <1>4, <1>5, SMTT(30)
<1>8. ASSUME NEW i \in 1..Len(q) PROVE r[4 + i] = q[i]
  <2>1. f[4 + i] = q[i]
    BY <1>2, <1>4
  <2>2. 4 + i \in 1..Len(f)
    BY <1>4, <1>5
  <2> QED
    BY <1>3, <2>1, <2>2
<1>9. Len(f) + 1 = 5 + Len(q)
  BY <1>4, <1>5
<1> QED
  BY <1>3, <1>5, <1>6, <1>7, <1>8, <1>9

LEMMA NoHeader == ASSUME NEW v \in 0..254 PROVE v # HEADER
  BY DEF HEADER

\* The answer to a request to track: which packet its bytes belong to, and
\* their values.
TrackedBytes(r, n) ==
    /\ r \in Seq(AnyByte) /\ Len(r) = 15
    /\ \A i \in 1..4 : r[i].packet = 0
    /\ \A i \in 5..14 : r[i].packet = n + 1
    /\ \A i \in 1..15 : r[i].val = HEADER => i = 5
    /\ r[15].packet = 0 /\ r[15].val = COLON

TrackedValues(r, data) ==
    /\ \A i \in 1..4 : r[i].val = EchoAt(15 - i)
    /\ r[5].val = HEADER /\ r[6].val = T
    /\ \A i \in 1..8 : r[i + 6].val = data[i]
    /\ r[15].val = COLON

LEMMA TrackedFacts ==
    ASSUME NEW data \in Measured, packets \in Seq(AnyPacket),
           NEW r, r = Tracked(data)
    PROVE  TrackedBytes(r, Len(packets)) /\ TrackedValues(r, data)
<1> DEFINE q == Packet(data)
<1>q. /\ q \in Seq(AnyByte) /\ Len(q) = 10
      /\ q[1].val = HEADER /\ q[2].val = T
      /\ \A i \in 1..8 : q[i + 2].val = data[i] /\ data[i] \in 0..254
      /\ \A i \in 1..10 : q[i].packet = Len(packets) + 1
  BY PacketFacts
<1>1. r = (Ack \o q) \o Prompt
  BY DEF Tracked
<1> HIDE DEF q
<1>t. /\ r \in Seq(AnyByte) /\ Len(r) = 5 + Len(q)
      /\ \A i \in 1..4 : r[i] = Ack[i]
      /\ \A i \in 1..Len(q) : r[4 + i] = q[i]
      /\ r[5 + Len(q)] = Prompt[1]
  <2>1. q \in Seq(AnyByte)
    BY <1>q
  <2> QED
    BY <1>1, <2>1, TrackedShape
<1>2. /\ r \in Seq(AnyByte) /\ Len(r) = 15
      /\ \A i \in 1..4 : r[i] = Ack[i]
      /\ \A i \in 1..10 : r[4 + i] = q[i]
      /\ r[15] = Prompt[1]
  BY <1>q, <1>t
<1>3. \A i \in 1..4 : r[i] = Ack[i]
  BY <1>2
<1>4. \A i \in 5..14 : r[i] = q[i - 4]
  <2> TAKE i \in 5..14
  <2>1. i - 4 \in 1..10 /\ 4 + (i - 4) = i
    OBVIOUS
  <2>2. r[4 + (i - 4)] = q[i - 4]
    BY <1>2, <2>1
  <2> QED
    BY <2>1, <2>2
<1>5. r[15] = Prompt[1]
  BY <1>2
<1>6. /\ EchoAt(14) = A /\ EchoAt(13) = C /\ EchoAt(12) = K /\ EchoAt(11) = CR
  BY DEF EchoAt
<1>7. \A i \in 1..4 : r[i].val = EchoAt(15 - i) /\ r[i].packet = 0
  BY <1>3, <1>6, PlainFacts
<1>8. r[5].val = HEADER /\ r[6].val = T
  <2>1. r[5] = q[5 - 4] /\ r[6] = q[6 - 4]
    BY <1>4
  <2> QED
    BY <2>1, <1>q
<1>9. \A i \in 1..8 : r[i + 6].val = data[i] /\ data[i] \in 0..254
  <2> TAKE i \in 1..8
  <2>1. i + 6 \in 5..14 /\ (i + 6) - 4 = i + 2
    OBVIOUS
  <2>2. r[i + 6] = q[i + 2]
    BY <1>4, <2>1
  <2> QED
    BY <2>2, <1>q
<1>10. \A i \in 5..14 : r[i].packet = Len(packets) + 1
  <2> TAKE i \in 5..14
  <2>1. i - 4 \in 1..10
    OBVIOUS
  <2> QED
    BY <1>4, <2>1, <1>q, SMTT(30)
<1>11. r[15].val = COLON /\ r[15].packet = 0
  BY <1>5, PlainFacts
<1>12. ASSUME NEW i \in 1..15, i # 5 PROVE r[i].val # HEADER
  <2>1. CASE i \in 1..4
    BY <1>3, <2>1, PlainFacts DEF A, C, K, CR, HEADER
  <2>2. CASE i = 6 \/ i = 15
    BY <1>8, <1>11, <2>2 DEF T, COLON, HEADER
  <2>3. CASE i \in 7..14
    <3>1. i - 6 \in 1..8 /\ (i - 6) + 6 = i
      BY <2>3
    <3>2. r[(i - 6) + 6].val = data[i - 6] /\ data[i - 6] \in 0..254
      BY <1>9, <3>1
    <3>3. r[i].val \in 0..254
      BY <3>1, <3>2
    <3> QED
      BY <3>3, NoHeader
  <2> QED
    BY <1>12, <2>1, <2>2, <2>3
<1> QED
  <2>1. TrackedBytes(r, Len(packets))
    BY <1>2, <1>7, <1>10, <1>11, <1>12 DEF TrackedBytes
  <2>2. TrackedValues(r, data)
    BY <1>7, <1>8, <1>9, <1>11 DEF TrackedValues
  <2> QED
    BY <2>1, <2>2

-----------------------------------------------------------------------------
\* What a step does to the stream: it takes bytes off its front,
Drops(k) ==
    /\ k \in 0..Len(stream)
    /\ stream' \in Seq(AnyByte)
    /\ Len(stream') = Len(stream) - k
    /\ \A i \in 1..(Len(stream) - k) : stream'[i] = stream[i + k]

\* or puts a reply behind it.
Extends(r) ==
    /\ r \in Seq(AnyByte)
    /\ stream' \in Seq(AnyByte)
    /\ Len(stream') = Len(stream) + Len(r)
    /\ \A i \in 1..Len(stream) : stream'[i] = stream[i]
    /\ \A i \in 1..Len(r) : stream'[Len(stream) + i] = r[i]

LEMMA ReadDrops ==
    ASSUME stream \in Seq(AnyByte), read_cmu_byte
    PROVE  /\ Drops(1) /\ Len(stream) \in Nat \ {0}
           /\ Head(stream) = stream[1] /\ stream[1] \in AnyByte
<1>1. stream # <<>> /\ stream' = Tail(stream)
  BY DEF read_cmu_byte
<1>2. Len(stream) \in Nat /\ Len(stream) # 0
  BY <1>1, EmptySeq, LenProperties
<1>3. /\ stream' \in Seq(AnyByte) /\ Len(stream') = Len(stream) - 1
      /\ \A i \in 1..Len(stream') : stream'[i] = stream[i + 1]
  BY <1>1, HeadTailProperties
<1>4. Head(stream) = stream[1] /\ stream[1] \in AnyByte
  BY <1>2, ElementOfSeq
<1> QED
  BY <1>2, <1>3, <1>4 DEF Drops

LEMMA FlushDrops ==
    ASSUME stream \in Seq(AnyByte), stream' \in Flushed(stream)
    PROVE  \E k \in 0..Len(stream) : Drops(k)
  BY FlushedFacts DEF Drops

LEMMA RetryDrops ==
    ASSUME stream \in Seq(AnyByte), stream # <<>>,
           stream' \in Flushed(Tail(stream))
    PROVE  \E k \in 0..Len(stream) : Drops(k)
<1> DEFINE t == Tail(stream)
<1>1. Len(stream) \in Nat /\ Len(stream) # 0
  BY EmptySeq, LenProperties
<1>2. /\ t \in Seq(AnyByte) /\ Len(t) = Len(stream) - 1
      /\ \A i \in 1..Len(t) : t[i] = stream[i + 1]
  BY HeadTailProperties
<1> HIDE DEF t
<1>3. stream' \in Flushed(t)
  BY DEF t
<1>4. PICK j \in 0..Len(t) :
         /\ stream' \in Seq(AnyByte) /\ Len(stream') = Len(t) - j
         /\ \A i \in 1..(Len(t) - j) : stream'[i] = t[i + j]
  BY <1>2, <1>3, FlushedFacts
<1>5. j + 1 \in 0..Len(stream) /\ Len(stream') = Len(stream) - (j + 1)
  BY <1>1, <1>2, <1>4
<1>6. ASSUME NEW i \in 1..(Len(stream) - (j + 1))
      PROVE  stream'[i] = stream[i + (j + 1)]
  <2>1. i \in 1..(Len(t) - j) /\ i + j \in 1..Len(t)
        /\ (i + j) + 1 = i + (j + 1)
    BY <1>1, <1>2
  <2>2. stream'[i] = t[i + j] /\ t[i + j] = stream[(i + j) + 1]
    BY <1>2, <1>4, <2>1
  <2> QED
    BY <2>1, <2>2
<1>7. Drops(j + 1)
  BY <1>4, <1>5, <1>6 DEF Drops
<1> QED
  BY <1>5, <1>7

LEMMA ReplyFacts ==
    ASSUME stream \in Seq(AnyByte), NEW r \in Seq(AnyByte), Reply(r)
    PROVE  /\ commands' = Tail(commands)
           /\ \/ accidents' = accidents /\ Extends(r)
              \/ /\ accidents < MaxAccidents /\ accidents' = accidents + 1
                 /\ \E k \in 1..Len(r) : Extends(RemoveAt(r, k))
<1>1. ASSUME NEW q \in Seq(AnyByte), stream' = stream \o q PROVE Extends(q)
  <2>1. /\ stream' \in Seq(AnyByte) /\ Len(stream') = Len(stream) + Len(q)
        /\ \A i \in 1..Len(stream) : stream'[i] = stream[i]
        /\ \A i \in 1..Len(q) : stream'[Len(stream) + i] = q[i]
    BY <1>1, JoinedBytes
  <2> QED
    BY <2>1 DEF Extends
<1>2. DOMAIN r = 1..Len(r)
  BY LenProperties
<1>3. CASE stream' = stream \o r /\ UNCHANGED accidents
  <2>1. Extends(r)
    BY <1>1, <1>3
  <2> QED
    BY <1>3, <2>1 DEF Reply
<1>4. CASE /\ accidents < MaxAccidents /\ accidents' = accidents + 1
           /\ \E i \in DOMAIN r : stream' = stream \o RemoveAt(r, i)
  <2>1. PICK k \in 1..Len(r) : stream' = stream \o RemoveAt(r, k)
    BY <1>2, <1>4
  <2>2. RemoveAt(r, k) \in Seq(AnyByte)
    BY Removed
  <2>3. Extends(RemoveAt(r, k))
    BY <1>1, <2>1, <2>2
  <2> QED
    BY <1>4, <2>3 DEF Reply
<1> QED
  BY <1>3, <1>4 DEF Reply

LEMMA RefuseExtends ==
    ASSUME stream \in Seq(AnyByte), Refuse
    PROVE  Extends(Refusal)
<1>1. stream' = (stream \o Nck) \o Prompt
  BY DEF Refuse
<1>2. Nck \in Seq(AnyByte) /\ Prompt \in Seq(AnyByte)
  BY PlainFacts
<1>3. stream' = stream \o Refusal
  BY <1>1, <1>2, ConcatAssociative DEF Refusal
<1>4. Refusal \in Seq(AnyByte)
  BY EchoFacts
<1>5. /\ stream' \in Seq(AnyByte) /\ Len(stream') = Len(stream) + Len(Refusal)
      /\ \A i \in 1..Len(stream) : stream'[i] = stream[i]
      /\ \A i \in 1..Len(Refusal) : stream'[Len(stream) + i] = Refusal[i]
  BY <1>3, <1>4, JoinedBytes
<1> QED
  BY <1>4, <1>5 DEF Extends

\* The camera takes a command and leaves the client as it is.
client == <<pc, cmd, sends, left, colour, in_view, track_info, ended, calls>>

\* An answer of the camera, with all its bytes or all but one.
Arrives(r) ==
    \/ accidents' = accidents /\ Extends(r)
    \/ /\ accidents' = accidents + 1
       /\ \E k \in 1..Len(r) : Extends(RemoveAt(r, k))

Acknowledges ==
    Head(commands).cmd # "TC" /\ UNCHANGED packets /\ Arrives(Echo)
Tracks(data) ==
    /\ Head(commands).cmd = "TC"
    /\ packets' = Append(packets, Asked(data))
    /\ Arrives(Tracked(data))
Refuses ==
    UNCHANGED packets /\ accidents' = accidents + 1 /\ Extends(Refusal)

LEMMA CameraStep ==
    ASSUME Typed, Answer \/ Refuse
    PROVE  /\ commands # <<>> /\ commands' = Tail(commands)
           /\ UNCHANGED client
           /\ \/ accidents' = accidents
              \/ accidents < MaxAccidents /\ accidents' = accidents + 1
           /\ Acknowledges \/ Refuses \/ \E data \in Measured : Tracks(data)
<1> USE DEF client, results
<1>s. stream \in Seq(AnyByte) /\ packets \in Seq(AnyPacket)
  BY DEF Typed
<1>1. CASE Refuse
  <2>1. Refuses
    BY <1>1, <1>s, RefuseExtends DEF Refuse, Refuses
  <2> QED
    BY <1>1, <2>1 DEF Refuse
<1>2. CASE Answer /\ Head(commands).cmd # "TC"
  <2>1. Reply(Echo) /\ UNCHANGED packets /\ commands # <<>>
    BY <1>2 DEF Answer, Echo
  <2>2. Echo \in Seq(AnyByte)
    BY EchoFacts
  <2>3. /\ commands' = Tail(commands)
        /\ \/ accidents' = accidents
           \/ accidents < MaxAccidents /\ accidents' = accidents + 1
        /\ Arrives(Echo)
    BY <1>s, <2>1, <2>2, ReplyFacts DEF Arrives
  <2>4. UNCHANGED client
    BY <1>2 DEF Answer
  <2> QED
    BY <1>2, <2>1, <2>3, <2>4 DEF Acknowledges
<1>3. CASE Answer /\ Head(commands).cmd = "TC"
  <2>1. PICK data \in Measured : /\ Reply(Tracked(data))
                                 /\ packets' = Append(packets, Asked(data))
    BY <1>3 DEF Answer, Tracked
  <2>2. Tracked(data) \in Seq(AnyByte)
    BY <1>s, TrackedFacts DEF TrackedBytes
  <2>3. /\ commands' = Tail(commands)
        /\ \/ accidents' = accidents
           \/ accidents < MaxAccidents /\ accidents' = accidents + 1
        /\ Arrives(Tracked(data))
    BY <1>s, <2>1, <2>2, ReplyFacts DEF Arrives
  <2>4. UNCHANGED client /\ commands # <<>>
    BY <1>3 DEF Answer
  <2> QED
    BY <1>3, <2>1, <2>3, <2>4 DEF Tracks
<1> QED
  BY <1>1, <1>2, <1>3

\* What the invariants need of an answer.
Proper(r, n) ==
    /\ r \in Seq(AnyByte)
    /\ \A i \in 1..Len(r) :
          /\ r[i].packet \in 0..n
          /\ r[i].val = HEADER => r[i].packet \in 1..n
          /\ Leads(r, i)

LEMMA RemovedByte ==
    ASSUME NEW r \in Seq(AnyByte), NEW k \in 1..Len(r),
           NEW q, q = RemoveAt(r, k)
    PROVE  /\ q \in Seq(AnyByte) /\ Len(q) = Len(r) - 1
           /\ \A i \in 1..(Len(r) - 1) :
                 q[i] = IF i < k THEN r[i] ELSE r[i + 1]
  BY Removed

\* An answer without a packet, whole or without one of its bytes.
LEMMA ProperPlain ==
    ASSUME NEW r \in Seq(AnyByte), NEW n \in Nat,
           \A i \in 1..Len(r) : r[i].val # HEADER /\ r[i].packet = 0
    PROVE  /\ Proper(r, n)
           /\ \A k \in 1..Len(r) : Proper(RemoveAt(r, k), n)
<1>1. Proper(r, n)
  BY DEF Proper, Leads
<1>2. ASSUME NEW k \in 1..Len(r) PROVE Proper(RemoveAt(r, k), n)
  <2>1. PICK q : q = RemoveAt(r, k)
    OBVIOUS
  <2>2. /\ q \in Seq(AnyByte) /\ Len(q) = Len(r) - 1
        /\ \A i \in 1..(Len(r) - 1) :
              q[i] = IF i < k THEN r[i] ELSE r[i + 1]
    BY <2>1, RemovedByte
  <2>3. ASSUME NEW i \in 1..Len(q) PROVE q[i].val # HEADER /\ q[i].packet = 0
    <3>1. i \in 1..Len(r) /\ i + 1 \in 1..Len(r) /\ i \in 1..(Len(r) - 1)
      BY <2>2, LenProperties
    <3> QED
      BY <2>2, <3>1
  <2>4. Proper(q, n)
    BY <2>2, <2>3 DEF Proper, Leads
  <2> QED
    BY <2>1, <2>4
<1> QED
  BY <1>1, <1>2

LEMMA ProperEcho ==
    ASSUME NEW n \in Nat
    PROVE  /\ Proper(Echo, n) /\ Proper(Refusal, n)
           /\ \A k \in 1..Len(Echo) : Proper(RemoveAt(Echo, k), n)
<1>1. /\ Echo \in Seq(AnyByte) /\ Refusal \in Seq(AnyByte)
      /\ \A i \in 1..Len(Echo) : Echo[i].val # HEADER /\ Echo[i].packet = 0
      /\ \A i \in 1..Len(Refusal) :
            Refusal[i].val # HEADER /\ Refusal[i].packet = 0
  BY EchoFacts
<1> QED
  BY <1>1, ProperPlain

\* A packet, whole or without one of its bytes: behind its beginning, at h, are
\* eight bytes of it, then the ninth or the prompt.
LEMMA ProperAt ==
    ASSUME NEW q \in Seq(AnyByte), NEW n \in Nat, NEW h \in Nat,
           \A i \in 1..Len(q) : q[i].packet \in 0..(n + 1),
           \A i \in 1..Len(q) : q[i].val = HEADER => i = h,
           h + 9 <= Len(q),
           \A i \in h..(h + 8) : q[i].packet = n + 1,
           q[h + 9].packet = n + 1 \/ q[h + 9].val = COLON
    PROVE  Proper(q, n + 1)
<1>1. ASSUME NEW i \in 1..Len(q), q[i].val = HEADER
      PROVE  q[i].packet \in 1..(n + 1) /\ Leads(q, i)
  <2>1. i = h
    BY <1>1
  <2>2. \A j \in 0..8 : h + j \in h..(h + 8)
    OBVIOUS
  <2>3. q[h].packet = n + 1 /\ \A j \in 1..8 : q[h + j].packet = n + 1
    BY <2>2
  <2> QED
    BY <2>1, <2>3 DEF Leads
<1>2. ASSUME NEW i \in 1..Len(q), q[i].val # HEADER
      PROVE  Leads(q, i)
  BY <1>2 DEF Leads
<1> QED
  BY <1>1, <1>2 DEF Proper

LEMMA ProperTracked ==
    ASSUME NEW n \in Nat, NEW r, TrackedBytes(r, n)
    PROVE  /\ Proper(r, n + 1)
           /\ \A k \in 1..Len(r) : Proper(RemoveAt(r, k), n + 1)
<1>1. /\ \A i \in 1..4 : r[i].packet = 0
      /\ \A i \in 5..14 : r[i].packet = n + 1
      /\ \A i \in 1..15 : r[i].val = HEADER => i = 5
      /\ r[15].packet = 0 /\ r[15].val = COLON
  BY DEF TrackedBytes
<1>2. r \in Seq(AnyByte) /\ Len(r) = 15
  BY DEF TrackedBytes
<1>3. ASSUME NEW i \in 1..15 PROVE r[i].packet \in 0..(n + 1)
  <2>1. i \in 1..4 \/ i \in 5..14 \/ i = 15
    OBVIOUS
  <2> QED
    BY <1>1, <2>1
<1>4. Proper(r, n + 1)
  <2>1. /\ \A i \in 5..13 : r[i].packet = n + 1
        /\ r[14].packet = n + 1
    BY <1>1
  <2>2. 5 \in Nat /\ 5 + 8 = 13 /\ 5 + 9 = 14 /\ 5 + 9 <= Len(r)
    BY <1>2
  <2> QED
    BY <1>1, <1>2, <1>3, <2>1, <2>2, ProperAt
<1>5. ASSUME NEW k \in 1..15 PROVE Proper(RemoveAt(r, k), n + 1)
  <2>1. PICK q : q = RemoveAt(r, k)
    OBVIOUS
  <2>2. /\ q \in Seq(AnyByte) /\ Len(q) = Len(r) - 1
        /\ \A i \in 1..(Len(r) - 1) :
              q[i] = IF i < k THEN r[i] ELSE r[i + 1]
    <3>1. r \in Seq(AnyByte) /\ k \in 1..Len(r)
      BY <1>2
    <3> QED
      BY <2>1, <3>1, RemovedByte
  <2> SUFFICES Proper(q, n + 1)
    BY <2>1
  <2>q. q \in Seq(AnyByte)
    BY <2>2
  <2>l. Len(q) = 14
    BY <1>2, <2>2
  <2>3. /\ Len(q) = 14
        /\ \A i \in 1..14 : q[i] = IF i < k THEN r[i] ELSE r[i + 1]
    BY <1>2, <2>2
  <2>4. \A i \in 1..14 : q[i].packet \in 0..(n + 1)
    BY <1>3, <2>3
  <2>5. CASE k <= 4
    <3>1. \A i \in 1..14 : q[i].val = HEADER => i = 4
      BY <1>1, <2>3, <2>5
    <3>2. \A i \in 4..12 : q[i].packet = n + 1
      BY <1>1, <2>3, <2>5
    <3>3. q[13].packet = n + 1
      BY <1>1, <2>3, <2>5
    <3>4. 4 \in Nat /\ 4 + 8 = 12 /\ 4 + 9 = 13 /\ 4 + 9 <= Len(q)
      BY <2>3
    <3> QED
      BY <2>q, <2>l, <2>4, <3>1, <3>2, <3>3, <3>4, ProperAt
  <2>6. CASE k = 5
    <3>1. \A i \in 1..14 : q[i].val # HEADER
      BY <1>1, <2>3, <2>6
    <3> QED
      BY <2>q, <2>l, <2>4, <3>1 DEF Proper, Leads
  <2>7. CASE k >= 6
    <3>1. \A i \in 1..14 : q[i].val = HEADER => i = 5
      BY <1>1, <2>3, <2>7
    <3>2. \A i \in 5..13 : q[i].packet = n + 1
      BY <1>1, <2>3, <2>7
    <3>3. q[14].packet = n + 1 \/ q[14].val = COLON
      BY <1>1, <2>3
    <3>4. 5 \in Nat /\ 5 + 8 = 13 /\ 5 + 9 = 14 /\ 5 + 9 <= Len(q)
      BY <2>3
    <3> QED
      BY <2>q, <2>l, <2>4, <3>1, <3>2, <3>3, <3>4, ProperAt
  <2> QED
    BY <2>5, <2>6, <2>7
<1> QED
  BY <1>2, <1>4, <1>5

LEMMA EmptyLength == ASSUME NEW s, s = <<>> PROVE Len(s) = 0
  OBVIOUS

LEMMA Taken ==
    ASSUME commands \in Seq(AnyCommand), commands # <<>>,
           commands' = Tail(commands)
    PROVE  /\ commands' \in Seq(AnyCommand)
           /\ Len(commands) \in Nat \ {0} /\ Len(commands') = Len(commands) - 1
           /\ \A i \in 1..Len(commands') : commands'[i] = commands[i + 1]
           /\ Head(commands) = commands[1] /\ Head(commands) \in AnyCommand
           /\ commands' # <<>> => Last(commands') = Last(commands)
           /\ commands' = <<>> => Len(commands) = 1
<1>1. Len(commands) \in Nat \ {0}
  BY EmptySeq
<1>2. /\ commands' \in Seq(AnyCommand) /\ Len(commands') = Len(commands) - 1
      /\ \A i \in 1..Len(commands') : commands'[i] = commands[i + 1]
      /\ Head(commands) \in AnyCommand
  BY HeadTailProperties
<1>3. ASSUME commands' = <<>> PROVE Len(commands) = 1
  <2>1. Len(commands') = 0
    BY <1>3, EmptyLength
  <2> QED
    BY <1>1, <1>2, <2>1
<1>4. ASSUME commands' # <<>> PROVE Last(commands') = Last(commands)
  <2>1. Len(commands') \in Nat \ {0}
    BY <1>2, <1>4, EmptySeq
  <2>2. commands'[Len(commands')] = commands[Len(commands') + 1]
    BY <1>2, <2>1
  <2>3. Len(commands') + 1 = Len(commands)
    BY <1>1, <1>2
  <2> QED
    BY <2>2, <2>3 DEF Last
<1>5. Head(commands) = commands[1]
  OBVIOUS
<1> QED
  BY <1>1, <1>2, <1>3, <1>4, <1>5

LEMMA Sent ==
    ASSUME commands \in Seq(AnyCommand), NEW c \in {"RM", "CR", "PM", "TC"},
           colour' \in Colours, calls' \in Nat, Send(c)
    PROVE  /\ commands' \in Seq(AnyCommand) /\ commands' # <<>>
           /\ Len(commands) \in Nat /\ Len(commands') = Len(commands) + 1
           /\ \A i \in 1..Len(commands) : commands'[i] = commands[i]
           /\ Last(commands') = commands'[Len(commands) + 1]
           /\ Last(commands').cmd = c
           /\ Last(commands').colour = colour' /\ Last(commands').call = calls'
<1> DEFINE sent == [cmd |-> c, colour |-> colour', call |-> calls']
<1>1. sent \in AnyCommand
  BY DEF AnyCommand
<1>2. commands' = Append(commands, sent)
  BY DEF Send
<1>3. sent.cmd = c /\ sent.colour = colour' /\ sent.call = calls'
  OBVIOUS
<1> HIDE DEF sent
<1>4. /\ commands' \in Seq(AnyCommand) /\ commands' # <<>>
      /\ Len(commands') = Len(commands) + 1
      /\ \A i \in 1..Len(commands) : commands'[i] = commands[i]
      /\ commands'[Len(commands) + 1] = sent
  BY <1>1, <1>2, AppendProperties
<1>5. Len(commands) \in Nat
  BY LenProperties
<1>6. Last(commands') = sent
  BY <1>4 DEF Last
<1> QED
  BY <1>3, <1>4, <1>5, <1>6

-----------------------------------------------------------------------------
\* Types.
LEMMA ByteTypes ==
    /\ \A b \in AnyByte : /\ b.val \in 0..255 /\ b.packet \in Nat
                          /\ b = [val |-> b.val, packet |-> b.packet]
    /\ \A b \in Bytes : b.packet \in 0..Len(packets)
    /\ \A b \in AnyByte : b.packet \in 0..Len(packets) => b \in Bytes
<1>1. \A b \in AnyByte : /\ b.val \in 0..255 /\ b.packet \in Nat
                         /\ b = [val |-> b.val, packet |-> b.packet]
  BY DEF AnyByte
<1>2. \A b \in Bytes : b.packet \in 0..Len(packets)
  BY DEF Bytes
<1>3. ASSUME NEW b \in AnyByte, b.packet \in 0..Len(packets)
      PROVE  b \in Bytes
  <2>1. b.val \in 0..255 /\ b = [val |-> b.val, packet |-> b.packet]
    BY <1>1
  <2> QED
    BY <1>3, <2>1 DEF Bytes
<1> QED
  BY <1>1, <1>2, <1>3

LEMMA DropsTyped ==
    ASSUME Typed, NEW k, Drops(k), UNCHANGED packets
    PROVE  /\ stream' \in Seq(AnyByte)
           /\ \A i \in DOMAIN stream' : stream'[i] \in Bytes'
<1>1. Len(stream) \in Nat /\ DOMAIN stream = 1..Len(stream)
      /\ stream' \in Seq(AnyByte)
  BY LenProperties DEF Typed, Drops
<1>2. DOMAIN stream' = 1..(Len(stream) - k) /\ k \in 0..Len(stream)
  BY <1>1, LenProperties DEF Drops
<1>3. \A i \in 1..(Len(stream) - k) : i + k \in 1..Len(stream)
  BY <1>1, <1>2
<1>4. Bytes' = Bytes
  BY DEF Bytes
<1>5. \A i \in 1..(Len(stream) - k) : stream'[i] = stream[i + k]
  BY DEF Drops
<1>6. \A i \in 1..Len(stream) : stream[i] \in Bytes
  BY <1>1 DEF Typed, TypeOK
<1> QED
  BY <1>1, <1>2, <1>3, <1>4, <1>5, <1>6

LEMMA ExtendsTyped ==
    ASSUME Typed, NEW r, Extends(r), packets' \in Seq(AnyPacket),
           Len(packets) <= Len(packets'),
           \A i \in 1..Len(r) : r[i].packet \in 0..Len(packets')
    PROVE  /\ stream' \in Seq(AnyByte)
           /\ \A i \in DOMAIN stream' : stream'[i] \in Bytes'
<1>1. /\ stream \in Seq(AnyByte) /\ r \in Seq(AnyByte)
      /\ stream' \in Seq(AnyByte) /\ packets \in Seq(AnyPacket)
  BY DEF Typed, Extends
<1>2. /\ Len(stream) \in Nat /\ Len(r) \in Nat /\ Len(packets) \in Nat
      /\ DOMAIN stream = 1..Len(stream) /\ Len(packets') \in Nat
      /\ DOMAIN stream' = 1..(Len(stream) + Len(r))
  <2>1. DOMAIN stream' = 1..Len(stream')
    BY <1>1, LenProperties
  <2>2. Len(stream') = Len(stream) + Len(r)
    BY DEF Extends
  <2> QED
    BY <1>1, <2>1, <2>2, LenProperties
<1>3. ASSUME NEW i \in 1..(Len(stream) + Len(r))
      PROVE  stream'[i] \in AnyByte /\ stream'[i].packet \in 0..Len(packets')
  <2>1. stream'[i] \in AnyByte
    BY <1>1, <1>2, <1>3, ElementOfSeq DEF Extends
  <2>2. CASE i <= Len(stream)
    <3>1. stream[i] \in Bytes /\ stream'[i] = stream[i]
      <4>1. \A j \in 1..Len(stream) : stream[j] \in Bytes
        BY <1>2 DEF Typed, TypeOK
      <4>2. i \in 1..Len(stream)
        BY <1>2, <2>2
      <4> QED
        BY <4>1, <4>2 DEF Extends
    <3>2. stream[i].packet \in 0..Len(packets)
      BY <3>1, ByteTypes
    <3> QED
      BY <1>2, <2>1, <3>1, <3>2
  <2>3. CASE ~(i <= Len(stream))
    <3>1. i - Len(stream) \in 1..Len(r)
          /\ Len(stream) + (i - Len(stream)) = i
      BY <1>2, <2>3
    <3>2. stream'[Len(stream) + (i - Len(stream))] = r[i - Len(stream)]
      BY <3>1 DEF Extends
    <3> QED
      BY <2>1, <3>1, <3>2
  <2> QED
    BY <2>2, <2>3
<1>4. \A b \in AnyByte : b.packet \in 0..Len(packets') => b \in Bytes'
  BY DEF AnyByte, Bytes
<1> QED
  BY <1>1, <1>2, <1>3, <1>4

LEMMA TypedInit == Init => Typed
<1> SUFFICES ASSUME Init PROVE Typed
  OBVIOUS
<1>1. /\ stream = <<>> /\ packets = <<>>
      /\ cmd = "RM" /\ sends = 1 /\ pc = "ack" /\ left = 0 /\ calls = 0
      /\ colour \in Colours /\ accidents = 0 /\ ended = "none"
      /\ commands = <<[cmd |-> "RM", colour |-> colour, call |-> 0]>>
  BY DEF Init
<1>2. /\ stream \in Seq(AnyByte) /\ packets \in Seq(AnyPacket)
      /\ Len(packets) = 0 /\ DOMAIN stream = 1..0
  BY <1>1, EmptySeq, LenProperties
<1>3. /\ commands \in Seq(AnyCommand) /\ Last(commands).cmd = "RM"
  BY <1>1 DEF AnyCommand, Last
<1>4. in_view \in [Colours -> BOOLEAN]
  BY DEF Init
<1>5. track_info \in [Colours -> [1..8 -> Bytes]]
  <2>1. [val |-> 0, packet |-> 0] \in Bytes
    BY <1>2 DEF Bytes
  <2>2. Plain([i \in 1..8 |-> 0]) = [i \in 1..8 |-> [val |-> 0, packet |-> 0]]
    BY DEF Plain
  <2>3. track_info = [c \in Colours |-> Plain([i \in 1..8 |-> 0])]
    BY DEF Init
  <2> QED
    BY <2>1, <2>2, <2>3
<1>6. MaxSends \in Nat \ {0} /\ MaxCalls \in Nat /\ MaxAccidents \in Nat
  BY CameraAssumption
<1>7. TypeOK
  BY <1>1, <1>2, <1>4, <1>5, <1>6 DEF TypeOK
<1> QED
  BY <1>1, <1>2, <1>3, <1>7 DEF Typed

LEMMA CameraSends ==
    ASSUME Typed, Answer \/ Refuse
    PROVE  /\ packets' \in Seq(AnyPacket)
           /\ Len(packets) \in Nat /\ Len(packets') \in Nat
           /\ Len(packets) <= Len(packets')
           /\ \A p \in 1..Len(packets) : packets'[p] = packets[p]
           /\ \E r : Extends(r) /\ Proper(r, Len(packets'))
<1>1. /\ packets \in Seq(AnyPacket) /\ commands \in Seq(AnyCommand)
      /\ commands # <<>> /\ commands' = Tail(commands)
  BY CameraStep DEF Typed
<1>2. Len(packets) \in Nat
  BY <1>1, LenProperties
<1>3. CASE Acknowledges
  <2>1. UNCHANGED packets /\ Arrives(Echo)
    BY <1>3 DEF Acknowledges
  <2> QED
    BY <1>1, <1>2, <2>1, ProperEcho DEF Arrives
<1>4. CASE Refuses
  BY <1>1, <1>2, <1>4, ProperEcho DEF Refuses
<1>5. ASSUME NEW data \in Measured, Tracks(data)
      PROVE  /\ packets' \in Seq(AnyPacket)
             /\ Len(packets') = Len(packets) + 1
             /\ \A p \in 1..Len(packets) : packets'[p] = packets[p]
             /\ \E r : Extends(r) /\ Proper(r, Len(packets'))
  <2>1. packets' = Append(packets, Asked(data)) /\ Arrives(Tracked(data))
    BY <1>5 DEF Tracks
  <2>2. Asked(data) \in AnyPacket
    <3>1. Head(commands) \in AnyCommand
      BY <1>1, Taken
    <3> QED
      BY <3>1 DEF Asked, AnyPacket, AnyCommand
  <2>3. /\ packets' \in Seq(AnyPacket) /\ Len(packets') = Len(packets) + 1
        /\ \A p \in 1..Len(packets) : packets'[p] = packets[p]
    BY <1>1, <2>1, <2>2, AppendProperties
  <2>4. PICK r : r = Tracked(data)
    OBVIOUS
  <2>5. TrackedBytes(r, Len(packets))
    BY <1>1, <2>4, TrackedFacts
  <2>6. /\ Proper(r, Len(packets) + 1)
        /\ \A k \in 1..Len(r) : Proper(RemoveAt(r, k), Len(packets) + 1)
    BY <1>2, <2>5, ProperTracked
  <2>7. \E q : Extends(q) /\ Proper(q, Len(packets) + 1)
    BY <2>1, <2>4, <2>5, <2>6 DEF Arrives
  <2> QED
    BY <2>3, <2>7
<1> QED
  BY <1>1, <1>2, <1>3, <1>4, <1>5, CameraStep

LEMMA CameraTyped ==
    ASSUME Typed, Answer \/ Refuse
    PROVE  Typed'
<1>1. /\ commands # <<>> /\ commands' = Tail(commands)
      /\ UNCHANGED client
      /\ \/ accidents' = accidents
         \/ accidents < MaxAccidents /\ accidents' = accidents + 1
  BY CameraStep
<1>2. commands \in Seq(AnyCommand)
  BY DEF Typed
<1>3. /\ packets' \in Seq(AnyPacket)
      /\ Len(packets) \in Nat /\ Len(packets') \in Nat
      /\ Len(packets) <= Len(packets')
  BY CameraSends
<1>4. /\ commands' \in Seq(AnyCommand)
      /\ commands' # <<>> => Last(commands') = Last(commands)
  BY <1>1, <1>2, Taken
<1>5. PICK r :
         Extends(r) /\ \A i \in 1..Len(r) : r[i].packet \in 0..Len(packets')
  BY CameraSends DEF Proper
<1>6. /\ stream' \in Seq(AnyByte)
      /\ \A i \in DOMAIN stream' : stream'[i] \in Bytes'
  BY <1>3, <1>5, ExtendsTyped
<1>7. Bytes \subseteq Bytes'
  BY <1>3 DEF Bytes
<1>8. track_info' \in [Colours -> [1..8 -> Bytes']]
  <2>1. track_info' = track_info /\ track_info \in [Colours -> [1..8 -> Bytes]]
    BY <1>1 DEF client, Typed, TypeOK
  <2> QED
    BY <1>7, <2>1
<1>9. accidents' \in 0..MaxAccidents
  BY <1>1, CameraAssumption DEF Typed, TypeOK
<1>10. TypeOK'
  BY <1>1, <1>6, <1>8, <1>9 DEF Typed, TypeOK, client
<1> QED
  BY <1>1, <1>3, <1>4, <1>6, <1>10 DEF Typed, client, bytes_in_ack

\* The client's own variables.
ClientTypes ==
    /\ pc \in {"idle", "ack", "rest", "hunt", "kind", "data"}
    /\ cmd \in {"RM", "CR", "PM", "TC"}
    /\ sends \in 1..MaxSends /\ left \in 0..8
    /\ pc \in {"rest", "data"} => left > 0
    /\ colour \in Colours /\ calls \in 0..MaxCalls
    /\ in_view \in [Colours -> BOOLEAN]
    /\ pc = "rest" => left <= bytes_in_ack
    /\ pc \in {"hunt", "kind", "data"} => cmd = "TC"
    /\ ended = "packet" => pc = "idle"

QueueTypes ==
    /\ commands \in Seq(AnyCommand)
    /\ pc # "idle" /\ commands # <<>> => Last(commands).cmd = cmd

LEMMA Types ==
    ASSUME Typed
    PROVE  ClientTypes /\ QueueTypes
  BY DEF Typed, TypeOK, ClientTypes, QueueTypes

LEMMA StreamTypes ==
    ASSUME Typed
    PROVE  /\ stream \in Seq(AnyByte) /\ Len(stream) \in Nat
           /\ packets \in Seq(AnyPacket) /\ Len(packets) \in Nat
           /\ DOMAIN packets = 1..Len(packets)
           /\ \A i \in 1..Len(stream) : stream[i] \in Bytes
           /\ calls \in Nat /\ accidents \in Nat
<1>1. stream \in Seq(AnyByte) /\ packets \in Seq(AnyPacket)
  BY DEF Typed
<1>2. /\ Len(stream) \in Nat /\ Len(packets) \in Nat
      /\ DOMAIN packets = 1..Len(packets) /\ DOMAIN stream = 1..Len(stream)
  BY <1>1, LenProperties
<1>3. /\ calls \in 0..MaxCalls /\ accidents \in 0..MaxAccidents
      /\ \A i \in DOMAIN stream : stream[i] \in Bytes
  BY DEF Typed, TypeOK
<1>4. calls \in Nat /\ accidents \in Nat
  BY <1>3, CameraAssumption
<1> QED
  BY <1>1, <1>2, <1>3, <1>4

\* A step of the client that reads, flushes or only sends.
LEMMA ClientTyped ==
    ASSUME Typed, NEW k, Drops(k), UNCHANGED <<packets, accidents>>,
           ClientTypes', QueueTypes',
           track_info' \in [Colours -> [1..8 -> Bytes]]
    PROVE  Typed'
<1>1. /\ stream' \in Seq(AnyByte)
      /\ \A i \in DOMAIN stream' : stream'[i] \in Bytes'
  BY DropsTyped
<1>2. Bytes' = Bytes
  BY DEF Bytes
<1>3. accidents' \in 0..MaxAccidents /\ packets' \in Seq(AnyPacket)
  BY DEF Typed, TypeOK
<1>4. TypeOK'
  BY <1>1, <1>2, <1>3 DEF TypeOK, ClientTypes
<1> QED
  BY <1>1, <1>3, <1>4 DEF Typed, ClientTypes, QueueTypes

LEMMA InfoTyped == Typed => track_info \in [Colours -> [1..8 -> Bytes]]
  BY DEF Typed, TypeOK

LEMMA OnceSent == 1 \in 1..MaxSends
  BY CameraAssumption

LEMMA SendTyped ==
    ASSUME Typed, NEW c \in {"RM", "CR", "PM", "TC"}, Send(c), cmd' = c,
           colour' \in Colours, calls' \in Nat
    PROVE  QueueTypes'
<1>1. commands \in Seq(AnyCommand)
  BY DEF Typed
<1>2. commands' \in Seq(AnyCommand) /\ Last(commands').cmd = c
  BY <1>1, Sent
<1> QED
  BY <1>2 DEF QueueTypes

LEMMA TrackTyped ==
    ASSUME Typed, NEW c \in Colours, Track(c)
    PROVE  Typed'
<1>1. /\ pc = "idle" /\ calls < MaxCalls /\ calls' = calls + 1 /\ colour' = c
      /\ cmd' = "PM" /\ sends' = 1 /\ pc' = "ack" /\ Send("PM")
      /\ ended' = "none"
      /\ UNCHANGED <<packets, accidents, stream, left, in_view, track_info>>
  BY DEF Track, Want, results
<1>2. calls' \in 0..MaxCalls /\ calls' \in Nat
  <2>1. calls \in 0..MaxCalls
    BY DEF Typed, TypeOK
  <2> QED
    BY <1>1, <2>1, CameraAssumption
<1>3. ClientTypes'
  BY <1>1, <1>2, Types, OnceSent DEF ClientTypes
<1>4. QueueTypes'
  BY <1>1, <1>2, SendTyped
<1>5. Drops(0)
  BY <1>1, StreamTypes DEF Drops
<1> QED
  BY <1>1, <1>3, <1>4, <1>5, InfoTyped, ClientTyped

LEMMA FlushTyped ==
    ASSUME Typed, FlushCam
    PROVE  Typed'
<1>1. /\ stream' \in Flushed(stream)
      /\ UNCHANGED <<commands, packets, accidents, pc, cmd, sends, left, colour,
                     in_view, track_info, ended, calls>>
  BY DEF FlushCam, device, results
<1>2. PICK k \in 0..Len(stream) : Drops(k)
  BY <1>1, StreamTypes, FlushDrops
<1>3. ClientTypes' /\ QueueTypes'
  BY <1>1, Types DEF ClientTypes, QueueTypes, bytes_in_ack
<1> QED
  BY <1>1, <1>2, <1>3, InfoTyped, ClientTyped

LEMMA RetryTyped ==
    ASSUME Typed, Retry
    PROVE  Typed'
<1>1. /\ stream # <<>> /\ sends < MaxSends /\ sends' = sends + 1
      /\ stream' \in Flushed(Tail(stream)) /\ Send(cmd)
      /\ UNCHANGED <<packets, accidents, pc, cmd, left, colour, in_view,
                     track_info, ended, calls>>
  BY DEF Retry, results
<1>2. PICK k \in 0..Len(stream) : Drops(k)
  BY <1>1, StreamTypes, RetryDrops
<1>3. sends' \in 1..MaxSends
  <2>1. sends \in 1..MaxSends
    BY DEF Typed, TypeOK
  <2> QED
    BY <1>1, <2>1, CameraAssumption
<1>4. ClientTypes'
  BY <1>1, <1>3, Types DEF ClientTypes, bytes_in_ack
<1>5. QueueTypes'
  <2>1. /\ cmd \in {"RM", "CR", "PM", "TC"}
        /\ colour' \in Colours /\ calls' \in Nat
    BY <1>1, Types, StreamTypes DEF ClientTypes
  <2> QED
    BY <1>1, <2>1, SendTyped
<1> QED
  BY <1>1, <1>2, <1>4, <1>5, InfoTyped, ClientTyped

LEMMA AckTyped ==
    ASSUME Typed, AckBegins \/ AckRest
    PROVE  Typed'
<1>1. Drops(1)
  BY StreamTypes, ReadDrops DEF AckBegins, AckRest
<1>t. UNCHANGED <<packets, accidents, colour, in_view, track_info, ended,
                  calls>>
  BY DEF AckBegins, AckRest, device, results
<1>2. CASE AckBegins
  <2>1. /\ pc' = "rest" /\ left' = bytes_in_ack /\ pc = "ack"
        /\ UNCHANGED <<commands, cmd, sends>>
    BY <1>2 DEF AckBegins, Begin, device
  <2>2. bytes_in_ack \in 3..4 /\ bytes_in_ack' = bytes_in_ack
    BY <2>1 DEF bytes_in_ack
  <2>3. ClientTypes' /\ QueueTypes'
    BY <1>t, <2>1, <2>2, Types DEF ClientTypes, QueueTypes
  <2> QED
    BY <1>1, <1>t, <2>3, InfoTyped, ClientTyped
<1>3. CASE AckRest /\ left # 1
  <2>1. /\ pc = "rest" /\ left' = left - 1
        /\ UNCHANGED <<commands, pc, cmd, sends>>
    BY <1>3 DEF AckRest
  <2>2. left \in 2..8 /\ bytes_in_ack' = bytes_in_ack /\ bytes_in_ack \in Nat
    BY <1>3, <2>1, Types DEF ClientTypes, bytes_in_ack
  <2>3. ClientTypes' /\ QueueTypes'
    BY <1>t, <2>1, <2>2, Types DEF ClientTypes, QueueTypes
  <2> QED
    BY <1>1, <1>t, <2>3, InfoTyped, ClientTyped
<1>4. CASE AckRest /\ left = 1
  <2>1. /\ pc = "rest" /\ left' = 0 /\ Acknowledged
    BY <1>4 DEF AckRest
  <2>2. ASSUME NEW c \in {"CR", "TC"}, Want(c) PROVE Typed'
    <3>1. cmd' = c /\ sends' = 1 /\ pc' = "ack" /\ Send(c)
      BY <2>2 DEF Want
    <3>2. ClientTypes'
      BY <1>t, <2>1, <3>1, Types, OnceSent DEF ClientTypes
    <3>3. colour' \in Colours /\ calls' \in Nat
      BY <1>t, Types, StreamTypes DEF ClientTypes
    <3>4. QueueTypes'
      BY <3>1, <3>3, SendTyped
    <3> QED
      BY <1>1, <1>t, <3>2, <3>4, InfoTyped, ClientTyped
  <2>3. ASSUME pc' \in {"idle", "hunt"}, UNCHANGED <<commands, cmd, sends>>,
               pc' = "hunt" => cmd = "TC"
        PROVE  Typed'
    <3>1. ClientTypes' /\ QueueTypes'
      BY <1>t, <2>1, <2>3, Types DEF ClientTypes, QueueTypes
    <3> QED
      BY <1>1, <1>t, <3>1, InfoTyped, ClientTyped
  <2>4. cmd \in {"RM", "CR", "PM", "TC"}
    BY Types DEF ClientTypes
  <2> QED
    BY <2>1, <2>2, <2>3, <2>4 DEF Acknowledged
<1> QED
  BY <1>2, <1>3, <1>4

LEMMA HuntTyped ==
    ASSUME Typed, Hunt \/ Kind
    PROVE  Typed'
<1>1. Drops(1)
  BY StreamTypes, ReadDrops DEF Hunt, Kind
<1>2. /\ UNCHANGED <<packets, accidents, colour, in_view, track_info, calls,
                     commands, cmd, sends>>
  BY DEF Hunt, Kind, device, results
<1>3. CASE Hunt
  <2>1. /\ pc = "hunt" /\ pc' \in {"hunt", "kind"}
        /\ UNCHANGED <<left, ended>>
    BY <1>3 DEF Hunt
  <2> QED
    BY <1>2, <2>1, <1>1, InfoTyped, ClientTyped, Types
    DEF ClientTypes, QueueTypes
<1>4. CASE Kind
  <2>1. /\ pc = "kind"
        /\ \/ pc' = "data" /\ left' = 8 /\ UNCHANGED ended
           \/ pc' = "idle" /\ ended' = "not T" /\ UNCHANGED left
    BY <1>4 DEF Kind, Begin
  <2>2. CASE pc' = "data" /\ left' = 8 /\ UNCHANGED ended
    BY <1>1, <1>2, <2>1, <2>2, InfoTyped, ClientTyped, Types
    DEF ClientTypes, QueueTypes
  <2>3. CASE pc' = "idle" /\ ended' = "not T" /\ UNCHANGED left
    BY <1>1, <1>2, <2>1, <2>3, InfoTyped, ClientTyped, Types
    DEF ClientTypes, QueueTypes
  <2> QED
    BY <2>1, <2>2, <2>3
<1> QED
  BY <1>3, <1>4

LEMMA DataFacts ==
    ASSUME Typed, Data
    PROVE  /\ pc = "data" /\ cmd = "TC" /\ left \in 1..8 /\ Drops(1)
           /\ stream[1] \in Bytes /\ stream[1] \in AnyByte
           /\ Head(stream) = stream[1] /\ Len(stream) \in Nat \ {0}
           /\ track_info' = [track_info EXCEPT ![colour][9 - left] = stream[1]]
           /\ \/ /\ Breaks(stream[1].val) /\ pc' = "idle" /\ ended' = "broken"
                 /\ in_view' = [in_view EXCEPT !["stop_sign"] =
                                   @ /\ colour # "stop_sign"]
                 /\ left' = left
              \/ /\ ~Breaks(stream[1].val) /\ left' = left - 1 /\ left # 1
                 /\ UNCHANGED <<pc, ended, in_view>>
              \/ /\ ~Breaks(stream[1].val) /\ left' = left - 1 /\ left = 1
                 /\ pc' = "idle" /\ ended' = "packet"
                 /\ in_view' = [in_view EXCEPT
                                   ![colour] = InView(track_info'[colour])]
           /\ UNCHANGED <<commands, packets, accidents, cmd, sends, colour,
                          calls>>
<1>1. pc = "data" /\ read_cmu_byte
  BY DEF Data
<1>2. /\ Drops(1) /\ Len(stream) \in Nat \ {0}
      /\ Head(stream) = stream[1] /\ stream[1] \in AnyByte
  BY <1>1, StreamTypes, ReadDrops
<1>3. cmd = "TC" /\ left \in 1..8
  <2>1. ClientTypes
    BY Types
  <2> QED
    BY <1>1, <2>1 DEF ClientTypes
<1>4. stream[1] \in Bytes
  BY <1>2, StreamTypes
<1>5. Byte = stream[1].val
  BY <1>2 DEF Byte
<1>6. /\ track_info' = [track_info EXCEPT ![colour][9 - left] = stream[1]]
      /\ UNCHANGED <<commands, packets, accidents, cmd, sends, colour, calls>>
  BY <1>2 DEF Data, device
<1>7. \/ /\ Breaks(Byte) /\ pc' = "idle" /\ ended' = "broken"
         /\ in_view' = [in_view EXCEPT !["stop_sign"] =
                           @ /\ colour # "stop_sign"]
         /\ left' = left
      \/ /\ ~Breaks(Byte) /\ left' = left - 1 /\ left # 1
         /\ UNCHANGED <<pc, ended, in_view>>
      \/ /\ ~Breaks(Byte) /\ left' = left - 1 /\ left = 1
         /\ pc' = "idle" /\ ended' = "packet"
         /\ in_view' = [in_view EXCEPT
                           ![colour] = InView(track_info'[colour])]
  BY DEF Data, Broken, Whole, ByteOfPacket
<1> QED
  BY <1>1, <1>2, <1>3, <1>4, <1>5, <1>6, <1>7

LEMMA DataTyped ==
    ASSUME Typed, Data
    PROVE  Typed'
<1>1. track_info' \in [Colours -> [1..8 -> Bytes]]
  <2>1. /\ track_info \in [Colours -> [1..8 -> Bytes]] /\ stream[1] \in Bytes
        /\ track_info' = [track_info EXCEPT ![colour][9 - left] = stream[1]]
    BY InfoTyped, DataFacts
  <2> QED
    BY <2>1
<1>2. InView(track_info'[colour]) \in BOOLEAN
  BY DEF InView
<1>3. in_view' \in [Colours -> BOOLEAN]
  <2>1. in_view \in [Colours -> BOOLEAN]
    BY Types DEF ClientTypes
  <2>2. \/ in_view' = [in_view EXCEPT !["stop_sign"] =
                          @ /\ colour # "stop_sign"]
        \/ in_view' = in_view
        \/ in_view' = [in_view EXCEPT ![colour] = InView(track_info'[colour])]
    BY DataFacts
  <2> QED
    BY <1>2, <2>1, <2>2
<1>4. ClientTypes'
  BY <1>3, Types, DataFacts DEF ClientTypes
<1>5. QueueTypes'
  BY Types, DataFacts DEF QueueTypes
<1>6. Drops(1) /\ UNCHANGED <<packets, accidents>>
  BY DataFacts
<1> QED
  BY <1>1, <1>4, <1>5, <1>6, ClientTyped

LEMMA TypedNext == Typed /\ [Next]_vars => Typed'
<1> SUFFICES ASSUME Typed, [Next]_vars PROVE Typed'
  OBVIOUS
<1>1. CASE UNCHANGED vars
  <2>1. ClientTypes' /\ QueueTypes'
    BY <1>1, Types
    DEF vars, device, results, ClientTypes, QueueTypes, bytes_in_ack
  <2>2. Drops(0) /\ UNCHANGED <<packets, accidents, track_info>>
    BY <1>1, StreamTypes DEF vars, device, results, Drops
  <2> QED
    BY <2>1, <2>2, InfoTyped, ClientTyped
<1> QED
  BY <1>1, CameraTyped, TrackTyped, FlushTyped, RetryTyped, AckTyped, HuntTyped,
     DataTyped
  DEF Next, Client

-----------------------------------------------------------------------------
\* No wait is in vain.
LEMMA EnoughGrows ==
    ASSUME Typed, Len(commands) = 1, Last(commands).cmd = cmd \/ pc = "idle",
           UNCHANGED client, NEW r, Extends(r),
           IF cmd = "TC" THEN Len(r) = 15 /\ r[5].val = HEADER ELSE Len(r) = 5
    PROVE  Enough'
<1>1. /\ Len(stream) \in Nat
      /\ pc' = pc /\ cmd' = cmd /\ left' = left
      /\ pc \in {"rest", "data"} => left \in 1..8
      /\ pc = "rest" => left <= bytes_in_ack
      /\ pc \in {"hunt", "kind", "data"} => cmd = "TC"
  BY StreamTypes, Types DEF client, ClientTypes
<1>2. CASE cmd = "TC"
  <2>1. /\ Len(stream') = Len(stream) + 15
        /\ stream'[Len(stream) + 5].val = HEADER
    <3>1. Len(r) = 15 /\ r[5].val = HEADER
      BY <1>2
    <3>2. /\ Len(stream') = Len(stream) + Len(r)
          /\ \A i \in 1..Len(r) : stream'[Len(stream) + i] = r[i]
      BY DEF Extends
    <3>3. 5 \in 1..Len(r)
      BY <3>1
    <3>4. stream'[Len(stream) + 5] = r[5]
      BY <3>2, <3>3
    <3>5. Len(stream') = Len(stream) + 15
      BY <3>1, <3>2
    <3> QED
      BY <3>1, <3>4, <3>5
  <2>2. Len(stream') - 10 = Len(stream) + 5
    BY <1>1, <2>1
  <2>3. stream'[Len(stream') - 10].val = HEADER /\ Len(stream') >= 15
    BY <1>1, <2>1, <2>2
  <2>4. pc = "rest" => left <= 3
    BY <1>1, <1>2 DEF bytes_in_ack
  <2> QED
    BY <1>1, <1>2, <2>3, <2>4 DEF Enough
<1>3. CASE cmd # "TC"
  <2>1. Len(stream') >= 5 /\ Len(stream') \in Nat
    <3>1. Len(stream') = Len(stream) + Len(r) /\ Len(r) = 5
      BY <1>3 DEF Extends
    <3> QED
      BY <1>1, <3>1
  <2>2. pc = "rest" => left <= 4
    BY <1>1, <1>3 DEF bytes_in_ack
  <2> QED
    BY <1>1, <1>3, <2>1, <2>2 DEF Enough
<1> QED
  BY <1>2, <1>3

LEMMA WantedInit == Init => Wanted
<1> SUFFICES ASSUME Init PROVE commands # <<>>
  BY DEF Wanted
<1>1. commands = <<[cmd |-> "RM", colour |-> colour, call |-> 0]>>
  BY DEF Init
<1>2. Len(commands) = 1
  BY <1>1
<1> QED
  BY <1>2, EmptyLength

LEMMA CameraWanted ==
    ASSUME Typed, Answer \/ Refuse
    PROVE  Wanted'
<1> SUFFICES ASSUME accidents' = 0, commands' = <<>>, pc # "idle"
             PROVE  Enough'
  <2>1. pc' = pc
    BY CameraStep DEF client
  <2>2. pc' = "idle" => Enough'
    BY DEF Enough
  <2> QED
    BY <2>1, <2>2 DEF Wanted
<1>1. /\ commands # <<>> /\ commands' = Tail(commands) /\ UNCHANGED client
      /\ Acknowledges \/ Refuses \/ \E data \in Measured : Tracks(data)
  BY CameraStep
<1>2. commands \in Seq(AnyCommand) /\ Last(commands).cmd = cmd
  BY <1>1 DEF Typed
<1>3. Len(commands) = 1 /\ Head(commands) = commands[1]
  BY <1>1, <1>2, Taken
<1>4. Head(commands).cmd = cmd
  BY <1>2, <1>3 DEF Last
<1>5. accidents' # accidents + 1
  BY StreamTypes
<1>6. CASE Acknowledges
  <2>1. Extends(Echo) /\ cmd # "TC"
    BY <1>4, <1>5, <1>6 DEF Acknowledges, Arrives
  <2>2. Len(Echo) = 5
    BY EchoFacts
  <2> QED
    BY <1>1, <1>2, <1>3, <2>1, <2>2, EnoughGrows
<1>7. ASSUME NEW data \in Measured, Tracks(data) PROVE Enough'
  <2>1. PICK r : r = Tracked(data)
    OBVIOUS
  <2>2. Extends(r) /\ cmd = "TC"
    BY <1>4, <1>5, <1>7, <2>1 DEF Tracks, Arrives
  <2>3. TrackedBytes(r, Len(packets)) /\ TrackedValues(r, data)
    BY <2>1, StreamTypes, TrackedFacts
  <2>4. Len(r) = 15 /\ r[5].val = HEADER
    BY <2>3 DEF TrackedBytes, TrackedValues
  <2> QED
    BY <1>1, <1>2, <1>3, <2>2, <2>4, EnoughGrows
<1> QED
  BY <1>1, <1>5, <1>6, <1>7 DEF Refuses

\* A byte read from the front leaves the last ones where they are.
LEMMA OneRead ==
    ASSUME Typed, Drops(1)
    PROVE  /\ Len(stream) \in Nat \ {0} /\ Len(stream') = Len(stream) - 1
           /\ Len(stream) >= 12 =>
                 stream'[Len(stream') - 10] = stream[Len(stream) - 10]
<1>1. /\ Len(stream) \in Nat \ {0} /\ Len(stream') = Len(stream) - 1
      /\ \A i \in 1..(Len(stream) - 1) : stream'[i] = stream[i + 1]
  BY StreamTypes DEF Drops
<1>2. ASSUME Len(stream) >= 12
      PROVE  stream'[Len(stream') - 10] = stream[Len(stream) - 10]
  <2>1. /\ Len(stream') - 10 \in 1..(Len(stream) - 1)
        /\ (Len(stream') - 10) + 1 = Len(stream) - 10
    BY <1>1, <1>2
  <2>2. stream'[Len(stream') - 10] = stream[(Len(stream') - 10) + 1]
    BY <1>1, <2>1
  <2> QED
    BY <2>1, <2>2
<1> QED
  BY <1>1, <1>2

LEMMA NeverEmpty ==
    ASSUME Typed, NEW c \in {"RM", "CR", "PM", "TC"}, Send(c),
           colour' \in Colours, calls' \in Nat
    PROVE  Wanted'
<1>1. commands \in Seq(AnyCommand)
  BY DEF Typed
<1>2. commands' # <<>>
  BY <1>1, Sent
<1> QED
  BY <1>2 DEF Wanted

\* What AckRest does with the last byte of an acknowledgement.
LEMMA RestFacts ==
    ASSUME Typed, AckRest
    PROVE  /\ pc = "rest" /\ Drops(1) /\ left \in 1..8 /\ left' = left - 1
           /\ UNCHANGED <<packets, accidents, colour, in_view, track_info,
                          ended, calls>>
           /\ \/ left # 1 /\ UNCHANGED <<commands, pc, cmd, sends>>
              \/ /\ left = 1 /\ cmd \in {"RM", "PM"}
                 /\ pc' = "ack" /\ sends' = 1
                 /\ cmd' = (IF cmd = "RM" THEN "CR" ELSE "TC") /\ Send(cmd')
              \/ /\ left = 1 /\ cmd = "CR" /\ pc' = "idle"
                 /\ UNCHANGED <<commands, cmd, sends>>
              \/ /\ left = 1 /\ cmd = "TC" /\ pc' = "hunt"
                 /\ UNCHANGED <<commands, cmd, sends>>
<1>1. /\ pc = "rest" /\ Drops(1) /\ left' = left - 1
      /\ UNCHANGED <<packets, accidents, colour, in_view, track_info, ended,
                     calls>>
  BY StreamTypes, ReadDrops DEF AckRest, results
<1>2. left \in 1..8 /\ cmd \in {"RM", "CR", "PM", "TC"}
  BY <1>1, Types DEF ClientTypes
<1>3. CASE left = 1
  <2>1. Acknowledged
    BY <1>3 DEF AckRest
  <2> QED
    BY <1>1, <1>2, <1>3, <2>1 DEF Acknowledged, Want
<1>4. CASE left # 1
  BY <1>1, <1>2, <1>4 DEF AckRest
<1> QED
  BY <1>3, <1>4

LEMMA ReadWanted ==
    ASSUME Typed, Wanted, AckBegins \/ AckRest \/ Hunt \/ Kind \/ Data
    PROVE  Wanted'
<1> DEFINE n == Len(stream)
<1>d. read_cmu_byte
  BY DEF AckBegins, AckRest, Hunt, Kind, Data
<1>1. Drops(1) /\ Byte = stream[1].val
  BY <1>d, StreamTypes, ReadDrops DEF Byte
<1>2. /\ n \in Nat \ {0} /\ Len(stream') = n - 1
      /\ n >= 12 => stream'[Len(stream') - 10] = stream[n - 10]
  BY <1>1, OneRead
<1>3. UNCHANGED <<accidents, colour, calls>>
  BY DEF AckBegins, AckRest, Hunt, Kind, Data, device
<1>4. colour' \in Colours /\ calls' \in Nat
  BY <1>3, Types, StreamTypes DEF ClientTypes
<1> SUFFICES ASSUME accidents = 0, commands = <<>>, commands' = commands
             PROVE  Enough'
  <2>1. commands' = commands \/ \E c \in {"RM", "CR", "PM", "TC"} : Send(c)
    <3>1. CASE AckRest
      BY <3>1, RestFacts
    <3>2. CASE ~AckRest
      BY <3>2 DEF AckBegins, Hunt, Kind, Data, device
    <3> QED
      BY <3>1, <3>2
  <2> QED
    BY <1>3, <1>4, <2>1, NeverEmpty DEF Wanted
<1>5. Enough
  BY DEF Wanted
<1> HIDE DEF n
<1>6. CASE AckBegins
  <2>1. /\ pc = "ack" /\ pc' = "rest" /\ cmd' = cmd
        /\ left' = IF cmd = "TC" THEN 3 ELSE 4
    BY <1>6 DEF AckBegins, Begin, bytes_in_ack
  <2> QED
    BY <1>2, <1>5, <2>1 DEF Enough, n
<1>7. CASE AckRest
  <2>1. /\ pc = "rest" /\ left \in 1..8 /\ left' = left - 1
        /\ \/ left # 1 /\ pc' = pc /\ cmd' = cmd
           \/ pc' = "idle"
           \/ left = 1 /\ cmd = "TC" /\ pc' = "hunt"
    <3>1. \A c : ~Send(c)
      BY DEF Send
    <3> QED
      BY <1>7, <3>1, RestFacts
  <2> QED
    BY <1>2, <1>5, <2>1 DEF Enough, n
<1>8. CASE Hunt
  <2>1. pc = "hunt" /\ pc' = IF stream[1].val = HEADER THEN "kind" ELSE pc
    BY <1>1, <1>8 DEF Hunt
  <2>2. n >= 11 /\ stream[n - 10].val = HEADER
    BY <1>5, <2>1 DEF Enough, n
  <2>3. CASE n = 11
    <3>1. n - 10 = 1
      BY <2>3
    <3> QED
      BY <1>2, <2>1, <2>2, <2>3, <3>1 DEF Enough
  <2>4. CASE n # 11
    BY <1>2, <2>1, <2>2, <2>4 DEF Enough
  <2> QED
    BY <2>3, <2>4
<1>9. CASE Kind
  <2>1. pc = "kind" /\ (pc' = "idle" \/ (pc' = "data" /\ left' = 8))
    BY <1>9 DEF Kind, Begin
  <2> QED
    BY <1>2, <1>5, <2>1 DEF Enough, n
<1>10. CASE Data
  <2>1. /\ pc = "data" /\ left \in 1..8
        /\ pc' = "idle" \/ (pc' = "data" /\ left' = left - 1)
    BY <1>10, DataFacts
  <2> QED
    BY <1>2, <1>5, <2>1 DEF Enough, n
<1> QED
  BY <1>6, <1>7, <1>8, <1>9, <1>10

LEMMA WantedNext == Typed /\ Wanted /\ [Next]_vars => Wanted'
<1> SUFFICES ASSUME Typed, Wanted, [Next]_vars PROVE Wanted'
  OBVIOUS
<1>1. CASE UNCHANGED vars
  BY <1>1 DEF vars, device, results, Wanted, Enough
<1>2. ASSUME NEW c \in Colours, Track(c) PROVE Wanted'
  <2>1. Send("PM") /\ colour' \in Colours
    BY <1>2 DEF Track, Want
  <2>2. calls' \in Nat
    BY <1>2, StreamTypes DEF Track
  <2> QED
    BY <2>1, <2>2, NeverEmpty
<1>3. CASE FlushCam
  BY <1>3 DEF FlushCam, Wanted, Enough
<1>4. CASE Retry
  <2>1. Send(cmd) /\ UNCHANGED <<colour, calls>>
    BY <1>4 DEF Retry
  <2>2. /\ cmd \in {"RM", "CR", "PM", "TC"}
        /\ colour' \in Colours /\ calls' \in Nat
    BY <2>1, Types, StreamTypes DEF ClientTypes
  <2> QED
    BY <2>1, <2>2, NeverEmpty
<1> QED
  BY <1>1, <1>2, <1>3, <1>4, CameraWanted, ReadWanted DEF Next, Client

LEMMA WantedEnds == Typed /\ Wanted => NoVainWait
<1> SUFFICES ASSUME Typed, Wanted, pc # "idle", accidents = 0,
                    commands = <<>>, stream = <<>>
             PROVE  FALSE
  BY DEF NoVainWait
<1>1. Len(stream) = 0 /\ Enough
  BY EmptyLength DEF Wanted
<1>2. /\ pc \in {"ack", "rest", "hunt", "kind", "data"}
      /\ left \in 0..8 /\ (pc \in {"rest", "data"} => left > 0)
  BY Types DEF ClientTypes
<1> QED
  BY <1>1, <1>2 DEF Enough

-----------------------------------------------------------------------------
\* What is taken for a stop sign in view is one packet.
LEMMA LeadsCopied ==
    ASSUME NEW s, NEW t, NEW i \in Nat, NEW k \in Nat,
           Leads(s, i), s[i].val = HEADER, k + 9 <= Len(t),
           \A j \in 0..9 : t[k + j] = s[i + j]
    PROVE  Leads(t, k)
<1>1. /\ \A j \in 1..8 : s[i + j].packet = s[i].packet
      /\ s[i + 9].packet = s[i].packet \/ s[i + 9].val = COLON
  BY DEF Leads
<1>2. t[k + 0] = s[i + 0] /\ t[k + 9] = s[i + 9]
  <2>1. 0 \in 0..9 /\ 9 \in 0..9
    OBVIOUS
  <2> QED
    BY <2>1
<1>3. k + 0 = k /\ i + 0 = i
  OBVIOUS
<1>4. t[k] = s[i]
  BY <1>2, <1>3
<1>5. ASSUME NEW j \in 1..8 PROVE t[k + j].packet = t[k].packet
  <2>1. j \in 0..9
    OBVIOUS
  <2>2. t[k + j] = s[i + j]
    BY <2>1
  <2> QED
    BY <1>1, <1>4, <2>2
<1>6. t[k + 9].packet = t[k].packet \/ t[k + 9].val = COLON
  BY <1>1, <1>2, <1>4
<1> QED
  BY <1>5, <1>6 DEF Leads

LEMMA LeadsEnd ==
    ASSUME NEW s, NEW i, Leads(s, i), s[i].val = HEADER
    PROVE  i + 9 <= Len(s)
  BY DEF Leads

LEMMA HeadersDrop ==
    ASSUME Typed, HeadersLead, NEW k, Drops(k), UNCHANGED packets
    PROVE  HeadersLead'
<1>1. /\ Len(stream) \in Nat /\ k \in 0..Len(stream)
      /\ Len(stream') = Len(stream) - k
  BY StreamTypes DEF Drops
<1>2. \A i \in 1..(Len(stream) - k) : stream'[i] = stream[i + k]
  BY DEF Drops
<1>3. ASSUME NEW i \in 1..Len(stream'), stream'[i].val = HEADER
      PROVE  Leads(stream', i) /\ stream'[i].packet \in DOMAIN packets
  <2>1. /\ i + k \in 1..Len(stream) /\ i \in 1..(Len(stream) - k)
        /\ i \in Nat /\ i + k \in Nat
    BY <1>1
  <2>2. stream'[i] = stream[i + k]
    BY <1>2, <2>1
  <2>3. /\ Leads(stream, i + k) /\ stream[i + k].val = HEADER
        /\ stream[i + k].packet \in DOMAIN packets
    BY <1>3, <2>1, <2>2 DEF HeadersLead
  <2>4. i + k + 9 <= Len(stream)
    BY <2>3, LeadsEnd
  <2>5. ASSUME NEW j \in 0..9 PROVE stream'[i + j] = stream[(i + k) + j]
    <3>1. i + j \in 1..(Len(stream) - k) /\ (i + j) + k = (i + k) + j
      BY <1>1, <2>1, <2>4
    <3> QED
      BY <1>2, <3>1
  <2>6. i + 9 <= Len(stream')
    BY <1>1, <2>1, <2>4
  <2>7. Leads(stream', i)
    BY <2>1, <2>3, <2>5, <2>6, LeadsCopied
  <2> QED
    BY <2>2, <2>3, <2>7
<1>4. ASSUME NEW i \in 1..Len(stream'), stream'[i].val # HEADER
      PROVE  Leads(stream', i)
  BY <1>4 DEF Leads
<1> QED
  BY <1>3, <1>4 DEF HeadersLead

LEMMA HeadersExtend ==
    ASSUME Typed, HeadersLead, NEW r, Extends(r), Proper(r, Len(packets')),
           packets' \in Seq(AnyPacket), Len(packets) <= Len(packets')
    PROVE  HeadersLead'
<1>1. /\ Len(stream) \in Nat /\ Len(r) \in Nat
      /\ Len(stream') = Len(stream) + Len(r)
  BY StreamTypes, LenProperties DEF Extends
<1>2. /\ \A i \in 1..Len(stream) : stream'[i] = stream[i]
      /\ \A i \in 1..Len(r) : stream'[Len(stream) + i] = r[i]
  BY DEF Extends
<1>3. /\ Len(packets) \in Nat /\ Len(packets') \in Nat
      /\ DOMAIN packets = 1..Len(packets) /\ DOMAIN packets' = 1..Len(packets')
  BY StreamTypes, LenProperties
<1>4. ASSUME NEW i \in 1..Len(stream), stream'[i].val = HEADER
      PROVE  Leads(stream', i) /\ stream'[i].packet \in DOMAIN packets'
  <2>1. stream'[i] = stream[i] /\ i \in Nat
    BY <1>1, <1>2
  <2>2. Leads(stream, i) /\ stream[i].packet \in DOMAIN packets
    BY <1>4, <2>1 DEF HeadersLead
  <2>3. i + 9 <= Len(stream)
    BY <1>4, <2>1, <2>2, LeadsEnd
  <2>4. ASSUME NEW j \in 0..9 PROVE stream'[i + j] = stream[i + j]
    <3>1. i + j \in 1..Len(stream)
      BY <1>1, <2>1, <2>3
    <3> QED
      BY <1>2, <3>1
  <2>5. i + 9 <= Len(stream')
    BY <1>1, <2>1, <2>3
  <2>6. Leads(stream', i)
    BY <1>4, <2>1, <2>2, <2>4, <2>5, LeadsCopied
  <2> QED
    BY <1>3, <2>1, <2>2, <2>6
<1>5. ASSUME NEW i \in 1..Len(r), stream'[Len(stream) + i].val = HEADER
      PROVE  /\ Leads(stream', Len(stream) + i)
             /\ stream'[Len(stream) + i].packet \in DOMAIN packets'
  <2>1. /\ stream'[Len(stream) + i] = r[i] /\ i \in Nat
        /\ Len(stream) + i \in Nat
    BY <1>1, <1>2
  <2>2. Leads(r, i) /\ r[i].packet \in 1..Len(packets')
    BY <1>5, <2>1 DEF Proper
  <2>3. i + 9 <= Len(r)
    BY <1>5, <2>1, <2>2, LeadsEnd
  <2>4. ASSUME NEW j \in 0..9
        PROVE  stream'[(Len(stream) + i) + j] = r[i + j]
    <3>1. i + j \in 1..Len(r) /\ Len(stream) + (i + j) = (Len(stream) + i) + j
      BY <1>1, <2>1, <2>3
    <3>2. stream'[Len(stream) + (i + j)] = r[i + j]
      BY <1>2, <3>1
    <3> QED
      BY <3>1, <3>2
  <2>5. Len(stream) + i + 9 <= Len(stream')
    BY <1>1, <2>1, <2>3
  <2>6. Leads(stream', Len(stream) + i)
    BY <1>5, <2>1, <2>2, <2>4, <2>5, LeadsCopied
  <2> QED
    BY <1>3, <2>1, <2>2, <2>6
<1>6. ASSUME NEW i \in 1..Len(stream')
      PROVE  /\ Leads(stream', i)
             /\ stream'[i].val = HEADER => stream'[i].packet \in DOMAIN packets'
  <2>1. CASE stream'[i].val # HEADER
    BY <2>1 DEF Leads
  <2>2. CASE stream'[i].val = HEADER /\ i <= Len(stream)
    BY <1>1, <1>4, <2>2
  <2>3. CASE stream'[i].val = HEADER /\ ~(i <= Len(stream))
    <3>1. i - Len(stream) \in 1..Len(r) /\ Len(stream) + (i - Len(stream)) = i
      BY <1>1, <2>3
    <3> QED
      BY <1>5, <2>3, <3>1
  <2> QED
    BY <2>1, <2>2, <2>3
<1> QED
  BY <1>6 DEF HeadersLead

LEMMA ThroughExtends ==
    ASSUME Typed, NEW p, NEW n \in Nat, Through(p, n), NEW r, Extends(r),
           packets' \in Seq(AnyPacket), Len(packets) <= Len(packets'), n > 0
    PROVE  Through(p, n)'
<1>1. /\ Len(stream) \in Nat /\ Len(r) \in Nat
      /\ Len(stream') = Len(stream) + Len(r)
      /\ \A i \in 1..Len(stream) : stream'[i] = stream[i]
  BY StreamTypes, LenProperties DEF Extends
<1>2. /\ Len(packets) \in Nat /\ Len(packets') \in Nat
      /\ DOMAIN packets = 1..Len(packets) /\ DOMAIN packets' = 1..Len(packets')
  BY StreamTypes, LenProperties
<1>3. /\ p \in 1..Len(packets) /\ Len(stream) >= n
      /\ \A i \in 1..(n - 1) : stream[i].packet = p
      /\ stream[n].packet = p \/ stream[n].val = COLON
  BY <1>2 DEF Through
<1>4. p \in DOMAIN packets' /\ Len(stream') >= n
  BY <1>1, <1>2, <1>3
<1>5. stream'[n] = stream[n] /\ \A i \in 1..(n - 1) : stream'[i] = stream[i]
  BY <1>1, <1>3
<1> QED
  BY <1>3, <1>4, <1>5 DEF Through

LEMMA ThroughRead ==
    ASSUME Typed, NEW p, NEW n \in Nat, n >= 2, Through(p, n), Drops(1),
           UNCHANGED packets
    PROVE  Through(p, n - 1)' /\ stream[1].packet = p
<1>1. /\ Len(stream) \in Nat /\ Len(stream') = Len(stream) - 1
      /\ \A i \in 1..(Len(stream) - 1) : stream'[i] = stream[i + 1]
  BY StreamTypes DEF Drops
<1>2. /\ p \in DOMAIN packets /\ Len(stream) >= n
      /\ \A i \in 1..(n - 1) : stream[i].packet = p
      /\ stream[n].packet = p \/ stream[n].val = COLON
  BY DEF Through
<1>3. /\ Len(stream') >= n - 1
      /\ stream'[n - 1] = stream[n]
  <2>1. n - 1 \in 1..(Len(stream) - 1) /\ (n - 1) + 1 = n
    BY <1>1, <1>2
  <2> QED
    BY <1>1, <1>2, <2>1
<1>4. ASSUME NEW i \in 1..((n - 1) - 1) PROVE stream'[i].packet = p
  <2>1. i \in 1..(Len(stream) - 1) /\ i + 1 \in 1..(n - 1)
    BY <1>1, <1>2
  <2> QED
    BY <1>1, <1>2, <2>1
<1>5. stream[1].packet = p
  BY <1>2
<1> QED
  BY <1>2, <1>3, <1>4, <1>5 DEF Through

\* The last conjunct of Intact, as a name.
SignSeen ==
    in_view["stop_sign"] /\ ~(pc = "data" /\ colour = "stop_sign") =>
        \E p \in DOMAIN packets : Of("stop_sign", p)

LEMMA SignStays ==
    ASSUME Typed, SignSeen, packets' \in Seq(AnyPacket),
           Len(packets) <= Len(packets'),
           in_view'["stop_sign"] => in_view["stop_sign"],
           track_info'["stop_sign"] = track_info["stop_sign"],
           pc = "data" => \/ pc' = "data" /\ colour' = colour
                          \/ colour # "stop_sign"
    PROVE  SignSeen'
<1>1. /\ Len(packets) \in Nat /\ Len(packets') \in Nat
      /\ DOMAIN packets = 1..Len(packets) /\ DOMAIN packets' = 1..Len(packets')
  BY StreamTypes, LenProperties
<1>2. ASSUME in_view'["stop_sign"], ~(pc' = "data" /\ colour' = "stop_sign")
      PROVE  \E p \in DOMAIN packets' : Of("stop_sign", p)'
  <2>1. in_view["stop_sign"] /\ ~(pc = "data" /\ colour = "stop_sign")
    BY <1>2
  <2>2. PICK p \in DOMAIN packets : Of("stop_sign", p)
    BY <2>1 DEF SignSeen
  <2>3. p \in DOMAIN packets' /\ Of("stop_sign", p)'
    BY <1>1, <2>2 DEF Of
  <2> QED
    BY <2>3
<1> QED
  BY <1>2 DEF SignSeen

LEMMA IntactInit == Init => Intact
<1> SUFFICES ASSUME Init PROVE Intact
  OBVIOUS
<1>1. Len(stream) = 0 /\ pc = "ack" /\ in_view["stop_sign"] = FALSE
  BY CameraAssumption DEF Init
<1> QED
  BY <1>1 DEF Intact, HeadersLead, PacketUnderWay

LEMMA CameraIntact ==
    ASSUME Typed, Intact, Answer \/ Refuse
    PROVE  Intact'
<1>1. packets' \in Seq(AnyPacket) /\ Len(packets) <= Len(packets')
  BY CameraSends
<1>2. PICK r : Extends(r) /\ Proper(r, Len(packets'))
  BY CameraSends
<1>3. UNCHANGED <<pc, left, colour, in_view, track_info>>
  BY CameraStep DEF client
<1>4. HeadersLead'
  BY <1>1, <1>2, HeadersExtend DEF Intact
<1>5. PacketUnderWay'
  <2>1. ASSUME pc = "kind"
        PROVE  \E p \in DOMAIN packets' : Through(p, 9)'
    <3>1. PICK p \in DOMAIN packets : Through(p, 9)
      BY <2>1 DEF Intact, PacketUnderWay
    <3>2. Through(p, 9)'
      BY <1>1, <1>2, <3>1, ThroughExtends
    <3> QED
      BY <3>2 DEF Through
  <2>2. ASSUME pc = "data"
        PROVE  \E p \in DOMAIN packets' :
                  /\ Through(p, left)'
                  /\ \A i \in 1..(8 - left') :
                        track_info'[colour'][i].packet = p
    <3>1. PICK p \in DOMAIN packets :
             /\ Through(p, left)
             /\ \A i \in 1..(8 - left) : track_info[colour][i].packet = p
      BY <2>2 DEF Intact, PacketUnderWay
    <3>2. left \in Nat /\ left > 0
      BY <2>2, Types DEF ClientTypes
    <3>3. PICK n \in Nat : n = left /\ n > 0
      BY <3>2
    <3>4. Through(p, n)'
      BY <1>1, <1>2, <3>1, <3>3, ThroughExtends
    <3>5. Through(p, left)'
      BY <1>3, <3>3, <3>4
    <3> QED
      BY <1>3, <3>1, <3>5 DEF Through
  <2> QED
    BY <1>3, <2>1, <2>2 DEF PacketUnderWay
<1>6. SignSeen'
  BY <1>1, <1>3, SignStays DEF Intact, SignSeen
<1> QED
  BY <1>4, <1>5, <1>6 DEF Intact, SignSeen

LEMMA OtherIntact ==
    ASSUME Typed, Intact, NEW k, Drops(k),
           UNCHANGED <<packets, in_view, track_info>>,
           pc # "data", pc' \notin {"kind", "data"}
    PROVE  Intact'
<1>1. HeadersLead'
  BY HeadersDrop DEF Intact
<1>2. PacketUnderWay'
  BY DEF PacketUnderWay
<1>3. packets' \in Seq(AnyPacket) /\ Len(packets) <= Len(packets')
  BY StreamTypes
<1>4. SignSeen'
  BY <1>3, SignStays DEF Intact, SignSeen
<1> QED
  BY <1>1, <1>2, <1>4 DEF Intact, SignSeen

LEMMA HuntIntact ==
    ASSUME Typed, Intact, Hunt
    PROVE  Intact'
<1>1. Drops(1) /\ Byte = stream[1].val /\ Len(stream) \in Nat \ {0}
  BY StreamTypes, ReadDrops DEF Hunt, Byte
<1>2. /\ pc = "hunt" /\ pc' = IF stream[1].val = HEADER THEN "kind" ELSE "hunt"
      /\ UNCHANGED <<packets, colour, in_view, track_info>>
  BY <1>1 DEF Hunt, device, results
<1>3. CASE stream[1].val # HEADER
  BY <1>1, <1>2, <1>3, OtherIntact
<1>4. CASE stream[1].val = HEADER
  <2>1. HeadersLead' /\ HeadersLead
    BY <1>1, <1>2, HeadersDrop DEF Intact
  <2>2. 1 \in 1..Len(stream)
    BY <1>1
  <2>3. Leads(stream, 1) /\ stream[1].packet \in DOMAIN packets
    BY <1>4, <2>1, <2>2 DEF HeadersLead
  <2>4. PICK p \in DOMAIN packets : p = stream[1].packet
    BY <2>3
  <2>5. /\ 1 + 9 <= Len(stream)
        /\ \A j \in 1..8 : stream[1 + j].packet = p
        /\ stream[1 + 9].packet = p \/ stream[1 + 9].val = COLON
    BY <1>4, <2>3, <2>4 DEF Leads
  <2>6. Through(p, 10)
    <3>1. ASSUME NEW i \in 1..9 PROVE stream[i].packet = p
      <4>1. CASE i = 1
        BY <2>4, <4>1
      <4>2. CASE i # 1
        <5>1. i - 1 \in 1..8 /\ 1 + (i - 1) = i
          BY <4>2
        <5> QED
          BY <2>5, <5>1
      <4> QED
        BY <4>1, <4>2
    <3>2. 10 - 1 = 9 /\ 1 + 9 = 10
      OBVIOUS
    <3> QED
      BY <1>1, <2>4, <2>5, <3>1, <3>2 DEF Through
  <2>7. Through(p, 10 - 1)'
    BY <1>1, <1>2, <2>6, ThroughRead
  <2>8. PacketUnderWay'
    BY <1>2, <1>4, <2>4, <2>7 DEF PacketUnderWay
  <2>9. packets' \in Seq(AnyPacket) /\ Len(packets) <= Len(packets')
    BY <1>2, StreamTypes
  <2>10. SignSeen'
    BY <1>2, <2>9, SignStays DEF Intact, SignSeen
  <2> QED
    BY <2>1, <2>8, <2>10 DEF Intact, SignSeen
<1> QED
  BY <1>3, <1>4

LEMMA KindIntact ==
    ASSUME Typed, Intact, Kind
    PROVE  Intact'
<1>1. Drops(1)
  BY StreamTypes, ReadDrops DEF Kind
<1>2. /\ pc = "kind" /\ (pc' = "idle" \/ (pc' = "data" /\ left' = 8))
      /\ UNCHANGED <<packets, colour, in_view, track_info>>
  BY DEF Kind, Begin, device, results
<1>3. CASE pc' = "idle"
  BY <1>1, <1>2, <1>3, OtherIntact
<1>4. CASE pc' = "data" /\ left' = 8
  <2>1. HeadersLead'
    BY <1>1, <1>2, HeadersDrop DEF Intact
  <2>2. PICK p \in DOMAIN packets : Through(p, 9)
    BY <1>2 DEF Intact, PacketUnderWay
  <2>3. Through(p, 9 - 1)'
    BY <1>1, <1>2, <2>2, ThroughRead
  <2>4. Through(p, left)' /\ 8 - left' = 0
    BY <1>4, <2>3
  <2>5. PacketUnderWay'
    BY <1>2, <1>4, <2>2, <2>4 DEF PacketUnderWay
  <2>6. packets' \in Seq(AnyPacket) /\ Len(packets) <= Len(packets')
    BY <1>2, StreamTypes
  <2>7. SignSeen'
    BY <1>2, <2>6, SignStays DEF Intact, SignSeen
  <2> QED
    BY <2>1, <2>5, <2>7 DEF Intact, SignSeen
<1> QED
  BY <1>2, <1>3, <1>4

LEMMA DataIntact ==
    ASSUME Typed, Intact, Data
    PROVE  Intact'
<1>1. /\ pc = "data" /\ left \in 1..8 /\ Drops(1)
      /\ track_info' = [track_info EXCEPT ![colour][9 - left] = stream[1]]
      /\ UNCHANGED <<packets, colour>>
      /\ packets' \in Seq(AnyPacket) /\ Len(packets) <= Len(packets')
  BY DataFacts, StreamTypes
<1>2. HeadersLead'
  BY <1>1, HeadersDrop DEF Intact
<1>3. PICK p \in DOMAIN packets :
         /\ Through(p, left)
         /\ \A i \in 1..(8 - left) : track_info[colour][i].packet = p
  BY <1>1 DEF Intact, PacketUnderWay
<1>4. /\ track_info'[colour] =
            [track_info[colour] EXCEPT ![9 - left] = stream[1]]
      /\ colour # "stop_sign" =>
            track_info'["stop_sign"] = track_info["stop_sign"]
      /\ \A i \in 1..(8 - left) : track_info'[colour][i] = track_info[colour][i]
      /\ track_info'[colour][9 - left] = stream[1]
  <2>1. /\ track_info \in [Colours -> [1..8 -> Bytes]] /\ colour \in Colours
        /\ "stop_sign" \in Colours
    BY InfoTyped, Types, CameraAssumption DEF ClientTypes
  <2>2. track_info'[colour] =
           [track_info[colour] EXCEPT ![9 - left] = stream[1]]
    BY <1>1, <2>1
  <2>3. colour # "stop_sign" =>
           track_info'["stop_sign"] = track_info["stop_sign"]
    BY <1>1, <2>1
  <2>4. track_info[colour] \in [1..8 -> Bytes] /\ 9 - left \in 1..8
    BY <1>1, <2>1
  <2>5. \A i \in 1..(8 - left) : i \in 1..8 /\ i # 9 - left
    BY <1>1
  <2> QED
    BY <2>2, <2>3, <2>4, <2>5
<1>5. stream[1].packet = p =>
         \A i \in 1..(9 - left) : track_info'[colour][i].packet = p
  <2>1. \A i \in 1..(9 - left) : i \in 1..(8 - left) \/ i = 9 - left
    BY <1>1
  <2> QED
    BY <1>3, <1>4, <2>1
<1>6. in_view \in [Colours -> BOOLEAN] /\ "stop_sign" \in Colours
      /\ colour \in Colours
  BY Types, CameraAssumption DEF ClientTypes
<1>7. CASE /\ Breaks(stream[1].val) /\ pc' = "idle"
           /\ in_view' = [in_view EXCEPT !["stop_sign"] =
                             @ /\ colour # "stop_sign"]
  <2>1. in_view'["stop_sign"] => in_view["stop_sign"] /\ colour # "stop_sign"
    BY <1>6, <1>7
  <2>2. SignSeen'
    <3>1. CASE colour = "stop_sign"
      BY <2>1, <3>1 DEF SignSeen
    <3>2. CASE colour # "stop_sign"
      BY <1>1, <1>4, <2>1, <3>2, SignStays DEF Intact, SignSeen
    <3> QED
      BY <3>1, <3>2
  <2> QED
    BY <1>2, <1>7, <2>2 DEF Intact, SignSeen, PacketUnderWay
<1>8. CASE /\ ~Breaks(stream[1].val) /\ left' = left - 1 /\ left # 1
           /\ UNCHANGED <<pc, in_view>>
  <2>1. Through(p, left)' /\ stream[1].packet = p
    <3>1. PICK n \in Nat : n = left /\ n >= 2
      BY <1>1, <1>8
    <3>2. Through(p, n - 1)' /\ stream[1].packet = p
      BY <1>1, <1>3, <3>1, ThroughRead
    <3>3. left' = n - 1
      BY <1>8, <3>1
    <3> QED
      BY <3>2, <3>3
  <2>2. PacketUnderWay'
    <3>1. 8 - left' = 9 - left
      BY <1>1, <1>8
    <3>2. \A i \in 1..(8 - left') : track_info'[colour'][i].packet = p
      BY <1>1, <1>5, <2>1, <3>1
    <3> QED
      BY <1>1, <1>3, <1>8, <2>1, <3>2 DEF PacketUnderWay
  <2>3. SignSeen'
    <3>1. CASE colour = "stop_sign"
      BY <1>1, <1>8, <3>1 DEF SignSeen
    <3>2. CASE colour # "stop_sign"
      BY <1>1, <1>4, <1>8, <3>2, SignStays DEF Intact, SignSeen
    <3> QED
      BY <3>1, <3>2
  <2> QED
    BY <1>2, <2>2, <2>3 DEF Intact, SignSeen
<1>9. CASE /\ ~Breaks(stream[1].val) /\ left = 1 /\ pc' = "idle"
           /\ in_view' = [in_view EXCEPT
                             ![colour] = InView(track_info'[colour])]
  <2>1. stream[1].packet = p
    BY <1>3, <1>9 DEF Through, Breaks
  <2>2. SignSeen'
    <3>1. CASE colour = "stop_sign"
      <4>1. \A i \in 1..8 : track_info'["stop_sign"][i].packet = p
        BY <1>5, <1>9, <2>1, <3>1
      <4>2. Of("stop_sign", p)' /\ p \in DOMAIN packets'
        BY <1>1, <4>1 DEF Of
      <4> QED
        BY <4>2 DEF SignSeen
    <3>2. CASE colour # "stop_sign"
      <4>1. in_view'["stop_sign"] = in_view["stop_sign"]
        BY <1>6, <1>9, <3>2
      <4> QED
        BY <1>1, <1>4, <3>2, <4>1, SignStays DEF Intact, SignSeen
    <3> QED
      BY <3>1, <3>2
  <2> QED
    BY <1>2, <1>9, <2>2 DEF Intact, SignSeen, PacketUnderWay
<1> QED
  BY <1>7, <1>8, <1>9, DataFacts

LEMMA IntactNext == Typed /\ Intact /\ [Next]_vars => Intact'
<1> SUFFICES ASSUME Typed, Intact, [Next]_vars PROVE Intact'
  OBVIOUS
<1>1. CASE UNCHANGED vars
  BY <1>1 DEF vars, device, results, Intact, HeadersLead, Leads, PacketUnderWay,
     Through, Of
<1>2. ASSUME NEW c \in Colours, Track(c) PROVE Intact'
  <2>1. Drops(0)
    BY <1>2, StreamTypes DEF Track, Drops
  <2>2. /\ pc = "idle" /\ pc' = "ack"
        /\ UNCHANGED <<packets, in_view, track_info>>
    BY <1>2 DEF Track, Want, results
  <2> QED
    BY <2>1, <2>2, OtherIntact
<1>3. CASE FlushCam
  <2>1. PICK k \in 0..Len(stream) : Drops(k)
    BY <1>3, StreamTypes, FlushDrops DEF FlushCam
  <2>2. /\ pc = "idle" /\ pc' = "idle"
        /\ UNCHANGED <<packets, in_view, track_info>>
    BY <1>3 DEF FlushCam, device, results
  <2> QED
    BY <2>1, <2>2, OtherIntact
<1>4. CASE Retry
  <2>1. PICK k \in 0..Len(stream) : Drops(k)
    BY <1>4, StreamTypes, RetryDrops DEF Retry
  <2>2. /\ pc = "ack" /\ pc' = "ack"
        /\ UNCHANGED <<packets, in_view, track_info>>
    BY <1>4 DEF Retry, results
  <2> QED
    BY <2>1, <2>2, OtherIntact
<1>5. CASE AckBegins
  <2>1. Drops(1)
    BY <1>5, StreamTypes, ReadDrops DEF AckBegins
  <2>2. /\ pc = "ack" /\ pc' = "rest"
        /\ UNCHANGED <<packets, in_view, track_info>>
    BY <1>5 DEF AckBegins, Begin, device, results
  <2> QED
    BY <2>1, <2>2, OtherIntact
<1>6. CASE AckRest
  <2>1. /\ pc = "rest" /\ Drops(1) /\ pc' \in {"rest", "ack", "idle", "hunt"}
        /\ UNCHANGED <<packets, in_view, track_info>>
    BY <1>6, RestFacts
  <2> QED
    BY <2>1, OtherIntact
<1> QED
  BY <1>1, <1>2, <1>3, <1>4, <1>5, <1>6, CameraIntact, HuntIntact, KindIntact,
     DataIntact
  DEF Next, Client

LEMMA IntactEnds == Typed /\ Intact => InViewIsWhole
  BY DEF Intact, InViewIsWhole

-----------------------------------------------------------------------------
\* A call reads the answer to its own question.
LEMMA EchoPeriod ==
    ASSUME NEW d \in Nat
    PROVE  /\ EchoAt(d + 5) = EchoAt(d) /\ EchoAt(d + 15) = EchoAt(d)
           /\ EchoAt(d) # HEADER
           /\ EchoAt(d) = A <=> d % 5 = 4
<1>1. (d + 5) % 5 = d % 5 /\ (d + 15) % 5 = d % 5 /\ d % 5 \in 0..4
  OBVIOUS
<1>2. EchoAt(d) \in {A, C, K, CR, COLON} /\ (EchoAt(d) = A <=> d % 5 = 4)
  BY <1>1 DEF EchoAt, A, C, K, CR, COLON
<1>3. EchoAt(d + 5) = EchoAt(d) /\ EchoAt(d + 15) = EchoAt(d)
  BY <1>1 DEF EchoAt
<1>4. EchoAt(d) # HEADER
  BY <1>2 DEF A, C, K, CR, COLON, HEADER
<1> QED
  BY <1>2, <1>3, <1>4

LEMMA EchoesDrop ==
    ASSUME Typed, Echoes, NEW k, Drops(k)
    PROVE  Echoes'
<1>1. /\ Len(stream) \in Nat /\ k \in 0..Len(stream)
      /\ Len(stream') = Len(stream) - k
  BY StreamTypes DEF Drops
<1>2. ASSUME NEW i \in 1..Len(stream')
      PROVE  stream'[i].val = EchoAt(Len(stream') - i)
  <2>1. /\ i \in 1..(Len(stream) - k) /\ i + k \in 1..Len(stream)
        /\ Len(stream) - (i + k) = Len(stream') - i
    BY <1>1
  <2>2. stream'[i] = stream[i + k]
    BY <2>1 DEF Drops
  <2>3. stream[i + k].val = EchoAt(Len(stream) - (i + k))
    BY <2>1 DEF Echoes
  <2> QED
    BY <2>1, <2>2, <2>3
<1> QED
  BY <1>2 DEF Echoes

LEMMA EchoesExtend ==
    ASSUME Typed, Echoes, Extends(Echo)
    PROVE  Echoes' /\ Len(stream') = Len(stream) + 5
<1>1. /\ Len(stream) \in Nat /\ Len(Echo) = 5
      /\ Len(stream') = Len(stream) + 5
  BY StreamTypes, EchoFacts DEF Extends
<1>2. ASSUME NEW i \in 1..Len(stream')
      PROVE  stream'[i].val = EchoAt(Len(stream') - i)
  <2>1. CASE i <= Len(stream)
    <3>1. /\ i \in 1..Len(stream) /\ Len(stream) - i \in Nat
          /\ (Len(stream) - i) + 5 = Len(stream') - i
      BY <1>1, <2>1
    <3>2. stream'[i] = stream[i] /\ stream[i].val = EchoAt(Len(stream) - i)
      BY <3>1 DEF Extends, Echoes
    <3> QED
      BY <3>1, <3>2, EchoPeriod
  <2>2. CASE ~(i <= Len(stream))
    <3>1. /\ i - Len(stream) \in 1..5 /\ Len(stream) + (i - Len(stream)) = i
          /\ 5 - (i - Len(stream)) = Len(stream') - i
      BY <1>1, <2>2
    <3>2. stream'[Len(stream) + (i - Len(stream))] = Echo[i - Len(stream)]
      BY <1>1, <3>1 DEF Extends
    <3>3. Echo[i - Len(stream)].val = EchoAt(5 - (i - Len(stream)))
      BY <3>1, EchoFacts
    <3> QED
      BY <3>1, <3>2, <3>3
  <2> QED
    BY <2>1, <2>2
<1> QED
  BY <1>1, <1>2 DEF Echoes

\* The bytes of an answer stay in their places when others are read.
Places == \A i \in 1..Len(stream) :
              InAnswer(stream[i], Len(stream) - i, Len(packets))

LEMMA PlacesDrop ==
    ASSUME Typed, Places, Drops(1), UNCHANGED packets
    PROVE  Places'
<1>1. /\ Len(stream) \in Nat /\ Len(stream') = Len(stream) - 1
      /\ \A i \in 1..(Len(stream) - 1) : stream'[i] = stream[i + 1]
  BY StreamTypes DEF Drops
<1>2. ASSUME NEW i \in 1..Len(stream')
      PROVE  InAnswer(stream'[i], Len(stream') - i, Len(packets'))
  <2>1. /\ i \in 1..(Len(stream) - 1) /\ i + 1 \in 1..Len(stream)
        /\ Len(stream) - (i + 1) = Len(stream') - i
    BY <1>1
  <2>2. InAnswer(stream[i + 1], Len(stream) - (i + 1), Len(packets))
    BY <2>1 DEF Places
  <2> QED
    BY <1>1, <2>1, <2>2
<1> QED
  BY <1>2 DEF Places

LEMMA PlacesTracked ==
    ASSUME Typed, Echoes, NEW data \in Measured, NEW r,
           TrackedBytes(r, Len(packets)), TrackedValues(r, data), Extends(r),
           Len(packets') = Len(packets) + 1,
           ~\E i \in DOMAIN data : Breaks(data[i])
    PROVE  Places' /\ Len(stream') = Len(stream) + 15
<1>1. /\ Len(stream) \in Nat /\ Len(r) = 15
      /\ Len(stream') = Len(stream) + 15
  BY StreamTypes DEF TrackedBytes, Extends
<1>2. \A i \in 1..8 : ~Breaks(data[i])
  <2>1. data \in Seq(0..254) /\ Len(data) = 8
    BY CameraAssumption
  <2>2. DOMAIN data = 1..8
    BY <2>1, LenProperties
  <2> QED
    BY <2>2
<1>3. ASSUME NEW i \in 1..Len(stream), NEW q
      PROVE  InAnswer(stream'[i], Len(stream') - i, q)
  <2>1. /\ Len(stream) - i \in Nat
        /\ (Len(stream) - i) + 15 = Len(stream') - i
        /\ Len(stream') - i >= 15
    BY <1>1
  <2>2. stream'[i] = stream[i] /\ stream[i].val = EchoAt(Len(stream) - i)
    BY DEF Extends, Echoes
  <2>3. stream'[i].val = EchoAt(Len(stream') - i)
    BY <2>1, <2>2, EchoPeriod
  <2> QED
    BY <2>1, <2>3, SMTT(30) DEF InAnswer
<1>4. ASSUME NEW j \in 1..15
      PROVE  InAnswer(r[j], 15 - j, Len(packets) + 1)
  <2>1. CASE j \in 1..4
    <3>1. r[j].val = EchoAt(15 - j) /\ 15 - j >= 11
      BY <2>1 DEF TrackedValues
    <3> QED
      BY <3>1 DEF InAnswer
  <2>2. CASE j = 5 \/ j = 6 \/ j = 15
    BY <2>2 DEF InAnswer, TrackedValues
  <2>3. CASE j \in 7..14
    <3>1. /\ j - 6 \in 1..8 /\ (j - 6) + 6 = j /\ 15 - j \in 1..8
          /\ j \in 5..14
      BY <2>3
    <3>2. r[(j - 6) + 6].val = data[j - 6]
      BY <3>1 DEF TrackedValues
    <3>3. r[j].packet = Len(packets) + 1 /\ ~Breaks(r[j].val)
      BY <1>2, <3>1, <3>2 DEF TrackedBytes
    <3> QED
      BY <3>1, <3>3 DEF InAnswer
  <2> QED
    BY <2>1, <2>2, <2>3
<1>5. ASSUME NEW i \in 1..Len(stream')
      PROVE  InAnswer(stream'[i], Len(stream') - i, Len(packets'))
  <2>1. CASE i <= Len(stream)
    <3>1. i \in 1..Len(stream)
      BY <1>1, <2>1
    <3> QED
      BY <1>3, <3>1
  <2>2. CASE ~(i <= Len(stream))
    <3>1. /\ i - Len(stream) \in 1..15 /\ Len(stream) + (i - Len(stream)) = i
          /\ 15 - (i - Len(stream)) = Len(stream') - i
      BY <1>1, <2>2, SMTT(30)
    <3>2. stream'[Len(stream) + (i - Len(stream))] = r[i - Len(stream)]
      BY <1>1, <3>1 DEF Extends
    <3>3. InAnswer(r[i - Len(stream)], 15 - (i - Len(stream)), Len(packets) + 1)
      BY <1>4, <3>1
    <3> QED
      BY <3>1, <3>2, <3>3
  <2> QED
    BY <2>1, <2>2
<1> QED
  BY <1>1, <1>5 DEF Places

LEMMA FreshInit == Init => Fresh
<1> SUFFICES ASSUME Init PROVE Fresh
  OBVIOUS
<1>1. /\ stream = <<>> /\ pc = "ack" /\ cmd = "RM" /\ ended = "none"
      /\ commands = <<[cmd |-> "RM", colour |-> colour, call |-> 0]>>
  BY DEF Init
<1>2. /\ Len(stream) = 0 /\ Len(commands) = 1
      /\ \A i \in 1..Len(commands) : commands[i].cmd # "TC"
  BY <1>1
<1> QED
  BY <1>1, <1>2
  DEF Fresh, AnswerIsFresh, InStep, Preparing, Echoes

\* A camera that misbehaved, or packets that break off, stay.
LEMMA CleanBefore ==
    ASSUME Typed, [Next]_vars, Clean'
    PROVE  Clean
<1>1. /\ accidents \in Nat
      /\ accidents' = accidents \/ accidents' = accidents + 1
  <2>1. CASE Answer \/ Refuse
    BY <2>1, CameraStep, StreamTypes
  <2>2. CASE ~(Answer \/ Refuse)
    BY <2>2, StreamTypes
    DEF Next, Client, Track, FlushCam, AckBegins, Retry, AckRest, Hunt, Kind,
        Data, vars, device
  <2> QED
    BY <2>1, <2>2
<1>2. /\ \A p \in DOMAIN packets : p \in DOMAIN packets'
      /\ \A p \in DOMAIN packets : packets'[p] = packets[p]
  <2>1. CASE Answer \/ Refuse
    <3>1. /\ packets' \in Seq(AnyPacket)
          /\ Len(packets) \in Nat /\ Len(packets') \in Nat
          /\ Len(packets) <= Len(packets')
          /\ \A p \in 1..Len(packets) : packets'[p] = packets[p]
      BY <2>1, CameraSends
    <3>2. DOMAIN packets = 1..Len(packets) /\ DOMAIN packets' = 1..Len(packets')
      BY <3>1, StreamTypes, LenProperties
    <3> QED
      BY <3>1, <3>2
  <2>2. CASE ~(Answer \/ Refuse)
    <3>1. packets' = packets
      BY <2>2
      DEF Next, Client, Track, FlushCam, AckBegins, Retry, AckRest, Hunt, Kind,
          Data, vars, device
    <3> QED
      BY <3>1
  <2> QED
    BY <2>1, <2>2
<1>3. accidents = 0
  BY <1>1 DEF Clean
<1> QED
  BY <1>2, <1>3 DEF Clean

LEMMA CameraFresh ==
    ASSUME Typed, Clean, Clean', InStep, Answer \/ Refuse
    PROVE  InStep'
<1>1. /\ commands # <<>> /\ commands' = Tail(commands) /\ UNCHANGED client
      /\ Acknowledges \/ Refuses \/ \E data \in Measured : Tracks(data)
  BY CameraStep
<1>2. commands \in Seq(AnyCommand) /\ Len(stream) \in Nat
  BY StreamTypes DEF Typed
<1>3. /\ commands' \in Seq(AnyCommand)
      /\ Len(commands) \in Nat \ {0} /\ Len(commands') = Len(commands) - 1
      /\ \A i \in 1..Len(commands') : commands'[i] = commands[i + 1]
      /\ Head(commands) = commands[1] /\ Head(commands) \in AnyCommand
      /\ commands' # <<>> => Last(commands') = Last(commands)
      /\ commands' = <<>> => Len(commands) = 1
  BY <1>1, <1>2, Taken
<1>4. accidents' # accidents + 1
  BY DEF Clean
<1>5. /\ pc' = pc /\ cmd' = cmd /\ left' = left
      /\ colour' = colour /\ calls' = calls
  BY <1>1 DEF client
<1>6. CASE Acknowledges
  <2>1. Extends(Echo) /\ commands[1].cmd # "TC"
    BY <1>3, <1>4, <1>6 DEF Acknowledges, Arrives
  <2>2. CASE pc = "idle" \/ cmd # "TC"
    <3>1. Preparing
      BY <2>2 DEF InStep
    <3>2. Echoes' /\ Len(stream') = Len(stream) + 5
      BY <2>1, <3>1, EchoesExtend DEF Preparing
    <3>3. Len(stream') % 5 = Len(stream) % 5
      BY <1>2, <3>2
    <3>4. \A i \in 1..Len(commands') : commands'[i].cmd # "TC"
      BY <1>3, <3>1 DEF Preparing
    <3>5. Preparing'
      BY <1>5, <3>1, <3>2, <3>3, <3>4 DEF Preparing
    <3> QED
      BY <1>5, <2>2, <3>5 DEF InStep
  <2>3. CASE pc # "idle" /\ cmd = "TC"
    <3>1. Tracking /\ Requesting
      BY <1>1, <2>3 DEF InStep, Tracking
    <3>2. Echoes' /\ Len(stream') = Len(stream) + 5
      BY <2>1, <3>1, EchoesExtend DEF Requesting
    <3>3. Len(stream') % 5 = Len(stream) % 5
      BY <1>2, <3>2
    <3>4. Len(commands) # 1
      BY <2>1, <3>1 DEF Requesting
    <3>5. commands' # <<>> /\ Last(commands') = Last(commands)
      BY <1>3, <3>4
    <3>6. ASSUME NEW i \in 1..Len(commands')
          PROVE  commands'[i].cmd = "TC" <=> i = Len(commands')
      <4>1. i + 1 \in 1..Len(commands) /\ commands'[i] = commands[i + 1]
            /\ (i + 1 = Len(commands) <=> i = Len(commands'))
        BY <1>3
      <4> QED
        BY <3>1, <4>1 DEF Requesting
    <3>7. Requesting'
      BY <1>5, <3>1, <3>2, <3>5, <3>6 DEF Requesting
    <3> QED
      BY <1>5, <2>3, <3>1, <3>3, <3>5, <3>7 DEF InStep, Tracking
  <2> QED
    BY <2>2, <2>3
<1>7. ASSUME NEW data \in Measured, Tracks(data) PROVE InStep'
  <2>1. PICK r : r = Tracked(data)
    OBVIOUS
  <2>2. Extends(r) /\ commands[1].cmd = "TC"
    BY <1>3, <1>4, <1>7, <2>1 DEF Tracks, Arrives
  <2>3. TrackedBytes(r, Len(packets)) /\ TrackedValues(r, data)
    BY <2>1, StreamTypes, TrackedFacts
  <2>4. pc # "idle" /\ cmd = "TC"
    <3>1. 1 \in 1..Len(commands)
      BY <1>3
    <3> QED
      BY <2>2, <3>1 DEF InStep, Preparing
  <2>5. Tracking /\ Requesting
    BY <1>1, <2>4 DEF InStep, Tracking
  <2>6. Len(commands) = 1
    <3>1. 1 \in 1..Len(commands)
      BY <1>3
    <3> QED
      BY <2>2, <2>5, <3>1 DEF Requesting
  <2>7. commands' = <<>>
    BY <1>3, <2>6, EmptySeq
  <2>8. Asked(data) \in AnyPacket /\ packets \in Seq(AnyPacket)
    BY <1>3, StreamTypes DEF Asked, AnyPacket, AnyCommand
  <2>9. packets' = Append(packets, Asked(data))
    BY <1>7 DEF Tracks
  <2>10. /\ packets' \in Seq(AnyPacket) /\ Len(packets') = Len(packets) + 1
         /\ packets'[Len(packets) + 1] = Asked(data)
    BY <2>8, <2>9, AppendProperties
  <2>11. Len(packets) \in Nat /\ DOMAIN packets' = 1..Len(packets')
    BY <2>10, StreamTypes, LenProperties
  <2>12. Len(packets') \in DOMAIN packets'
         /\ packets'[Len(packets')] = Asked(data) /\ Len(packets') > 0
    BY <2>10, <2>11
  <2>13. ~Asked(data).breaks
    BY <2>12 DEF Clean
  <2>14. ~\E i \in DOMAIN data : Breaks(data[i])
    BY <2>13 DEF Asked
  <2>15. Places' /\ Len(stream') = Len(stream) + 15
    BY <2>2, <2>3, <2>5, <2>10, <2>14, PlacesTracked DEF Requesting
  <2>16. Head(commands) = Last(commands)
    BY <1>3, <2>6 DEF Last
  <2>17. Asked(data).colour = colour /\ Asked(data).call = calls
    BY <2>5, <2>16 DEF Asked, Requesting
  <2>18. pc \in {"ack", "rest", "hunt"}
    BY <2>5 DEF Requesting
  <2>19. Answered'
    BY <1>2, <1>5, <2>12, <2>15, <2>17, <2>18 DEF Answered, Places
  <2>20. Len(stream') % 5 = Len(stream) % 5
    BY <1>2, <2>15
  <2> QED
    BY <1>5, <2>4, <2>5, <2>7, <2>19, <2>20 DEF InStep, Tracking
<1> QED
  BY <1>1, <1>4, <1>6, <1>7 DEF Refuses

\* Sending keeps what the queue holds.
LEMMA SendPrepares ==
    ASSUME Typed, NEW c \in {"RM", "CR", "PM"}, Send(c),
           \A i \in 1..Len(commands) : commands[i].cmd # "TC",
           colour' \in Colours, calls' \in Nat
    PROVE  \A i \in 1..Len(commands') : commands'[i].cmd # "TC"
<1>1. commands \in Seq(AnyCommand)
  BY DEF Typed
<1>2. /\ Len(commands) \in Nat /\ Len(commands') = Len(commands) + 1
      /\ \A i \in 1..Len(commands) : commands'[i] = commands[i]
      /\ commands'[Len(commands) + 1].cmd = c
  BY <1>1, Sent
<1>3. ASSUME NEW i \in 1..Len(commands') PROVE commands'[i].cmd # "TC"
  <2>1. i \in 1..Len(commands) \/ i = Len(commands) + 1
    BY <1>2
  <2> QED
    BY <1>2, <2>1
<1> QED
  BY <1>3

LEMMA SendRequests ==
    ASSUME Typed, Send("TC"),
           \A i \in 1..Len(commands) : commands[i].cmd # "TC",
           colour' \in Colours, calls' \in Nat
    PROVE  /\ \A i \in 1..Len(commands') :
                 commands'[i].cmd = "TC" <=> i = Len(commands')
           /\ Last(commands').colour = colour' /\ Last(commands').call = calls'
           /\ commands' # <<>>
<1>1. commands \in Seq(AnyCommand)
  BY DEF Typed
<1>2. /\ Len(commands) \in Nat /\ Len(commands') = Len(commands) + 1
      /\ commands' # <<>>
      /\ \A i \in 1..Len(commands) : commands'[i] = commands[i]
      /\ commands'[Len(commands) + 1].cmd = "TC"
      /\ Last(commands').colour = colour' /\ Last(commands').call = calls'
  BY <1>1, Sent
<1>3. ASSUME NEW i \in 1..Len(commands')
      PROVE  commands'[i].cmd = "TC" <=> i = Len(commands')
  <2>1. i \in 1..Len(commands) \/ i = Len(commands) + 1
    BY <1>2
  <2>2. CASE i \in 1..Len(commands)
    BY <1>2, <2>2
  <2>3. CASE i = Len(commands) + 1
    BY <1>2, <2>3
  <2> QED
    BY <2>1, <2>2, <2>3
<1> QED
  BY <1>2, <1>3

LEMMA TrackFresh ==
    ASSUME Typed, InStep, NEW c \in Colours, Track(c)
    PROVE  InStep'
<1>1. /\ pc = "idle" /\ pc' = "ack" /\ cmd' = "PM" /\ Send("PM")
      /\ colour' = c /\ calls' = calls + 1 /\ UNCHANGED stream
  BY DEF Track, Want
<1>2. calls' \in Nat
  BY <1>1, StreamTypes
<1>3. Preparing
  BY <1>1 DEF InStep
<1>4. \A i \in 1..Len(commands') : commands'[i].cmd # "TC"
  BY <1>1, <1>2, <1>3, SendPrepares DEF Preparing
<1>5. Preparing'
  BY <1>1, <1>3, <1>4 DEF Preparing, Echoes
<1> QED
  BY <1>1, <1>5 DEF InStep

LEMMA FlushFresh ==
    ASSUME Typed, InStep, FlushCam
    PROVE  InStep'
<1>1. /\ pc = "idle" /\ pc' = "idle" /\ stream' \in Flushed(stream)
      /\ UNCHANGED commands
  BY DEF FlushCam, device
<1>2. PICK k \in 0..Len(stream) : Drops(k)
  BY <1>1, StreamTypes, FlushDrops
<1>3. Preparing
  BY <1>1 DEF InStep
<1>4. Echoes'
  BY <1>2, <1>3, EchoesDrop DEF Preparing
<1> QED
  BY <1>1, <1>3, <1>4 DEF InStep, Preparing

\* While a call waits for an acknowledgement in step, the first byte is an A.
LEMMA FirstIsA ==
    ASSUME Typed, Tracking, pc = "ack", stream # <<>>
    PROVE  stream[1].val = A
<1>1. Len(stream) \in Nat \ {0} /\ Len(stream) % 5 = 0
  <2>1. stream \in Seq(AnyByte)
    BY DEF Typed
  <2> QED
    BY <2>1, EmptySeq DEF Tracking
<1>2. /\ Len(stream) - 1 \in Nat /\ (Len(stream) - 1) % 5 = 4
      /\ 1 \in 1..Len(stream) /\ (Len(stream) >= 11 => Len(stream) - 1 >= 11)
  BY <1>1
<1>3. EchoAt(Len(stream) - 1) = A
  BY <1>2, EchoPeriod
<1>4. CASE commands # <<>>
  BY <1>2, <1>3, <1>4 DEF Tracking, Requesting, Echoes
<1>5. CASE commands = <<>>
  <2>1. /\ InAnswer(stream[1], Len(stream) - 1, Len(packets))
        /\ Len(stream) >= 11
    BY <1>2, <1>5 DEF Tracking, Answered
  <2> QED
    BY <1>2, <1>3, <2>1 DEF InAnswer
<1> QED
  BY <1>4, <1>5

LEMMA RetryFresh ==
    ASSUME Typed, InStep, Retry
    PROVE  InStep'
<1>1. /\ pc = "ack" /\ stream # <<>> /\ Byte # A /\ Send(cmd)
      /\ stream' \in Flushed(Tail(stream))
      /\ UNCHANGED <<pc, cmd, colour, calls>>
  BY DEF Retry
<1>2. Byte = stream[1].val
  <2>1. stream \in Seq(AnyByte) /\ Len(stream) \in Nat
    BY StreamTypes
  <2> QED
    BY <2>1 DEF Byte
<1>3. cmd # "TC" /\ Preparing
  BY <1>1, <1>2, FirstIsA DEF InStep
<1>4. PICK k \in 0..Len(stream) : Drops(k)
  BY <1>1, StreamTypes, RetryDrops
<1>5. Echoes'
  BY <1>3, <1>4, EchoesDrop DEF Preparing
<1>6. cmd \in {"RM", "CR", "PM"} /\ colour' \in Colours /\ calls' \in Nat
  BY <1>1, <1>3, Types, StreamTypes DEF ClientTypes
<1>7. \A i \in 1..Len(commands') : commands'[i].cmd # "TC"
  BY <1>1, <1>3, <1>6, SendPrepares DEF Preparing
<1> QED
  BY <1>1, <1>3, <1>5, <1>7 DEF InStep, Preparing

\* Reading a byte while nothing is sent.
LEMMA ReadPreparing ==
    ASSUME Typed, Preparing, Drops(1), UNCHANGED commands,
           pc' = "rest" => Len(stream') % 5 = left'
    PROVE  Preparing'
<1>1. Echoes'
  BY EchoesDrop DEF Preparing
<1> QED
  BY <1>1 DEF Preparing

LEMMA ReadRequesting ==
    ASSUME Typed, Requesting, Drops(1), UNCHANGED <<commands, colour, calls>>,
           pc' \in {"ack", "rest", "hunt"}
    PROVE  Requesting'
<1>1. Echoes'
  BY EchoesDrop DEF Requesting
<1> QED
  BY <1>1 DEF Requesting

LEMMA ReadAnswered ==
    ASSUME Typed, Answered, Drops(1), UNCHANGED <<packets, colour, calls>>,
           pc' \in {"ack", "rest", "hunt"} => Len(stream') >= 11,
           pc' = "kind" => Len(stream') = 10,
           pc' = "data" =>
               /\ Len(stream') = left' + 1
               /\ \A i \in 1..(8 - left') :
                     track_info'[colour'][i].packet = Len(packets')
    PROVE  Answered'
<1>1. Places'
  <2>1. Places
    BY DEF Answered, Places
  <2> QED
    BY <2>1, PlacesDrop
<1> QED
  BY <1>1 DEF Answered, Places

LEMMA AckFresh ==
    ASSUME Typed, InStep, AckBegins
    PROVE  InStep'
<1>1. Drops(1) /\ Byte = stream[1].val
  BY StreamTypes, ReadDrops DEF AckBegins, Byte
<1>2. /\ pc = "ack" /\ pc' = "rest" /\ stream[1].val = A
      /\ left' = IF cmd = "TC" THEN 3 ELSE 4
      /\ UNCHANGED <<commands, packets, cmd, colour, calls>>
  BY <1>1 DEF AckBegins, Begin, bytes_in_ack, device
<1>3. Len(stream) \in Nat \ {0} /\ Len(stream') = Len(stream) - 1
  BY <1>1, OneRead
<1>4. CASE cmd # "TC"
  <2>1. Preparing
    BY <1>4 DEF InStep
  <2>2. Len(stream) - 1 \in Nat /\ 1 \in 1..Len(stream)
    BY <1>3
  <2>3. EchoAt(Len(stream) - 1) = A
    BY <1>2, <2>1, <2>2 DEF Preparing, Echoes
  <2>4. Len(stream') % 5 = 4
    BY <1>3, <2>2, <2>3, EchoPeriod
  <2>5. Preparing'
    BY <1>1, <1>2, <1>4, <2>1, <2>4, ReadPreparing
  <2> QED
    BY <1>2, <1>4, <2>5 DEF InStep
<1>5. CASE cmd = "TC"
  <2>1. Tracking
    BY <1>2, <1>5 DEF InStep
  <2>2. Len(stream) % 5 = 0
    BY <1>2, <2>1 DEF Tracking
  <2>3. Len(stream') % 5 = 4 /\ (Len(stream) >= 11 => Len(stream') >= 11)
    BY <1>3, <2>2
  <2>4. commands # <<>> => Requesting'
    BY <1>1, <1>2, <2>1, ReadRequesting DEF Tracking
  <2>5. commands = <<>> => Answered'
    <3>1. Answered => Len(stream) >= 11
      BY <1>2 DEF Answered
    <3> QED
      BY <1>1, <1>2, <2>1, <2>3, <3>1, ReadAnswered DEF Tracking
  <2>6. Tracking'
    BY <1>2, <1>5, <2>3, <2>4, <2>5 DEF Tracking
  <2> QED
    BY <1>2, <1>5, <2>6 DEF InStep
<1> QED
  BY <1>4, <1>5

LEMMA RestFresh ==
    ASSUME Typed, InStep, AckRest
    PROVE  InStep'
<1>1. /\ pc = "rest" /\ Drops(1) /\ left \in 1..8 /\ left' = left - 1
      /\ UNCHANGED <<packets, colour, calls>>
  BY RestFacts
<1>2. Len(stream) \in Nat \ {0} /\ Len(stream') = Len(stream) - 1
  BY <1>1, OneRead
<1>3. left <= IF cmd = "TC" THEN 3 ELSE 4
  BY <1>1, Types DEF ClientTypes, bytes_in_ack
<1>4. colour' \in Colours /\ calls' \in Nat
  BY <1>1, Types, StreamTypes DEF ClientTypes
<1>5. CASE cmd # "TC"
  <2>1. Preparing /\ Len(stream) % 5 = left
    BY <1>1, <1>5 DEF InStep, Preparing
  <2>2. Len(stream') % 5 = left - 1
    BY <1>1, <1>2, <1>3, <1>5, <2>1
  <2>3. CASE UNCHANGED <<commands, cmd>> /\ pc' \in {"rest", "idle"}
    <3>1. Preparing'
      BY <1>1, <2>1, <2>2, <2>3, ReadPreparing
    <3> QED
      BY <1>5, <2>3, <3>1 DEF InStep
  <2>4. Echoes'
    BY <1>1, <2>1, EchoesDrop DEF Preparing
  <2>5. CASE cmd = "RM" /\ pc' = "ack" /\ cmd' = "CR" /\ Send(cmd')
    <3>1. \A i \in 1..Len(commands') : commands'[i].cmd # "TC"
      BY <1>4, <2>1, <2>5, SendPrepares DEF Preparing
    <3> QED
      BY <2>4, <2>5, <3>1 DEF InStep, Preparing
  <2>6. CASE /\ left = 1 /\ cmd = "PM" /\ pc' = "ack" /\ cmd' = "TC"
             /\ Send(cmd')
    <3>1. Send("TC")
      BY <2>6
    <3>2. /\ \A i \in 1..Len(commands') :
                commands'[i].cmd = "TC" <=> i = Len(commands')
          /\ Last(commands').colour = colour' /\ Last(commands').call = calls'
          /\ commands' # <<>>
      BY <1>4, <2>1, <3>1, SendRequests DEF Preparing
    <3>3. Requesting'
      BY <2>4, <2>6, <3>2 DEF Requesting
    <3>4. Len(stream') % 5 = 0
      BY <2>2, <2>6
    <3> QED
      BY <2>6, <3>2, <3>3, <3>4 DEF InStep, Tracking
  <2> QED
    BY <1>1, <1>5, <2>3, <2>5, <2>6, RestFacts
<1>6. CASE cmd = "TC"
  <2>1. Tracking /\ Len(stream) % 5 = left + 1
    BY <1>1, <1>6 DEF InStep, Tracking
  <2>2. /\ Len(stream') % 5 = left
        /\ Len(stream) >= 11 => Len(stream') >= 11
    BY <1>1, <1>2, <1>3, <1>6, <2>1
  <2>3. pc' \in {"rest", "hunt"} /\ UNCHANGED <<commands, cmd>>
    BY <1>1, <1>6, RestFacts
  <2>4. commands # <<>> => Requesting'
    BY <1>1, <2>1, <2>3, ReadRequesting DEF Tracking
  <2>5. commands = <<>> => Answered'
    <3>1. Answered => Len(stream) >= 11
      BY <1>1 DEF Answered
    <3> QED
      BY <1>1, <2>1, <2>2, <2>3, <3>1, ReadAnswered DEF Tracking
  <2>6. Tracking'
    BY <1>1, <2>2, <2>3, <2>4, <2>5 DEF Tracking
  <2> QED
    BY <1>6, <2>3, <2>6 DEF InStep
<1> QED
  BY <1>5, <1>6

LEMMA HuntFresh ==
    ASSUME Typed, InStep, Hunt
    PROVE  InStep'
<1>1. Drops(1) /\ Byte = stream[1].val
  BY StreamTypes, ReadDrops DEF Hunt, Byte
<1>2. /\ pc = "hunt" /\ pc' = IF stream[1].val = HEADER THEN "kind" ELSE "hunt"
      /\ UNCHANGED <<commands, packets, cmd, left, colour, calls>>
  BY <1>1 DEF Hunt, device
<1>3. cmd = "TC"
  BY <1>2, Types DEF ClientTypes
<1>4. Tracking
  BY <1>2, <1>3 DEF InStep
<1>5. /\ Len(stream) \in Nat \ {0} /\ Len(stream') = Len(stream) - 1
      /\ 1 \in 1..Len(stream) /\ Len(stream) - 1 \in Nat
  BY <1>1, OneRead
<1>6. CASE commands # <<>>
  <2>1. Requesting
    BY <1>4, <1>6 DEF Tracking
  <2>2. stream[1].val # HEADER
    BY <1>5, <2>1, EchoPeriod DEF Requesting, Echoes
  <2>3. Requesting'
    BY <1>1, <1>2, <2>1, <2>2, ReadRequesting
  <2> QED
    BY <1>2, <1>3, <1>6, <2>2, <2>3 DEF InStep, Tracking
<1>7. CASE commands = <<>>
  <2>1. Answered /\ Len(stream) >= 11
    BY <1>2, <1>4, <1>7 DEF Tracking, Answered
  <2>2. InAnswer(stream[1], Len(stream) - 1, Len(packets))
    BY <1>5, <2>1 DEF Answered
  <2>3. stream[1].val = HEADER <=> Len(stream) = 11
    <3>1. CASE Len(stream) = 11
      <4>1. Len(stream) - 1 = 10
        BY <3>1
      <4> QED
        BY <2>2, <3>1, <4>1 DEF InAnswer
    <3>2. CASE Len(stream) # 11
      <4>1. Len(stream) - 1 >= 11
        BY <1>5, <2>1, <3>2
      <4> QED
        BY <1>5, <2>2, <3>2, <4>1, EchoPeriod DEF InAnswer
    <3> QED
      BY <3>1, <3>2
  <2>4. CASE Len(stream) = 11
    <3>1. pc' = "kind" /\ Len(stream') = 10
      BY <1>2, <1>5, <2>3, <2>4
    <3>2. Answered'
      BY <1>1, <1>2, <2>1, <3>1, ReadAnswered
    <3> QED
      BY <1>2, <1>3, <1>7, <3>1, <3>2 DEF InStep, Tracking
  <2>5. CASE Len(stream) # 11
    <3>1. pc' = "hunt" /\ Len(stream') >= 11
      BY <1>2, <1>5, <2>1, <2>3, <2>5
    <3>2. Answered'
      BY <1>1, <1>2, <2>1, <3>1, ReadAnswered
    <3> QED
      BY <1>2, <1>3, <1>7, <3>1, <3>2 DEF InStep, Tracking
  <2> QED
    BY <2>4, <2>5
<1> QED
  BY <1>6, <1>7

LEMMA KindFresh ==
    ASSUME Typed, InStep, Kind
    PROVE  InStep'
<1>1. Drops(1) /\ Byte = stream[1].val
  BY StreamTypes, ReadDrops DEF Kind, Byte
<1>2. /\ pc = "kind" /\ UNCHANGED <<commands, packets, cmd, colour, calls>>
      /\ stream[1].val = T => pc' = "data" /\ left' = 8
  BY <1>1 DEF Kind, Begin, device
<1>3. cmd = "TC"
  BY <1>2, Types DEF ClientTypes
<1>4. commands = <<>> /\ Answered
  BY <1>2, <1>3 DEF InStep, Tracking, Requesting
<1>5. Len(stream) = 10 /\ Len(stream') = 9
  <2>1. Len(stream) = 10
    BY <1>2, <1>4 DEF Answered
  <2> QED
    BY <1>1, <2>1 DEF Drops
<1>6. InAnswer(stream[1], 9, Len(packets))
  <2>1. InAnswer(stream[1], 10 - 1, Len(packets))
    BY <1>4, <1>5 DEF Answered
  <2>2. 10 - 1 = 9
    OBVIOUS
  <2> QED
    BY <2>1, <2>2
<1>7. pc' = "data" /\ left' = 8
  BY <1>2, <1>6 DEF InAnswer
<1>8. Len(stream') = left' + 1 /\ 8 - left' = 0
  BY <1>5, <1>7
<1>9. Answered'
  BY <1>1, <1>2, <1>4, <1>7, <1>8, ReadAnswered
<1> QED
  BY <1>2, <1>3, <1>4, <1>7, <1>9 DEF InStep, Tracking

LEMMA DataFresh ==
    ASSUME Typed, InStep, Data
    PROVE  /\ InStep'
           /\ ended' = "packet" =>
                 \E p \in DOMAIN packets : /\ Of(colour, p)'
                                           /\ packets[p].colour = colour
                                           /\ packets[p].call = calls
<1>1. /\ pc = "data" /\ cmd = "TC" /\ left \in 1..8 /\ Drops(1)
      /\ track_info' = [track_info EXCEPT ![colour][9 - left] = stream[1]]
      /\ UNCHANGED <<commands, packets, cmd, colour, calls>>
  BY DataFacts
<1>2. commands = <<>> /\ Answered
  BY <1>1 DEF InStep, Tracking, Requesting
<1>3. /\ Len(stream) = left + 1 /\ Len(stream) \in Nat
      /\ Len(stream') = left /\ 1 \in 1..Len(stream)
  <2>1. Len(stream) = left + 1
    BY <1>1, <1>2 DEF Answered
  <2>2. Len(stream') = Len(stream) - 1
    BY <1>1 DEF Drops
  <2> QED
    BY <1>1, <2>1, <2>2
<1>4. stream[1].packet = Len(packets) /\ ~Breaks(stream[1].val)
  <2>1. InAnswer(stream[1], Len(stream) - 1, Len(packets))
    BY <1>2, <1>3 DEF Answered
  <2>2. Len(stream) - 1 = left
    BY <1>1, <1>3
  <2> QED
    BY <1>1, <2>1, <2>2 DEF InAnswer
<1>5. \A i \in 1..(9 - left) : track_info'[colour][i].packet = Len(packets)
  <2>1. track_info \in [Colours -> [1..8 -> Bytes]] /\ colour \in Colours
    BY InfoTyped, Types DEF ClientTypes
  <2>2. track_info'[colour] =
           [track_info[colour] EXCEPT ![9 - left] = stream[1]]
    BY <1>1, <2>1
  <2>3. track_info[colour] \in [1..8 -> Bytes] /\ 9 - left \in 1..8
    BY <1>1, <2>1
  <2>4. ASSUME NEW i \in 1..(9 - left)
        PROVE  track_info'[colour][i].packet = Len(packets)
    <3>1. CASE i = 9 - left
      BY <1>4, <2>2, <2>3, <3>1
    <3>2. CASE i # 9 - left
      <4>1. i \in 1..(8 - left) /\ i \in 1..8
        BY <1>1, <3>2
      <4>2. track_info[colour][i].packet = Len(packets)
        BY <1>1, <1>2, <4>1 DEF Answered
      <4> QED
        BY <2>2, <2>3, <3>2, <4>1, <4>2
    <3> QED
      BY <3>1, <3>2
  <2> QED
    BY <2>4
<1>6. CASE left # 1
  <2>1. pc' = "data" /\ left' = left - 1 /\ ended' = ended
    BY <1>1, <1>4, <1>6, DataFacts
  <2>2. Len(stream') = left' + 1 /\ 8 - left' = 9 - left
    BY <1>1, <1>3, <2>1
  <2>3. Answered'
    BY <1>1, <1>2, <1>5, <2>1, <2>2, ReadAnswered
  <2>4. ended' # "packet"
    BY <1>1, <2>1, Types DEF ClientTypes
  <2> QED
    BY <1>1, <1>2, <2>1, <2>3, <2>4 DEF InStep, Tracking
<1>7. CASE left = 1
  <2>1. pc' = "idle"
    BY <1>4, <1>7, DataFacts
  <2>2. Places'
    <3>1. Places
      BY <1>2 DEF Answered, Places
    <3> QED
      BY <1>1, <3>1, PlacesDrop
  <2>3. Echoes'
    <3>1. Len(stream') = 1 /\ 1 - 1 = 0
      BY <1>3, <1>7
    <3>2. stream'[1].val = COLON
      <4>1. InAnswer(stream'[1], 1 - 1, Len(packets'))
        BY <2>2, <3>1 DEF Places
      <4> QED
        BY <3>1, <4>1 DEF InAnswer
    <3>3. EchoAt(0) = COLON
      BY DEF EchoAt
    <3> QED
      BY <3>1, <3>2, <3>3 DEF Echoes
  <2>4. Len(commands') = 0
    BY <1>1, <1>2, EmptyLength
  <2>5. InStep'
    BY <2>1, <2>3, <2>4 DEF InStep, Preparing
  <2>6. Of(colour, Len(packets))'
    <3>1. 9 - left = 8
      BY <1>7
    <3>2. \A i \in 1..8 : track_info'[colour'][i].packet = Len(packets')
      BY <1>1, <1>5, <3>1
    <3> QED
      BY <3>2 DEF Of
  <2>7. Len(packets) \in DOMAIN packets
    <3>1. Len(packets) > 0
      BY <1>2 DEF Answered
    <3> QED
      BY <3>1, StreamTypes
  <2>8. PICK p \in DOMAIN packets : p = Len(packets)
    BY <2>7
  <2>9. Of(colour, p)'
    BY <1>1, <2>6, <2>8 DEF Of
  <2> QED
    BY <1>2, <2>5, <2>8, <2>9 DEF Answered
<1> QED
  BY <1>6, <1>7

LEMMA StepFresh ==
    ASSUME Typed, Clean, Clean', InStep, [Next]_vars
    PROVE  InStep'
<1>1. CASE UNCHANGED vars
  BY <1>1
  DEF vars, device, results, InStep, Preparing, Tracking, Requesting, Answered,
      Echoes
<1> QED
  BY <1>1, CameraFresh, TrackFresh, FlushFresh, RetryFresh, AckFresh, RestFresh,
     HuntFresh, KindFresh, DataFresh
  DEF Next, Client

LEMMA AnswerStays ==
    ASSUME Typed, Clean, InStep, AnswerIsFresh, [Next]_vars, ended' = "packet"
    PROVE  \E p \in DOMAIN packets' : /\ Of(colour, p)'
                                      /\ packets'[p].colour = colour'
                                      /\ packets'[p].call = calls'
<1>1. CASE Data
  BY <1>1, DataFresh, DataFacts
<1>2. CASE ~Data
  <2>1. ended = "packet" /\ UNCHANGED <<colour, track_info, calls>>
    <3>1. CASE Answer \/ Refuse
      BY <3>1, CameraStep DEF client
    <3>2. CASE ~(Answer \/ Refuse)
      <4>1. ended = "packet" => pc = "idle"
        BY Types DEF ClientTypes
      <4> QED
        BY <1>2, <3>2, <4>1
        DEF Next, Client, Track, FlushCam, AckBegins, Retry, AckRest, Hunt,
            Kind, vars, results
    <3> QED
      BY <3>1, <3>2
  <2>2. PICK p \in DOMAIN packets : /\ Of(colour, p)
                                    /\ packets[p].colour = colour
                                    /\ packets[p].call = calls
    BY <2>1 DEF AnswerIsFresh, Clean
  <2>3. p \in DOMAIN packets' /\ packets'[p] = packets[p]
    <3>1. CASE Answer \/ Refuse
      <4>1. /\ packets' \in Seq(AnyPacket) /\ Len(packets) <= Len(packets')
            /\ \A i \in 1..Len(packets) : packets'[i] = packets[i]
            /\ Len(packets) \in Nat /\ Len(packets') \in Nat
        BY <3>1, CameraSends
      <4>2. DOMAIN packets = 1..Len(packets)
            /\ DOMAIN packets' = 1..Len(packets')
        BY <4>1, StreamTypes, LenProperties
      <4> QED
        BY <4>1, <4>2
    <3>2. CASE ~(Answer \/ Refuse)
      <4>1. packets' = packets
        BY <1>2, <3>2
        DEF Next, Client, Track, FlushCam, AckBegins, Retry, AckRest, Hunt,
            Kind, vars, device
      <4> QED
        BY <4>1
    <3> QED
      BY <3>1, <3>2
  <2>4. Of(colour, p)'
    BY <2>1, <2>2 DEF Of
  <2> QED
    BY <2>1, <2>2, <2>3, <2>4
<1> QED
  BY <1>1, <1>2

LEMMA FreshNext == Typed /\ Fresh /\ [Next]_vars => Fresh'
<1> SUFFICES ASSUME Typed, Fresh, [Next]_vars PROVE Fresh'
  OBVIOUS
<1>1. CASE ~Clean'
  BY <1>1 DEF Fresh, AnswerIsFresh, Clean
<1>2. CASE Clean'
  <2>1. Clean /\ InStep /\ AnswerIsFresh
    BY <1>2, CleanBefore DEF Fresh
  <2>2. InStep'
    BY <1>2, <2>1, StepFresh
  <2>3. AnswerIsFresh'
    BY <2>1, AnswerStays DEF AnswerIsFresh
  <2> QED
    BY <2>2, <2>3 DEF Fresh
<1> QED
  BY <1>1, <1>2

-----------------------------------------------------------------------------
LEMMA Inductive == Spec => []IInv
<1>1. Init => IInv
  BY TypedInit, WantedInit, IntactInit, FreshInit DEF IInv
<1>2. IInv /\ [Next]_vars => IInv'
  BY TypedNext, WantedNext, IntactNext, FreshNext DEF IInv
<1> QED
  BY <1>1, <1>2, PTL DEF Spec

\* The client's variables keep their types: what it reads for an
\* acknowledgement or a packet ends at the count it began with, and every byte
\* it has of a packet belongs to one the camera has sent.
THEOREM TypeCorrect == Spec => []TypeOK
<1>1. IInv => TypeOK
  BY DEF IInv, Typed
<1> QED
  BY <1>1, Inductive, PTL

\* read_cmu_byte waits without a limit, and retries flush whatever has arrived:
\* still, while no byte is lost and no command refused, there is a byte to read
\* or a command whose answer is to come.
THEOREM NoWaitInVain == Spec => []NoVainWait
<1>1. IInv => NoVainWait
  BY WantedEnds DEF IInv
<1> QED
  BY <1>1, Inductive, PTL

\* A stop sign is in view only as one whole packet, after any accidents, cut
\* answers and packets that break off.
THEOREM SignIsWhole == Spec => []InViewIsWhole
<1>1. IInv => InViewIsWhole
  BY IntactEnds DEF IInv
<1> QED
  BY <1>1, Inductive, PTL

\* A call that ends with a packet has read the camera's answer to its own
\* question, however many commands were repeated and answers flushed, as long
\* as no byte is lost and no packet has the look of a broken one.
THEOREM OwnAnswer == Spec => []AnswerIsFresh
<1>1. IInv => AnswerIsFresh
  BY DEF IInv, Fresh
<1> QED
  BY <1>1, Inductive, PTL
=============================================================================
