------------------------------- MODULE GpsFeed -------------------------------
(***************************************************************************)
(* Insula's GPS path.  The USART3 receive interrupt decodes an NMEA        *)
(* sentence a character at a time into GPS_package and raises              *)
(* Serialflag.flag3 at its end; the main loop polls the flag and forwards  *)
(* the package to the brain with GPS_send, a field at a time, with no      *)
(* lock.  flag3 shares its byte with flag2, which Lidar.supertest rewrites *)
(* (setSerial) with a load, a change and a store that the interrupt can    *)
(* split.  A character is abstracted to what the decoder tells apart; any  *)
(* may be lost on the line.                                                *)
(***************************************************************************)
EXTENDS Integers, FiniteSets, SequencesExt

CONSTANTS
    Feed,        \* the sentences the receiver sends, in order
    Code,        \* the value of each character of Feed, less 48
    Size,        \* the number of values of each field of GPS_package
    BufferSize,  \* of GPS_buffer
    MaxLost      \* bound: characters lost

\* GPS_buffer has 128 bytes; a sentence of NMEA 0183 has 82 at most.
ASSUME FeedAssumption ==
    /\ BufferSize \in Nat
    /\ Feed \in Seq(Seq(STRING))
    /\ \A k \in DOMAIN Feed : Len(Feed[k]) <= BufferSize

\* The decoder tells them from the text of a field.
Punctuation == {"$", "COMMA", ".", "LF"}

\* A sentence begins with its only dollar sign and ends with its only line feed.
ASSUME SentenceAssumption ==
    \A k \in DOMAIN Feed :
        /\ Feed[k] # <<>>
        /\ \A i \in DOMAIN Feed[k] :
              /\ Feed[k][i] = "$" <=> i = 1
              /\ Feed[k][i] = "LF" <=> i = Len(Feed[k])
              /\ Feed[k][i] \in Punctuation \/ Code[Feed[k][i]] \in Int

VARIABLES
    line,        \* what is left to receive of the sentence under way
    nth,         \* sentences of Feed started
    comma, GPS_counter, GPS_flags_a, GPS_package, flag3,    \* the decoder's
                                                            \* state
    flag2,       \* Serialflag.flag2: LIDAR bytes go to URG_buffer
    upper,       \* functionflags.upper: LIDAR detection is on
    pc,          \* where the main program is
    back,        \* supertest: where it was called from goes on
    loaded,      \* setSerial: the flag3 bits in the byte it loaded
    half,        \* GPS_send: what it loaded with a field's low bytes
    message,     \* GPS_send: the fields written so far, each the set of the
                 \* values its two loads saw
    sent,        \* history: the messages sent
    overlapped,  \* history: sentences that began before main was done with
                 \* the one before
    raced,       \* history: sentences of which a character came between the
                 \* load and the store of a setSerial that stores another
                 \* flag3 than it left
    begun,       \* history: the sentence whose dollar sign came last
    damaged,     \* history: sentences that lost a character
    lost

decoder == <<comma, GPS_counter, GPS_flags_a, GPS_package, flag3>>
device == <<line, nth>>
sender == <<half, message, sent>>
main == <<flag2, upper, pc, back, loaded, sender>>
history == <<overlapped, raced, begun, damaged, lost>>
vars == <<device, decoder, main, history>>

Field == {"time", "speed", "course", "latitude", "longitude"}

Blank == [f \in Field |-> 0]

\* The number of commas that precede a field the decoder keeps.
FieldAt == [n \in {1, 3, 5, 7, 8} |->
              CASE n = 1 -> "time"     [] n = 3 -> "latitude"
                [] n = 5 -> "longitude" [] n = 7 -> "speed"
                [] n = 8 -> "course"]

\* GPS_send's order.
SendOrder == <<"speed", "course", "latitude", "longitude">>

Init ==
    /\ line = <<>>
    /\ nth = 0
    /\ comma = 0 /\ GPS_counter = 0
    /\ GPS_flags_a = 0
    /\ GPS_package = Blank
    /\ flag3 = 0
    /\ flag2 = 0
    /\ upper = FALSE
    /\ pc = "poll" /\ back = "poll"
    /\ loaded = 0
    /\ half = 0
    /\ message = <<>>
    /\ sent = <<>>
    /\ overlapped = {} /\ raced = {}
    /\ begun = 0
    /\ damaged = {} /\ lost = 0

-----------------------------------------------------------------------------
\* The receiver.  The main program is not done with a sentence while its flag is
\* up, or in the byte that setSerial is going to store, or GPS_send at work.
Sending == pc \in {"low", "high", "clear"}

Busy == flag3 = 3 \/ loaded = 3 \/ Sending

StartSentence ==
    /\ line = <<>>
    /\ nth < Len(Feed)
    /\ line' = Feed[nth + 1]
    /\ nth' = nth + 1
    /\ overlapped' = overlapped \cup (IF Busy THEN {nth + 1} ELSE {})
    /\ UNCHANGED <<decoder, main, raced, begun, damaged, lost>>

\* A character is lost on the line.
LoseCharacter ==
    /\ line # <<>>
    /\ lost < MaxLost
    /\ lost' = lost + 1
    /\ line' = Tail(line)
    /\ damaged' = damaged \cup {nth}
    /\ UNCHANGED <<nth, decoder, main, overlapped, raced, begun>>

-----------------------------------------------------------------------------
\* The USART3 interrupt.  It puts the character in GPS_buffer, and a start of
\* packet resets the index first; what it writes past the end is not followed
\* any further.
Overrun == GPS_counter > BufferSize

BufferNever(ch) == GPS_counter' = GPS_counter + 1

Buffer(ch) == GPS_counter' = 1 + IF ch = "$" THEN 0 ELSE GPS_counter

\* A case for each kind of character.  A start of packet could forget the
\* status flag, or the ready flag.
DollarKeepStatus ==
    /\ comma' = 0
    /\ flag3' = 0
    /\ GPS_package' = Blank
    /\ UNCHANGED GPS_flags_a

DollarKeepReady ==
    /\ comma' = 0
    /\ GPS_flags_a' = 0
    /\ GPS_package' = Blank
    /\ UNCHANGED flag3

Dollar ==
    /\ comma' = 0
    /\ GPS_flags_a' = 0
    /\ flag3' = 0
    /\ GPS_package' = Blank

Comma ==
    /\ comma' = comma + 1
    /\ UNCHANGED <<GPS_flags_a, GPS_package, flag3>>

\* An end of packet that does not look at the status.
EndOfAnyPacket ==
    /\ flag3' = 3
    /\ UNCHANGED <<comma, GPS_flags_a, GPS_package>>

EndOfPacket ==
    /\ flag3' = IF GPS_flags_a = 0 THEN 3 ELSE flag3
    /\ UNCHANGED <<comma, GPS_flags_a, GPS_package>>

Status(ch) ==
    /\ GPS_flags_a' = IF ch # "A" THEN 1 ELSE GPS_flags_a
    /\ UNCHANGED <<comma, GPS_package, flag3>>

\* The fields are unsigned, of 16 and 32 bits.
DigitNoWidth(ch) ==
    /\ GPS_package' =
         [GPS_package EXCEPT ![FieldAt[comma]] = 10 * @ + Code[ch]]
    /\ UNCHANGED <<comma, GPS_flags_a, flag3>>

Digit(ch) ==
    /\ GPS_package' =
         [GPS_package EXCEPT ![FieldAt[comma]] =
             (10 * @ + Code[ch]) % Size[FieldAt[comma]]]
    /\ UNCHANGED <<comma, GPS_flags_a, flag3>>

Ignored == UNCHANGED <<comma, GPS_flags_a, GPS_package, flag3>>

Decode(ch) ==
    CASE ch = "$"  -> Dollar
      [] ch = "COMMA"  -> Comma
      [] ch = "LF" -> EndOfPacket
      [] ch = "."  -> Ignored
      [] OTHER -> CASE comma = 2                -> Status(ch)
                    [] comma \in DOMAIN FieldAt -> Digit(ch)
                    [] OTHER                    -> Ignored

Receive ==
    /\ line # <<>> /\ ~Overrun
    /\ Buffer(Head(line))
    /\ Decode(Head(line))
    /\ begun' = IF Head(line) = "$" THEN nth ELSE begun
    /\ line' = Tail(line)
    /\ raced' = raced \cup
         (IF pc \in {"store_off", "store_on"} /\ flag3' # loaded THEN {nth}
          ELSE {})
    /\ UNCHANGED <<nth, main, overlapped, damaged, lost>>

-----------------------------------------------------------------------------
\* The main loop polls the flag.
Poll ==
    /\ pc = "poll"
    /\ pc' = IF flag3 = 3 THEN "low" ELSE "lidar"
    /\ UNCHANGED <<device, decoder, flag2, upper, back, loaded, sender,
                   history>>

\* GPS_send copies a field, low bytes first, and writes it after its header.
Current == GPS_package[SendOrder[Len(message) + 1]]

LoadLow ==
    /\ pc = "low"
    /\ half' = Current
    /\ pc' = "high"
    /\ UNCHANGED <<device, decoder, flag2, upper, back, loaded, message, sent,
                   history>>

LoadHighAndWrite ==
    /\ pc = "high"
    /\ message' = Append(message, {half, Current})
    /\ half' = 0
    /\ pc' = IF Len(message') = Len(SendOrder) THEN "clear" ELSE "low"
    /\ UNCHANGED <<device, decoder, flag2, upper, back, loaded, sent,
                   history>>

\* The last field is out: flag3 = 0 (flag2, in the same byte, is main's own).
ClearFlag ==
    /\ pc = "clear"
    /\ flag3' = 0
    /\ sent' = Append(sent, message)
    /\ message' = <<>>
    /\ pc' = "lidar"
    /\ UNCHANGED <<device, comma, GPS_counter, GPS_flags_a, GPS_package, flag2,
                   upper, back, loaded, half, history>>

-----------------------------------------------------------------------------
\* The loop looks at functionflags.upper, then in check_msg for a command from
\* the console and for one from the radio, and goes around again.
After == [lidar |-> "console", console |-> "radio", radio |-> "poll"]

LidarOff ==
    /\ pc = "lidar" /\ ~upper
    /\ pc' = After[pc]
    /\ UNCHANGED <<device, decoder, flag2, upper, back, loaded, sender,
                   history>>

\* The command 'h' toggles LIDAR detection; most others do nothing to the GPS.
Console ==
    /\ pc \in {"console", "radio"}
    /\ upper' \in BOOLEAN
    /\ pc' = After[pc]
    /\ UNCHANGED <<device, decoder, flag2, back, loaded, sender, history>>

\* Lidar.supertest, seen from here: setSerial(OFF), the scan, setSerial(ON).
\* The loop calls it while LIDAR detection is on, and the command 'g' does.
SetSerialLoad ==
    /\ \/ /\ pc \in DOMAIN After /\ (pc = "lidar" => upper)
          /\ pc' = "store_off" /\ back' = After[pc]
       \/ pc = "scan" /\ pc' = "store_on" /\ UNCHANGED back
    /\ loaded' = flag3
    /\ UNCHANGED <<device, decoder, flag2, upper, sender, history>>

SetSerialStore ==
    /\ \/ /\ pc = "store_off" /\ flag2' = 3
          /\ pc' = "scan" /\ UNCHANGED back
       \/ /\ pc = "store_on" /\ flag2' = 0
          /\ pc' = back /\ back' = "poll"
    /\ flag3' = loaded
    /\ loaded' = 0
    /\ UNCHANGED <<device, comma, GPS_counter, GPS_flags_a, GPS_package, upper,
                   sender, history>>

Main ==
    \/ Poll \/ LoadLow \/ LoadHighAndWrite \/ ClearFlag
    \/ LidarOff \/ Console \/ SetSerialLoad \/ SetSerialStore

Next == StartSentence \/ LoseCharacter \/ Receive \/ Main

\* The interrupt takes every character that is on the line, and the main loop
\* goes round, apart from the scan: distAcq waits for the sensor without a
\* limit, so nothing makes a scan end.  The other waits of the loop are those
\* of a write, which ends, and of the two-wire bus, whose calls return.
Spec == Init /\ [][Next]_vars /\ WF_vars(Receive)
             /\ WF_vars(pc # "scan" /\ Main)

-----------------------------------------------------------------------------
\* What a sentence says, defined without the decoder.  Text(s, n): the places
\* of the characters of its n-th field, without decimal points.
CommasBefore(s, i) == Cardinality({j \in 1..(i - 1) : s[j] = "COMMA"})

Text(s, n) == {i \in DOMAIN s : s[i] \notin Punctuation
                                /\ CommasBefore(s, i) = n}

\* The number that the first i characters of a sentence spell in its n-th
\* field, in base 10.
Spelled(s, n) ==
    LET text == Text(s, n)
        number[i \in 0..Len(s)] ==
            IF i = 0 THEN 0
            ELSE IF i \in text THEN 10 * number[i - 1] + Code[s[i]]
            ELSE number[i - 1]
    IN  number

\* The commas before a field that the decoder keeps.
PlaceOf == [f \in Field |-> CHOOSE n \in DOMAIN FieldAt : FieldAt[n] = f]

Says(s) == [f \in Field |-> Spelled(s, PlaceOf[f])[Len(s)]]

Meaning == [k \in DOMAIN Feed |-> Says(Feed[k])]

\* A sentence's numbers fit their fields (globals.h names the largest time and
\* course), from their first digit on.
ASSUME SizeAssumption ==
    /\ \A f \in Field : Size[f] \in Nat \ {0}
    /\ \A k \in DOMAIN Feed, f \in Field : \A i \in 0..Len(Feed[k]) :
          Spelled(Feed[k], PlaceOf[f])[i] \in 0..(Size[f] - 1)

\* A receiver with a fix says so: the status field is the letter A.
HasFix(s) == {s[i] : i \in Text(s, 2)} = {"A"}

\* The message GPS_send should make of the k-th sentence.
MessageOf(k) == [i \in DOMAIN SendOrder |-> {Meaning[k][SendOrder[i]]}]

\* The sentences insula listens for: they have a status, and a comma behind the
\* last field that the decoder keeps.
IsRmc(s) == Text(s, 2) # {} /\ CommasBefore(s, Len(s)) >= 9

-----------------------------------------------------------------------------
\* Every variable has its type.  Commas are no more than the characters in
\* GPS_buffer, of which it has 128, so the 8 bits of comma never wrap; the
\* numbers of a damaged sentence stay in their fields.
TypeOK ==
    /\ nth \in 0..Len(Feed)
    /\ line = <<>> \/ (nth > 0 /\ IsSuffix(line, Feed[nth]))
    /\ GPS_counter \in 0..(BufferSize + 1)
    /\ comma \in 0..GPS_counter
    /\ GPS_flags_a \in {0, 1}
    /\ GPS_package \in [Field -> Nat]
    /\ \A f \in Field : GPS_package[f] < Size[f]
    /\ flag3 \in {0, 3}
    /\ flag2 \in {0, 3}
    /\ upper \in BOOLEAN
    /\ pc \in {"poll", "low", "high", "clear", "lidar", "store_off", "scan",
               "store_on", "console", "radio"}
    /\ back \in {"console", "radio", "poll"}
    /\ loaded \in {0, 3}
    /\ loaded = 3 => pc \in {"store_off", "store_on"}
    /\ Len(message) < Len(SendOrder) \/ pc = "clear"
    /\ begun \in 0..nth
    /\ damaged \cup overlapped \cup raced \subseteq 1..nth

\* While flag3 is up, GPS_package holds what the last sentence that began says,
\* the whole of it, and nothing yet of the next one: the main loop never polls
\* a flag that vouches for a half-decoded package, unless this sentence lost a
\* character, or setSerial stored over what this sentence did to the flag.  A
\* lost dollar sign leaves the sentence before vouched for.
FlagMeansComplete ==
    flag3 = 3 /\ begun \notin raced =>
        /\ begun = nth => line = <<>>
        /\ \/ begun > 0 /\ GPS_package = Meaning[begun]
           \/ begun \in damaged
           \/ begun = 0 /\ 1 \in damaged

\* GPS_send copies the package with no lock, so a sentence that begins before
\* the main loop is done with the one before (they come one a second, and the
\* loop takes less, but for a scan that waits) can spoil both.
Trodden(k) == k \in overlapped \/ k + 1 \in overlapped

\* What goes out to the brain is, message by message, what successive sentences
\* with a fix say: no message mixes two sentences, repeats one, or carries one
\* without a fix.  Damage stays where it is done: a lost character spoils what
\* its own sentence sends, two sentences that overlap spoil theirs, which is a
\* message each at most, and nothing later; a setSerial that is split by the
\* interrupt spoils nothing that goes out.
Forwards(k, msg) == HasFix(Feed[k]) /\ msg = MessageOf(k)

ForwardsFixes ==
    \E f \in [DOMAIN sent -> 1..nth] :
        /\ \A i \in DOMAIN sent :
             f[i] \in damaged \/ Trodden(f[i]) \/ Forwards(f[i], sent[i])
        /\ \A i, j \in DOMAIN sent : i < j => f[i] < f[j]

\* The interrupt stays inside GPS_buffer, which it indexes without a test, as
\* long as the sentence it receives has begun with its dollar sign, whatever
\* the ones before have left in the index.
StaysInBuffer == Overrun => begun < nth

\* "set 'bad status' flag": only sentences whose status says A are forwarded,
\* even when the receiver and the main loop take turns.
OnlyFixesForwarded ==
    overlapped = {} =>
        \A i \in DOMAIN sent : \E k \in 1..nth : Forwards(k, sent[i])

\* Every sentence with a fix reaches the brain, whatever the main loop was
\* doing when its last character came and whatever became of other sentences:
\* only a character of its own, a sentence that treads on it or that it treads
\* on, or a setSerial split by its own characters, can lose a fix; or else it
\* is still in the package when the main loop stays in a scan for ever.
EveryFixForwarded ==
    \A k \in DOMAIN Feed :
        HasFix(Feed[k]) =>
            (nth >= k ~>
                \/ k \in damaged \cup raced \/ Trodden(k)
                \/ \E i \in DOMAIN sent : sent[i] = MessageOf(k)
                \/ [](pc = "scan" /\ flag3 = 3 /\ GPS_package = Meaning[k]))
=============================================================================
